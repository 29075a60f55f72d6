---------------------------- MODULE DocumentProofs ----------------------------
(***************************************************************************)
(* What a document needs on its way to a client: that its types section    *)
(* defines every name it refers to, for all programs, and that the files   *)
(* it is written to are in step and read back, for any number of runs of   *)
(* the extractor that fail or are killed anywhere, whatever the builds say *)
(* in between, and whatever the format of documents is.  And what calls    *)
(* need of the contract: that no calldata makes it decode more than it has *)
(* been sent, and that it takes calldata for nothing else than a client    *)
(* who had sent it would mean.                                             *)
(***************************************************************************)
EXTENDS TypeCollection, ContractCall, SequenceTheorems, WellFoundedInduction, TLAPS

----------------------------------------------------------------------------
(* The collection of types *)

Covered(t) == reg[Name(t)] # NoType

(* The statements of the variants so far have been run, or are yet to run. *)
RootsInv ==
  \A i \in 1 .. at : \A t \in ToSet(CollectStmts(program.variants[i])) :
    Covered(t) \/ (i = at /\ t \in ToSet(todo))

(* A field of a registered type has been collected, or some call of        *)
(* collect that is in progress still has it to do.                         *)
FieldsInv ==
  \A t \in Registered : \A f \in ToSet(Fields(t)) :
    Covered(f) \/ \E i \in 1 .. Len(stack) : f \in ToSet(stack[i].rest)

IInv == TypeOK /\ RootsInv /\ FieldsInv

(* Elements of a concatenation, of a nonempty sequence, of an extension.   *)
LEMMA ToSetConcat ==
  ASSUME NEW S, NEW s \in Seq(S), NEW t \in Seq(S)
  PROVE  ToSet(s \o t) = ToSet(s) \cup ToSet(t)
<1>1. ASSUME NEW x \in ToSet(s \o t)  PROVE x \in ToSet(s) \cup ToSet(t)
  <2>1. PICK i \in 1 .. Len(s) + Len(t) : x = (s \o t)[i]
    BY <1>1 DEF ToSet
  <2>2. CASE i <= Len(s)
    BY <2>1, <2>2 DEF ToSet
  <2>3. CASE i > Len(s)
    <3>1. i - Len(s) \in 1 .. Len(t) /\ x = t[i - Len(s)]
      BY <2>1, <2>3
    <3> QED BY <3>1 DEF ToSet
  <2> QED BY <2>1, <2>2, <2>3
<1>2. ASSUME NEW x \in ToSet(s)  PROVE x \in ToSet(s \o t)
  <2>1. PICK i \in 1 .. Len(s) : x = s[i]
    BY <1>2 DEF ToSet
  <2>2. i \in 1 .. Len(s \o t) /\ x = (s \o t)[i]
    BY <2>1
  <2> QED BY <2>2 DEF ToSet
<1>3. ASSUME NEW x \in ToSet(t)  PROVE x \in ToSet(s \o t)
  <2>1. PICK i \in 1 .. Len(t) : x = t[i]
    BY <1>3 DEF ToSet
  <2>2. Len(s) + i \in 1 .. Len(s \o t) /\ x = (s \o t)[Len(s) + i]
    BY <2>1
  <2> QED BY <2>2 DEF ToSet
<1> QED BY <1>1, <1>2, <1>3

(* What stands at a position of a sequence is one of its elements.         *)
LEMMA ToSetElement ==
  ASSUME NEW S, NEW s \in Seq(S), NEW i \in 1 .. Len(s)
  PROVE  s[i] \in ToSet(s)
BY DEF ToSet

(* The elements of a nonempty sequence are its head and those of its tail. *)
LEMMA ToSetHead ==
  ASSUME NEW S, NEW s \in Seq(S), s # <<>>
  PROVE  /\ Head(s) \in S /\ Tail(s) \in Seq(S)
         /\ \A x \in ToSet(s) : x = Head(s) \/ x \in ToSet(Tail(s))
<1>0. Head(s) \in S /\ Tail(s) \in Seq(S)
  OBVIOUS
<1>1. ASSUME NEW x \in ToSet(s), x # Head(s)  PROVE x \in ToSet(Tail(s))
  <2>1. PICK i \in 1 .. Len(s) : x = s[i]
    BY DEF ToSet
  <2>2. i - 1 \in 1 .. Len(Tail(s)) /\ x = Tail(s)[i - 1]
    BY <1>1, <2>1
  <2>3. Tail(s)[i - 1] \in ToSet(Tail(s))
    BY <1>0, <2>2, ToSetElement
  <2> QED BY <2>2, <2>3
<1> QED BY <1>0, <1>1

(* All calls in progress but the last: their number and their order.       *)
LEMMA FrontProperties ==
  ASSUME NEW S, NEW s \in Seq(S), s # <<>>
  PROVE  /\ SubSeq(s, 1, Len(s) - 1) \in Seq(S)
         /\ Len(SubSeq(s, 1, Len(s) - 1)) = Len(s) - 1
         /\ \A i \in 1 .. Len(s) - 1 : SubSeq(s, 1, Len(s) - 1)[i] = s[i]
<1> DEFINE m == Len(s) - 1
<1>1. m \in Nat /\ m \in Int /\ 1 \in Int /\ m - 1 + 1 = m
  OBVIOUS
<1>2. \A i \in 1 .. m : s[i] \in S
  OBVIOUS
<1> HIDE DEF m
<1>3. /\ SubSeq(s, 1, m) \in Seq(S)
      /\ Len(SubSeq(s, 1, m)) = IF 1 <= m THEN m - 1 + 1 ELSE 0
      /\ \A i \in 1 .. m - 1 + 1 : SubSeq(s, 1, m)[i] = s[1 + i - 1]
  BY <1>1, <1>2, SubSeqProperties
<1>4. Len(SubSeq(s, 1, m)) = m /\ \A i \in 1 .. m : SubSeq(s, 1, m)[i] = s[i]
  BY <1>1, <1>3
<1> QED BY <1>3, <1>4 DEF m

(* What a variant's schemas refer to is what its statements collect.       *)
LEMMA StmtsCoverRefs ==
  ASSUME NEW v \in Variants
  PROVE  /\ CollectStmts(v) \in Seq(Types)
         /\ ToSet(CollectStmts(v)) = MethodRefs(v)
<1>1. v.params \in Seq(Types) /\ v.witness \in Seq(Types) /\ v.returns \in Seq(Types)
  BY DEF Variants
<1>2. v.params \o v.witness \in Seq(Types)
  BY <1>1
<1>3. ToSet(v.params \o v.witness) = ToSet(v.params) \cup ToSet(v.witness)
  BY <1>1, ToSetConcat
<1>4. ToSet((v.params \o v.witness) \o v.returns)
        = ToSet(v.params \o v.witness) \cup ToSet(v.returns)
  BY <1>1, <1>2, ToSetConcat
<1> QED BY <1>1, <1>2, <1>3, <1>4 DEF CollectStmts, MethodRefs

Frames == [type : Types, rest : Seq(Types)]

(* Names, fields and statements of a program are what their types say.     *)
LEMMA ProgramTypes ==
  ASSUME TypeOK
  PROVE  /\ program.name \in [Types -> Names]
         /\ \A t \in Types : Name(t) \in Names /\ Fields(t) \in Seq(Types)
         /\ program.variants \in Seq(Variants)
BY ProgramAssumption DEF TypeOK, Name, Fields

(* A call of collect for t, from calls that have at most t and what their  *)
(* own rests hold still to collect: t is defined afterwards, nothing that  *)
(* was defined is lost, and only open rests are missing.                   *)
LEMMA CollectStep ==
  ASSUME TypeOK, program' = program,
         NEW t \in Types, NEW below \in Seq(Frames), Collect(t, below),
         \A u \in Registered : \A f \in ToSet(Fields(u)) :
           Covered(f) \/ f = t \/ \E i \in 1 .. Len(below) : f \in ToSet(below[i].rest)
  PROVE  /\ stack' \in Seq(Frames)
         /\ reg' \in [Names -> Types \cup {NoType}]
         /\ Covered(t)' /\ \A u \in Types : Covered(u) => Covered(u)'
         /\ FieldsInv'
<1>1. Name(t) \in Names /\ Fields(t) \in Seq(Types) /\ reg \in [Names -> Types \cup {NoType}]
  BY ProgramTypes DEF TypeOK
<1>2. CASE reg[Name(t)] # NoType
  <2>1. stack' = below /\ reg' = reg
    BY <1>2 DEF Collect
  <2>2. Covered(t)
    BY <1>2 DEF Covered
  <2>3. ASSUME NEW u \in Registered, NEW f \in ToSet(Fields(u))
        PROVE  Covered(f) \/ \E i \in 1 .. Len(below) : f \in ToSet(below[i].rest)
    BY <2>2
  <2> QED BY <1>1, <2>1, <2>2, <2>3 DEF FieldsInv, Registered, Covered, Name, Fields
<1>3. CASE reg[Name(t)] = NoType
  <2>1. /\ reg' = [reg EXCEPT ![Name(t)] = t]
        /\ stack' = Append(below, [type |-> t, rest |-> Fields(t)])
    BY <1>3 DEF Collect
  <2>2. stack' \in Seq(Frames) /\ reg' \in [Names -> Types \cup {NoType}]
    BY <1>1, <2>1 DEF Frames
  <2>3. Covered(t)' /\ \A u \in Types : Covered(u) => Covered(u)'
    BY <1>1, <2>1, NoTypeAssumption DEF Covered, Name
  <2>4. \A i \in 1 .. Len(below) : i \in 1 .. Len(stack') /\ stack'[i] = below[i]
    BY <2>1
  <2>5. Len(stack') \in 1 .. Len(stack') /\ stack'[Len(stack')].rest = Fields(t)
    BY <2>1
  <2>6. \A u \in Registered' : u = t \/ u \in Registered
    BY <1>1, <2>1 DEF Registered
  <2>7. ASSUME NEW u \in Registered', NEW f \in ToSet(Fields(u))
        PROVE  Covered(f)' \/ \E i \in 1 .. Len(stack') : f \in ToSet(stack'[i].rest)
    <3>1. CASE u = t
      BY <2>5, <3>1
    <3>2. CASE u \in Registered
      <4>1. f \in Types
        BY <3>2, ProgramTypes DEF Registered, ToSet
      <4>2. Covered(f) => Covered(f)'
        BY <4>1, <2>3
      <4>3. f = t => Covered(f)'
        BY <2>3
      <4> QED BY <3>2, <2>4, <4>2, <4>3
    <3> QED BY <2>6, <3>1, <3>2
  <2>8. FieldsInv'
    BY <2>7 DEF FieldsInv, Fields
  <2> QED BY <2>2, <2>3, <2>8
<1> QED BY <1>2, <1>3

(* Before the first variant nothing is defined and nothing promised.       *)
LEMMA InitInv == Init => IInv
<1> SUFFICES ASSUME Init PROVE IInv
  OBVIOUS
<1>1. program \in Programs /\ at = 0 /\ todo = <<>> /\ stack = <<>>
      /\ reg = [n \in Names |-> NoType]
  BY DEF Init
<1>2. TypeOK
  BY <1>1, ProgramAssumption DEF TypeOK
<1>3. Registered = {}
  BY <1>1, NoTypeAssumption DEF Registered
<1> QED BY <1>1, <1>2, <1>3 DEF IInv, RootsInv, FieldsInv

(* Going on to the next variant adds its statements to what is to do.      *)
LEMMA NextVariantStep ==
  ASSUME IInv, NextVariant
  PROVE  IInv'
<1>1. /\ at \in Nat /\ at' = at + 1 /\ at' \in 1 .. Len(program.variants)
      /\ program.variants[at'] \in Variants
  BY ProgramTypes DEF IInv, TypeOK, NextVariant
<1>2. todo' = CollectStmts(program.variants[at']) /\ todo = <<>> /\ stack = <<>>
      /\ UNCHANGED <<program, stack, reg>>
  BY DEF NextVariant
<1>3. todo' \in Seq(Types)
  BY <1>1, <1>2, StmtsCoverRefs
<1>4. TypeOK'
  BY <1>1, <1>2, <1>3 DEF IInv, TypeOK
<1>5. RootsInv'
  <2>1. ASSUME NEW i \in 1 .. at', NEW t \in ToSet(CollectStmts(program.variants[i]))
        PROVE  Covered(t) \/ (i = at' /\ t \in ToSet(todo'))
    <3>1. CASE i = at'
      BY <1>2, <3>1
    <3>2. CASE i # at'
      <4>1. i \in 1 .. at
        BY <1>1, <3>2
      <4>2. ToSet(todo) = {}
        BY <1>2 DEF ToSet
      <4> QED BY <4>1, <4>2 DEF IInv, RootsInv
    <3> QED BY <3>1, <3>2
  <2> QED BY <1>2, <2>1 DEF RootsInv, Covered, Name, CollectStmts
<1>6. FieldsInv'
  BY <1>2 DEF IInv, FieldsInv, Registered, Covered, Name, Fields
<1> QED BY <1>4, <1>5, <1>6 DEF IInv

(* A statement of the variant defines the type it names.                   *)
LEMMA CollectNextStep ==
  ASSUME IInv, CollectNext
  PROVE  IInv'
<1>0. todo \in Seq(Types) /\ todo # <<>>
  BY DEF CollectNext, IInv, TypeOK
<1>t. PICK t \in Types : t = Head(todo)
  BY <1>0, ToSetHead
<1>1. /\ todo \in Seq(Types) /\ todo # <<>> /\ todo' = Tail(todo)
      /\ stack = <<>> /\ stack \in Seq(Frames)
      /\ UNCHANGED <<program, at>> /\ Collect(t, stack)
  BY <1>t DEF CollectNext, IInv, TypeOK, Frames
<1>2. /\ Tail(todo) \in Seq(Types)
      /\ \A x \in ToSet(todo) : x = t \/ x \in ToSet(Tail(todo))
  BY <1>t, <1>1, ToSetHead
<1>3. \A u \in Registered : \A f \in ToSet(Fields(u)) :
        Covered(f) \/ f = t \/ \E i \in 1 .. Len(stack) : f \in ToSet(stack[i].rest)
  BY DEF IInv, FieldsInv
<1>4. /\ stack' \in Seq(Frames)
      /\ reg' \in [Names -> Types \cup {NoType}]
      /\ Covered(t)' /\ \A u \in Types : Covered(u) => Covered(u)'
      /\ FieldsInv'
  BY <1>1, <1>2, <1>3, CollectStep DEF IInv
<1>5. TypeOK'
  BY <1>1, <1>2, <1>4 DEF IInv, TypeOK, Frames
<1>6. RootsInv'
  <2>1. ASSUME NEW i \in 1 .. at, NEW x \in ToSet(CollectStmts(program.variants[i]))
        PROVE  Covered(x)' \/ (i = at /\ x \in ToSet(todo'))
    <3>1. i \in 1 .. Len(program.variants)
      BY DEF IInv, TypeOK
    <3>2. program.variants[i] \in Variants
      BY <3>1, ProgramTypes DEF IInv
    <3>3. x \in Types
      BY <3>2, StmtsCoverRefs DEF ToSet
    <3>4. CASE Covered(x)
      BY <1>4, <3>3, <3>4
    <3>5. CASE i = at /\ x \in ToSet(todo)
      <4>1. x = t \/ x \in ToSet(Tail(todo))
        BY <1>2, <3>5
      <4> QED BY <1>1, <1>4, <3>5, <4>1
    <3> QED BY <3>4, <3>5 DEF IInv, RootsInv
  <2> QED BY <1>1, <2>1 DEF RootsInv, CollectStmts
<1> QED BY <1>4, <1>5, <1>6 DEF IInv

(* A field of a type in progress is defined as its rest is shortened.      *)
LEMMA CollectFieldStep ==
  ASSUME IInv, CollectField
  PROVE  IInv'
<1> DEFINE n == Len(stack)
<1>0. /\ stack \in Seq(Frames) /\ stack # <<>> /\ n \in Nat /\ n \in 1 .. n
      /\ Top = stack[n]
  BY DEF CollectField, IInv, TypeOK, Frames, Top
<1>r. /\ Top \in Frames /\ Top.rest # <<>> /\ Top.rest \in Seq(Types)
  <2>1. Top \in Frames
    BY <1>0
  <2>2. Top.rest # <<>>
    BY DEF CollectField
  <2> QED BY <2>1, <2>2 DEF Frames
<1>t. PICK t \in Types : t = Head(Top.rest)
  BY <1>r, ToSetHead
<1>2. /\ Tail(Top.rest) \in Seq(Types)
      /\ \A x \in ToSet(Top.rest) : x = t \/ x \in ToSet(Tail(Top.rest))
  BY <1>r, <1>t, ToSetHead
<1>f. PICK frame \in Frames :
        frame = [Top EXCEPT !.rest = Tail(@)] /\ frame.rest = Tail(Top.rest)
  <2>1. [Top EXCEPT !.rest = Tail(@)] = [type |-> Top.type, rest |-> Tail(Top.rest)]
    BY <1>r DEF Frames
  <2>2. [type |-> Top.type, rest |-> Tail(Top.rest)] \in Frames
    BY <1>r, <1>2 DEF Frames
  <2> QED BY <2>1, <2>2
<1>b. Below \in Seq(Frames) /\ Len(Below) = n - 1
      /\ \A i \in 1 .. n - 1 : Below[i] = stack[i]
  BY <1>0, FrontProperties DEF Below
<1>3. PICK below \in Seq(Frames) :
        /\ below = Append(Below, frame)
        /\ Len(below) = n /\ below[n] = frame
        /\ \A i \in 1 .. n - 1 : below[i] = stack[i]
  <2>1. Append(Below, frame) \in Seq(Frames) /\ Len(Append(Below, frame)) = n
    BY <1>0, <1>b
  <2>2. Append(Below, frame)[n] = frame
    BY <1>0, <1>b
  <2>3. \A i \in 1 .. n - 1 : Append(Below, frame)[i] = Below[i]
    BY <1>0, <1>b
  <2> QED BY <1>b, <2>1, <2>2, <2>3
<1>1. UNCHANGED <<program, at, todo>> /\ Collect(t, below)
  BY <1>t, <1>f, <1>3 DEF CollectField
<1>4. ASSUME NEW u \in Registered, NEW f \in ToSet(Fields(u))
      PROVE  Covered(f) \/ f = t \/ \E i \in 1 .. Len(below) : f \in ToSet(below[i].rest)
  <2>1. CASE Covered(f)
    BY <2>1
  <2>2. ASSUME NEW i \in 1 .. n, f \in ToSet(stack[i].rest)
        PROVE  f = t \/ \E j \in 1 .. n : f \in ToSet(below[j].rest)
    <3>1. CASE i = n
      <4>1. f = t \/ f \in ToSet(Tail(Top.rest))
        BY <1>0, <1>2, <2>2, <3>1
      <4>2. f = t \/ f \in ToSet(below[n].rest)
        BY <1>3, <1>f, <4>1
      <4> QED BY <1>0, <4>2
    <3>2. CASE i # n
      <4>1. i \in 1 .. n - 1
        BY <1>0, <3>2
      <4>2. f \in ToSet(below[i].rest)
        BY <1>3, <2>2, <4>1
      <4> QED BY <4>2
    <3> QED BY <3>1, <3>2
  <2> QED BY <1>3, <2>1, <2>2 DEF IInv, FieldsInv
<1>5. /\ stack' \in Seq(Frames)
      /\ reg' \in [Names -> Types \cup {NoType}]
      /\ \A u \in Types : Covered(u) => Covered(u)'
      /\ FieldsInv'
  BY <1>1, <1>4, CollectStep DEF IInv
<1>6. TypeOK'
  BY <1>1, <1>5 DEF IInv, TypeOK, Frames
<1>7. RootsInv'
  <2>1. ASSUME NEW i \in 1 .. at, NEW x \in ToSet(CollectStmts(program.variants[i]))
        PROVE  Covered(x)' \/ (i = at /\ x \in ToSet(todo))
    <3>1. i \in 1 .. Len(program.variants)
      BY DEF IInv, TypeOK
    <3>2. program.variants[i] \in Variants
      BY <3>1, ProgramTypes DEF IInv
    <3>3. x \in Types
      BY <3>2, StmtsCoverRefs DEF ToSet
    <3> QED BY <1>5, <3>3 DEF IInv, RootsInv
  <2> QED BY <1>1, <2>1 DEF RootsInv, CollectStmts
<1> QED BY <1>5, <1>6, <1>7 DEF IInv

(* A call whose fields are all collected leaves nothing open.              *)
LEMMA LeaveStep ==
  ASSUME IInv, Leave
  PROVE  IInv'
<1> DEFINE n == Len(stack)
<1>1. /\ stack \in Seq(Frames) /\ stack # <<>> /\ n \in Nat /\ n > 0
      /\ stack[n].rest = <<>> /\ stack' = SubSeq(stack, 1, n - 1)
      /\ UNCHANGED <<program, at, todo, reg>>
  BY DEF Leave, IInv, TypeOK, Frames, Top, Below
<1>2. /\ stack' \in Seq(Frames) /\ Len(stack') = n - 1
      /\ \A i \in 1 .. n - 1 : stack'[i] = stack[i]
  BY <1>1, FrontProperties
<1>3. \A f : f \notin ToSet(stack[n].rest)
  BY <1>1 DEF ToSet
<1>4. TypeOK'
  BY <1>1, <1>2 DEF IInv, TypeOK, Frames
<1>5. RootsInv'
  BY <1>1 DEF IInv, RootsInv, Covered, Name, CollectStmts
<1>6. FieldsInv'
  <2>1. ASSUME NEW u \in Registered, NEW f \in ToSet(Fields(u))
        PROVE  Covered(f) \/ \E i \in 1 .. n - 1 : f \in ToSet(stack'[i].rest)
    <3>1. ASSUME NEW i \in 1 .. n, f \in ToSet(stack[i].rest)
          PROVE  i \in 1 .. n - 1 /\ f \in ToSet(stack'[i].rest)
      BY <1>1, <1>2, <1>3, <3>1
    <3> QED BY <3>1 DEF IInv, FieldsInv
  <2> QED BY <1>1, <1>2, <2>1 DEF FieldsInv, Registered, Covered, Name, Fields
<1> QED BY <1>4, <1>5, <1>6 DEF IInv

(* The inductive invariant: what is not yet defined is still to be done,   *)
(* by a statement of the current variant or by a call in progress.         *)
THEOREM Invariance == Spec => []IInv
<1>1. IInv /\ [Next]_vars => IInv'
  <2> SUFFICES ASSUME IInv, [Next]_vars PROVE IInv'
    OBVIOUS
  <2>1. CASE UNCHANGED vars
    BY <2>1 DEF vars, IInv, TypeOK, RootsInv, FieldsInv, Registered, Covered,
                Name, Fields, CollectStmts
  <2> QED BY <2>1, NextVariantStep, CollectNextStep, CollectFieldStep, LeaveStep DEF Next
<1> QED BY InitInv, <1>1, PTL DEF Spec

(* The registry maps names to types and the calls are calls for types,     *)
(* throughout (TypeOK).                                                    *)
THEOREM TypeCorrect == Spec => []TypeOK
BY Invariance, PTL DEF IInv

(* No exported document has a dangling reference, whatever types, names    *)
(* and variants a program has: when nothing is left to do, nothing that    *)
(* was referred to is undefined.                                           *)
THEOREM NoDangling == Spec => []NoDanglingRef
<1>1. IInv => NoDanglingRef
  <2> SUFFICES ASSUME IInv, Exported, NEW x \in Refs PROVE Covered(x)
    BY DEF NoDanglingRef, Covered
  <2>0. stack = <<>> /\ todo = <<>> /\ at = Len(program.variants)
    BY DEF Exported
  <2>1. ASSUME NEW i \in 1 .. Len(program.variants), x \in MethodRefs(program.variants[i])
        PROVE  Covered(x)
    <3>1. program.variants[i] \in Variants
      BY ProgramTypes DEF IInv
    <3>2. x \in ToSet(CollectStmts(program.variants[i]))
      BY <2>1, <3>1, StmtsCoverRefs
    <3>3. ToSet(todo) = {}
      BY <2>0 DEF ToSet
    <3> QED BY <2>0, <3>2, <3>3 DEF IInv, RootsInv
  <2>2. ASSUME NEW u \in Registered, x \in ToSet(Fields(u))
        PROVE  Covered(x)
    BY <2>0, <2>2 DEF IInv, FieldsInv
  <2>3. \/ \E i \in 1 .. Len(program.variants) : x \in MethodRefs(program.variants[i])
        \/ \E u \in Registered : x \in ToSet(Fields(u))
    <3>1. \/ x \in UNION {MethodRefs(program.variants[i]) : i \in 1 .. Len(program.variants)}
          \/ x \in UNION {ToSet(Fields(u)) : u \in Registered}
      BY DEF Refs
    <3> QED BY <3>1
  <2> QED BY <2>1, <2>2, <2>3
<1> QED BY Invariance, <1>1, PTL
----------------------------------------------------------------------------
(* The calls in progress, and what is registered under which name. *)

(* A type is registered under its own name.                                *)
RegInv == \A n \in Names : reg[n] # NoType => Name(reg[n]) = n

DInv == TypeOK /\ DistinctCalls /\ RegInv

(* The calls so far are for distinct names that are taken.                 *)
Distinct(calls) ==
  /\ \A i \in 1 .. Len(calls) : Covered(calls[i].type)
  /\ \A i, j \in 1 .. Len(calls) : Name(calls[i].type) = Name(calls[j].type) => i = j

LEMMA FrameTypes ==
  ASSUME NEW calls \in Seq(Frames), NEW i \in 1 .. Len(calls)
  PROVE  calls[i].type \in Types
<1>1. calls[i] \in Frames
  OBVIOUS
<1> QED BY <1>1 DEF Frames

(* A call of collect goes deeper only for a name that no call, nor         *)
(* anything before, had: a cycle of types ends it.                         *)
LEMMA CollectCalls ==
  ASSUME TypeOK, RegInv, program' = program,
         NEW t \in Types, NEW below \in Seq(Frames), Collect(t, below), Distinct(below)
  PROVE  DistinctCalls' /\ RegInv'
<1>1. Name(t) \in Names /\ t # NoType /\ reg \in [Names -> Types \cup {NoType}]
  BY ProgramTypes, NoTypeAssumption DEF TypeOK
<1>2. \A u : Name(u)' = Name(u)
  BY DEF Name
<1>3. CASE reg[Name(t)] # NoType
  <2>1. stack' = below /\ reg' = reg
    BY <1>3 DEF Collect
  <2> QED BY <1>2, <2>1 DEF Distinct, Covered, DistinctCalls, RegInv
<1>4. CASE reg[Name(t)] = NoType
  <2>1. /\ reg' = [reg EXCEPT ![Name(t)] = t]
        /\ stack' = Append(below, [type |-> t, rest |-> Fields(t)])
    BY <1>4 DEF Collect
  <2>2. PICK n \in Nat : n = Len(below)
    OBVIOUS
  <2>3. /\ Len(stack') = n + 1 /\ stack'[n + 1].type = t
        /\ \A i \in 1 .. n : stack'[i] = below[i]
    BY <2>1, <2>2
  <2>4. ASSUME NEW i \in 1 .. n
        PROVE  /\ reg'[Name(below[i].type)] # NoType
               /\ Name(below[i].type) # Name(t)
    <3>1. reg[Name(below[i].type)] # NoType
      BY <2>2 DEF Distinct, Covered
    <3>2. Name(below[i].type) \in Names
      BY <2>2, FrameTypes, ProgramTypes
    <3> QED BY <1>1, <1>4, <2>1, <3>1, <3>2
  <2>5. reg'[Name(t)] = t
    BY <1>1, <2>1
  <2>6. ASSUME NEW i \in 1 .. n + 1  PROVE reg'[Name(stack'[i].type)] # NoType
    <3>1. CASE i = n + 1
      BY <1>1, <2>3, <2>5, <3>1
    <3>2. CASE i \in 1 .. n
      BY <2>3, <2>4, <3>2
    <3> QED BY <2>2, <3>1, <3>2
  <2>7. ASSUME NEW i \in 1 .. n + 1, NEW j \in 1 .. n + 1,
               Name(stack'[i].type) = Name(stack'[j].type)
        PROVE  i = j
    <3>1. CASE i \in 1 .. n /\ j \in 1 .. n
      BY <2>2, <2>3, <2>7, <3>1 DEF Distinct
    <3>2. CASE i = n + 1 /\ j \in 1 .. n
      BY <2>3, <2>4, <2>7, <3>2
    <3>3. CASE j = n + 1 /\ i \in 1 .. n
      BY <2>3, <2>4, <2>7, <3>3
    <3> QED BY <2>2, <3>1, <3>2, <3>3
  <2>8. DistinctCalls'
    BY <1>2, <2>3, <2>6, <2>7 DEF DistinctCalls
  <2>9. ASSUME NEW m \in Names, reg'[m] # NoType  PROVE Name(reg'[m]) = m
    BY <1>1, <2>1, <2>9 DEF RegInv
  <2> QED BY <1>2, <2>8, <2>9 DEF RegInv
<1> QED BY <1>3, <1>4

(* The calls below the one that takes its next field are as they were.     *)
LEMMA FieldCalls ==
  ASSUME DInv, TypeOK', CollectField
  PROVE  DInv'
<1> DEFINE n == Len(stack)
<1>1. /\ stack \in Seq(Frames) /\ stack # <<>> /\ n \in Nat /\ n \in 1 .. n
      /\ Top = stack[n]
  BY DEF CollectField, DInv, TypeOK, Frames, Top
<1>2. Top \in Frames /\ Top.rest # <<>> /\ Top.rest \in Seq(Types)
  <2>1. Top \in Frames /\ Top.rest # <<>>
    BY <1>1 DEF CollectField
  <2> QED BY <2>1 DEF Frames
<1>3. PICK t \in Types : t = Head(Top.rest)
  BY <1>2, ToSetHead
<1>4. PICK frame \in Frames : frame = [Top EXCEPT !.rest = Tail(@)] /\ frame.type = Top.type
  <2>1. Tail(Top.rest) \in Seq(Types)
    BY <1>2, ToSetHead
  <2>2. [Top EXCEPT !.rest = Tail(@)] = [type |-> Top.type, rest |-> Tail(Top.rest)]
    BY <1>2 DEF Frames
  <2>3. [type |-> Top.type, rest |-> Tail(Top.rest)] \in Frames
    BY <1>2, <2>1 DEF Frames
  <2> QED BY <2>2, <2>3
<1>5. Below \in Seq(Frames) /\ Len(Below) = n - 1 /\ \A i \in 1 .. n - 1 : Below[i] = stack[i]
  BY <1>1, FrontProperties DEF Below
<1>6. PICK below \in Seq(Frames) :
        /\ below = Append(Below, frame) /\ Len(below) = n /\ below[n] = frame
        /\ \A i \in 1 .. n - 1 : below[i] = stack[i]
  <2>1. Append(Below, frame) \in Seq(Frames) /\ Len(Append(Below, frame)) = n
    BY <1>1, <1>5
  <2>2. Append(Below, frame)[n] = frame
    BY <1>1, <1>5
  <2>3. \A i \in 1 .. n - 1 : Append(Below, frame)[i] = Below[i]
    BY <1>1, <1>5
  <2> QED BY <1>5, <2>1, <2>2, <2>3
<1>7. UNCHANGED program /\ Collect(t, below)
  BY <1>3, <1>4, <1>6 DEF CollectField
<1>8. ASSUME NEW i \in 1 .. n  PROVE below[i].type = stack[i].type
  BY <1>1, <1>4, <1>6
<1>9. Distinct(below)
  BY <1>6, <1>8 DEF DInv, DistinctCalls, Distinct, Covered
<1>10. DistinctCalls' /\ RegInv'
  BY <1>7, <1>9, CollectCalls DEF DInv
<1> QED BY <1>10 DEF DInv

(* A call that ends leaves those below it.                                 *)
LEMMA LeaveCalls ==
  ASSUME DInv, TypeOK', Leave
  PROVE  DInv'
<1> DEFINE n == Len(stack)
<1>1. /\ stack \in Seq(Frames) /\ stack # <<>> /\ n \in Nat
      /\ stack' = SubSeq(stack, 1, n - 1) /\ UNCHANGED <<program, reg>>
  BY DEF Leave, DInv, TypeOK, Frames, Below
<1>2. Len(stack') = n - 1 /\ \A i \in 1 .. n - 1 : stack'[i] = stack[i] /\ i \in 1 .. n
  BY <1>1, FrontProperties
<1>3. DistinctCalls'
  <2>1. \A u : Name(u)' = Name(u)
    BY <1>1 DEF Name
  <2>2. ASSUME NEW i \in 1 .. n - 1  PROVE reg'[Name(stack'[i].type)] # NoType
    BY <1>1, <1>2 DEF DInv, DistinctCalls
  <2>3. ASSUME NEW i \in 1 .. n - 1, NEW j \in 1 .. n - 1,
               Name(stack'[i].type) = Name(stack'[j].type)
        PROVE  i = j
    BY <1>2, <2>3 DEF DInv, DistinctCalls
  <2> QED BY <1>2, <2>1, <2>2, <2>3 DEF DistinctCalls
<1>4. RegInv'
  BY <1>1 DEF DInv, RegInv, Name
<1> QED BY <1>3, <1>4 DEF DInv

(* Every call in progress is for a name of its own, and every type is      *)
(* registered under its own name (the derived collect).                    *)
THEOREM CallsInvariance == Spec => []DInv
<1>1. Init => DInv
  <2> SUFFICES ASSUME Init PROVE DInv
    OBVIOUS
  <2>1. TypeOK /\ stack = <<>> /\ reg = [n \in Names |-> NoType]
    BY InitInv DEF Init, IInv
  <2> QED BY <2>1 DEF DInv, DistinctCalls, RegInv
<1>2. DInv /\ TypeOK' /\ [Next]_vars => DInv'
  <2> SUFFICES ASSUME DInv, TypeOK', [Next]_vars PROVE DInv'
    OBVIOUS
  <2>1. CASE NextVariant
    <3>1. UNCHANGED <<program, stack, reg>>
      BY <2>1 DEF NextVariant
    <3> QED BY <3>1 DEF DInv, DistinctCalls, RegInv, Name
  <2>2. CASE CollectNext
    <3>1. todo \in Seq(Types) /\ todo # <<>> /\ stack = <<>> /\ stack \in Seq(Frames)
      BY <2>2 DEF CollectNext, DInv, TypeOK, Frames
    <3>2. PICK t \in Types : t = Head(todo)
      BY <3>1, ToSetHead
    <3>3. UNCHANGED program /\ Collect(t, stack)
      BY <2>2, <3>2 DEF CollectNext
    <3>4. Distinct(stack)
      BY <3>1 DEF Distinct
    <3>5. DistinctCalls' /\ RegInv'
      BY <3>1, <3>3, <3>4, CollectCalls DEF DInv
    <3> QED BY <3>5 DEF DInv
  <2>3. CASE UNCHANGED vars
    BY <2>3 DEF vars, DInv, DistinctCalls, RegInv, Name
  <2> QED BY <2>1, <2>2, <2>3, FieldCalls, LeaveCalls DEF Next
<1> QED BY <1>1, <1>2, TypeCorrect, PTL DEF Spec

(* However types refer to each other, the recursion of collect is never    *)
(* in two calls for the same name at once.                                 *)
THEOREM CallsDistinct == Spec => []DistinctCalls
BY CallsInvariance, PTL DEF DInv

(* Where no two types share a name, every reference of an exported         *)
(* document is resolved to the schema of the type it was written for.      *)
THEOREM UniqueNames == Spec => []UniqueNamesSuffice
<1>1. DInv /\ NoDanglingRef => UniqueNamesSuffice
  <2> SUFFICES ASSUME DInv, NoDanglingRef, NamesUnique, Exported, NEW t \in Refs
               PROVE  reg[Name(t)] = t
    BY DEF UniqueNamesSuffice, RefsMeanTheirType
  <2>1. reg[Name(t)] # NoType
    BY DEF NoDanglingRef
  <2>2. t \in Types
    <3>1. ASSUME NEW i \in 1 .. Len(program.variants), t \in MethodRefs(program.variants[i])
          PROVE  t \in Types
      <4>1. program.variants[i] \in Variants
        BY ProgramTypes DEF DInv
      <4>2. CollectStmts(program.variants[i]) \in Seq(Types)
            /\ t \in ToSet(CollectStmts(program.variants[i]))
        BY <3>1, <4>1, StmtsCoverRefs
      <4> QED BY <4>2 DEF ToSet
    <3>2. ASSUME NEW u \in Registered, t \in ToSet(Fields(u))  PROVE t \in Types
      <4>1. Fields(u) \in Seq(Types)
        BY ProgramTypes DEF DInv, Registered
      <4> QED BY <3>2, <4>1 DEF ToSet
    <3> QED BY <3>1, <3>2 DEF Refs
  <2>3. Name(t) \in Names /\ reg[Name(t)] \in Types
    BY <2>1, <2>2, ProgramTypes DEF DInv, TypeOK
  <2>4. Name(reg[Name(t)]) = Name(t)
    BY <2>1, <2>3 DEF DInv, RegInv
  <2> QED BY <2>2, <2>3, <2>4 DEF NamesUnique
<1> QED BY <1>1, CallsInvariance, NoDangling, PTL

----------------------------------------------------------------------------
(* The runs of the extractor *)

Labels ==
  {"idle", "meta", "parse", "attach", "mkdir", "open1", "fill1", "open2", "fill2", "done"}

(* What a run has done to the files so far, and what earlier runs left.    *)
JsonWritten == files["json"] = Whole(runs, Text("json", abi))
TsWritten   == files["ts"]   = Whole(runs, Text("ts", abi))

FilesType ==
  /\ pc \in Labels /\ runs \in Nat /\ DOMAIN files = {"json", "ts"}
  /\ \A f \in {"json", "ts"} : files[f].run \in Nat /\ files[f].run <= runs

FilesInv ==
  /\ FilesType
  /\ pc = "fill1" => files["json"].state = "torn"
  /\ pc \in {"open2", "fill2", "done"} => JsonWritten
  /\ pc = "fill2" => files["ts"].state = "torn"
  /\ pc = "done" => TsWritten
  /\ TsNotAhead

LEMMA FileParts ==
  ASSUME NEW r, NEW t
  PROVE  /\ Torn(r).state = "torn" /\ Torn(r).run = r
         /\ Whole(r, t).state = "whole" /\ Whole(r, t).run = r /\ Whole(r, t).text = t
         /\ Absent.state = "absent" /\ Absent.run = 0
BY DEF Torn, Whole, Absent

LEMMA OrderLaws == Order[1] = "json" /\ Order[2] = "ts"
BY DEF Order

LEMMA FilesStart == ExtractInit => FilesInv
BY FileParts DEF ExtractInit, FilesInv, FilesType, Labels, TsNotAhead

(* A step that leaves the files as they are, and writes none.              *)
LEMMA FilesUntouched ==
  ASSUME FilesInv, UNCHANGED files, runs' \in Nat, runs <= runs',
         pc' \in {"idle", "meta", "parse", "attach", "mkdir", "open1"}
  PROVE  FilesInv'
<1>1. FilesType'
  BY DEF FilesInv, FilesType, Labels
<1>2. TsNotAhead'
  BY DEF FilesInv, TsNotAhead
<1> QED BY <1>1, <1>2 DEF FilesInv

LEMMA OpenKeeps == ASSUME FilesInv, NEW n \in 1 .. 2, Open(n)  PROVE FilesInv'
<1>1. PICK f : f = Order[n]
  OBVIOUS
<1>2. /\ files' = [files EXCEPT ![f] = Torn(runs)] /\ runs' = runs /\ abi' = abi
      /\ f \in {"json", "ts"} /\ DOMAIN files = {"json", "ts"}
  BY <1>1, OrderLaws DEF Open, FilesInv, FilesType
<1>3. /\ files'[f] = Torn(runs) /\ DOMAIN files' = {"json", "ts"}
      /\ \A g \in {"json", "ts"} : g # f => files'[g] = files[g]
  BY <1>2
<1>4. /\ n = 1 => f = "json" /\ pc' = "fill1"
      /\ n = 2 => f = "ts" /\ pc = "open2" /\ pc' = "fill2"
  BY <1>1, OrderLaws DEF Open, Goto
<1>5. FilesType'
  BY <1>2, <1>3, <1>4, FileParts DEF FilesInv, FilesType, Labels
<1>6. files'[f].state = "torn"
  BY <1>3, FileParts
<1>7. TsNotAhead'
  BY <1>2, <1>6 DEF TsNotAhead
<1>8. n = 2 => JsonWritten'
  BY <1>2, <1>3, <1>4 DEF FilesInv, JsonWritten, Text
<1> QED BY <1>4, <1>5, <1>6, <1>7, <1>8 DEF FilesInv

LEMMA FillKeeps == ASSUME FilesInv, NEW n \in 1 .. 2, Fill(n)  PROVE FilesInv'
<1>1. PICK f : f = Order[n]
  OBVIOUS
<1>2. /\ files' = [files EXCEPT ![f] = Whole(runs, Text(f, abi))] /\ runs' = runs /\ abi' = abi
      /\ f \in {"json", "ts"} /\ DOMAIN files = {"json", "ts"} /\ runs \in Nat
  BY <1>1, OrderLaws DEF Fill, FilesInv, FilesType
<1>3. /\ files'[f] = Whole(runs, Text(f, abi)) /\ DOMAIN files' = {"json", "ts"}
      /\ \A g \in {"json", "ts"} : g # f => files'[g] = files[g]
  BY <1>2
<1>4. /\ n = 1 => f = "json" /\ pc' = "open2"
      /\ n = 2 => f = "ts" /\ pc = "fill2" /\ pc' = "done"
  BY <1>1, OrderLaws DEF Fill, Goto
<1>5. FilesType'
  BY <1>2, <1>3, <1>4, FileParts DEF FilesInv, FilesType, Labels
<1>6. JsonWritten' /\ (n = 2 => TsWritten')
  BY <1>2, <1>3, <1>4 DEF FilesInv, JsonWritten, TsWritten, Text
<1>7. TsNotAhead'
  <2>1. files'["json"].run = runs /\ files'["ts"].run <= runs
    BY <1>2, <1>5, <1>6, FileParts DEF FilesType, JsonWritten
  <2> QED BY <2>1 DEF TsNotAhead
<1> QED BY <1>4, <1>5, <1>6, <1>7 DEF FilesInv

LEMMA FilesKeep == FilesInv /\ [Extract]_runVars => FilesInv'
<1> SUFFICES ASSUME FilesInv, [Extract]_runVars  PROVE FilesInv'
  OBVIOUS
<1>1. runs \in Nat /\ runs + 1 \in Nat /\ runs <= runs /\ runs <= runs + 1
  BY DEF FilesInv, FilesType
<1>2. CASE Rebuild
  BY <1>1, <1>2, FilesUntouched DEF Rebuild
<1>3. CASE Start
  BY <1>1, <1>3, FilesUntouched DEF Start, Goto
<1>4. CASE CallMeta
  BY <1>1, <1>4, FilesUntouched DEF CallMeta, Goto
<1>5. CASE Parse
  BY <1>1, <1>5, FilesUntouched DEF Parse, Goto
<1>6. CASE Attach
  BY <1>1, <1>6, FilesUntouched DEF Attach, Goto
<1>7. CASE MakeDir
  BY <1>1, <1>7, FilesUntouched DEF MakeDir, Goto
<1>8. ASSUME NEW n \in 1 .. 2, Open(n) \/ Fill(n)  PROVE FilesInv'
  BY <1>8, OpenKeeps, FillKeeps
<1>9. CASE Quit
  BY <1>1, <1>9, FilesUntouched DEF Quit, Goto
<1>10. CASE UNCHANGED runVars
  BY <1>10 DEF runVars, FilesInv, FilesType, JsonWritten, TsWritten, Text, TsNotAhead
<1> QED BY <1>2, <1>3, <1>4, <1>5, <1>6, <1>7, <1>8, <1>9, <1>10 DEF Extract

(* After any number of runs, each of which may fail or be killed between   *)
(* or within its two writes: of two files that are whole, abi.ts is never  *)
(* the newer one (main).                                                   *)
THEOREM NotAhead == ExtractSpec => []TsNotAhead
<1>1. FilesInv => TsNotAhead
  BY DEF FilesInv
<1> QED BY <1>1, FilesStart, FilesKeep, PTL DEF ExtractSpec

----------------------------------------------------------------------------
(* What a run holds: the build, its text, its document.                    *)
Holds(Docs) ==
  /\ wasm \in Builds
  /\ pc = "meta" => abi \in Builds
  /\ pc = "parse" => \E b \in Builds : MetaText(b) # Missing /\ abi = MetaText(b)
  /\ pc \in Labels \ {"idle", "meta", "parse"} => abi \in Docs
  /\ pc \in {"fill1", "open2", "fill2", "done"} => JsonText(abi) # Missing

LEMMA InitHolds == ASSUME NEW Docs  PROVE ExtractInit => Holds(Docs)
BY DEF ExtractInit, Holds

LEMMA StepHolds ==
  ASSUME NEW Docs, RoundTrip(Docs)
  PROVE  Holds(Docs) /\ [Extract]_runVars => Holds(Docs)'
<1> SUFFICES ASSUME Holds(Docs), [Extract]_runVars  PROVE Holds(Docs)'
  OBVIOUS
<1>1. CASE Rebuild
  BY <1>1 DEF Rebuild, Holds, Labels
<1>2. CASE Start
  BY <1>2 DEF Start, Goto, Holds, Labels
<1>3. CASE CallMeta
  <2>1. abi \in Builds /\ MetaText(abi) # Missing /\ abi' = MetaText(abi) /\ pc' = "parse"
        /\ wasm' = wasm
    BY <1>3 DEF CallMeta, Goto, Holds
  <2> QED BY <2>1 DEF Holds, Labels
<1>4. CASE Parse
  <2>1. PICK b \in Builds : MetaText(b) # Missing /\ abi = MetaText(b)
    BY <1>4 DEF Parse, Holds
  <2>2. abi' = ReadDoc(MetaText(b)) /\ abi' # Missing /\ pc' \in {"attach", "mkdir"} /\ wasm' = wasm
    BY <1>4, <2>1 DEF Parse, Goto
  <2>3. abi' \in Docs
    BY <2>1, <2>2 DEF RoundTrip
  <2> QED BY <2>2, <2>3 DEF Holds, Labels
<1>5. CASE Attach
  <2>1. abi \in Docs
    BY <1>5 DEF Attach, Holds, Labels
  <2>2. PICK found \in [PendingIn(abi) -> Exprs \cup {Missing}] : abi' = Planned(abi, found)
    BY <1>5 DEF Attach
  <2>3. abi' \in Docs /\ pc' = "mkdir" /\ wasm' = wasm
    BY <1>5, <2>1, <2>2 DEF RoundTrip, Attach, Goto
  <2> QED BY <2>3 DEF Holds, Labels
<1>6. CASE MakeDir
  BY <1>6 DEF MakeDir, Goto, Holds, Labels
<1>7. ASSUME NEW n \in 1 .. 2, Open(n)  PROVE Holds(Docs)'
  BY <1>7 DEF Open, Goto, Holds, Labels
<1>8. ASSUME NEW n \in 1 .. 2, Fill(n)  PROVE Holds(Docs)'
  BY <1>8 DEF Fill, Goto, Holds, Labels
<1>9. CASE Quit
  BY <1>9 DEF Quit, Goto, Holds, Labels
<1>10. CASE UNCHANGED runVars
  BY <1>10 DEF runVars, Holds
<1> QED BY <1>1, <1>2, <1>3, <1>4, <1>5, <1>6, <1>7, <1>8, <1>9, <1>10 DEF Extract

(* When a run has written a file it is whole, whatever an earlier run left *)
(* there, and reads back as the document of this run: as soon as the       *)
(* documents in reach of the builds and of attached plans read back at all *)
(* (main, parse_abi_json).                                                 *)
THEOREM ReadBack ==
  ASSUME NEW Docs, RoundTrip(Docs)
  PROVE  ExtractSpec => []FilesReadBack
<1>1. FilesInv /\ Holds(Docs) => FilesReadBack
  <2> SUFFICES ASSUME FilesInv, Holds(Docs), NEW n \in 1 .. 2, pc = <<"open2", "done">>[n],
                      NEW i \in 1 .. n
               PROVE  /\ files[Order[i]].state = "whole" /\ files[Order[i]].run = runs
                      /\ ReadDoc(Json(Order[i])) = abi
    BY DEF FilesReadBack
  <2>1. pc \in {"open2", "done"} /\ (i = 2 => pc = "done") /\ i \in {1, 2}
    OBVIOUS
  <2>2. abi \in Docs /\ JsonText(abi) # Missing
    BY <2>1 DEF Holds, Labels
  <2>3. ReadDoc(JsonText(abi)) = abi /\ TsText(abi).is = JsonText(abi)
    BY <2>2 DEF RoundTrip
  <2>4. CASE i = 1
    <3>1. files["json"] = Whole(runs, JsonText(abi))
      BY <2>1 DEF FilesInv, JsonWritten, Text
    <3> QED BY <2>3, <2>4, <3>1, OrderLaws, FileParts DEF Json
  <2>5. CASE i = 2
    <3>1. files["ts"] = Whole(runs, TsText(abi))
      BY <2>1, <2>5 DEF FilesInv, TsWritten, Text
    <3> QED BY <2>3, <2>5, <3>1, OrderLaws, FileParts DEF Json
  <2> QED BY <2>1, <2>4, <2>5
<1>2. ExtractInit => Holds(Docs)
  BY InitHolds
<1>3. Holds(Docs) /\ [Extract]_runVars => Holds(Docs)'
  BY StepHolds
<1> QED BY <1>1, <1>2, <1>3, FilesStart, FilesKeep, PTL DEF ExtractSpec

----------------------------------------------------------------------------
(* Calls of a contract.  Least numbers, induction, and sequences that are  *)
(* built from their elements.                                              *)

LEMMA Smallest ==
  ASSUME NEW T \in SUBSET Nat, T # {}
  PROVE  \E x \in T : \A y \in T : x <= y
<1>1. PICK R : R = {ss \in Nat \X Nat : ss[1] < ss[2]}
  OBVIOUS
<1>2. IsWellFoundedOn(R, Nat)
  BY <1>1, NatLessThanWellFounded DEF OpToRel
<1>3. PICK x \in T : \A y \in T : ~(<<y, x>> \in R)
  BY <1>2, WFMin
<1>4. \A y \in T : ~(y < x)
  BY <1>1, <1>3
<1> QED BY <1>4

LEMMA Upward ==
  ASSUME NEW m \in Nat, NEW n \in Nat, NEW T, m \in T,
         \A i \in m .. n : m < i /\ i - 1 \in T => i \in T
  PROVE  \A i \in m .. n : i \in T
<1>1. SUFFICES ASSUME NEW i \in m .. n, i \notin T  PROVE FALSE
  OBVIOUS
<1>2. PICK Gaps : Gaps = {j \in m .. n : j \notin T}
  OBVIOUS
<1>3. Gaps \in SUBSET Nat /\ Gaps # {}
  BY <1>1, <1>2
<1>4. PICK x \in Gaps : \A y \in Gaps : x <= y
  BY <1>3, Smallest
<1>5. x \in m .. n /\ m < x /\ x \notin T
  BY <1>2, <1>4
<1>6. x - 1 \in m .. n /\ ~(x <= x - 1)
  BY <1>5
<1>7. x - 1 \in T
  BY <1>2, <1>4, <1>6
<1> QED BY <1>5, <1>7

LEMMA MinIsMember ==
  ASSUME NEW T \in SUBSET Nat, T # {}
  PROVE  Min(T) \in T
<1>1. \E x \in T : \A y \in T : x <= y
  BY Smallest
<1> QED BY <1>1 DEF Min

(* A sequence of k values, of any kind.                                    *)
IsTuple(v, k) == v = [i \in 1 .. k |-> v[i]]

LEMMA TupleSeq ==
  ASSUME NEW k \in Nat, NEW v, IsTuple(v, k)
  PROVE  v \in Seq({v[i] : i \in 1 .. k}) /\ Len(v) = k /\ DOMAIN v = 1 .. k
<1>1. PICK V : V = {v[i] : i \in 1 .. k}
  OBVIOUS
<1>2. v \in [1 .. k -> V]
  BY <1>1 DEF IsTuple
<1> QED BY <1>1, <1>2

Longer(v, k, x, w) == IsTuple(w, k + 1) /\ w[k + 1] = x /\ \A i \in 1 .. k : w[i] = v[i]

LEMMA TupleAppend ==
  ASSUME NEW k \in Nat, NEW v, IsTuple(v, k), NEW x, NEW w, w = Append(v, x)
  PROVE  Longer(v, k, x, w)
<1>1. PICK V : V = {v[i] : i \in 1 .. k} \cup {x}
  OBVIOUS
<1>2. v \in [1 .. k -> V] /\ x \in V
  BY <1>1 DEF IsTuple
<1>3. v \in Seq(V) /\ Len(v) = k
  BY <1>2
<1>4. w \in Seq(V) /\ Len(w) = k + 1
  BY <1>2, <1>3
<1>5. w \in [1 .. k + 1 -> V]
  BY <1>4, LenProperties
<1> QED BY <1>2, <1>3, <1>4, <1>5 DEF IsTuple, Longer

(* The concatenation of a sequence of sequences, part by part.             *)
Flattens(f, n, seqs) == f = [i \in 1 .. n |-> IF i = 1 THEN seqs[i] ELSE f[i - 1] \o seqs[i]]

LEMMA FlattenExists ==
  ASSUME NEW n \in Nat, n > 0, NEW seqs
  PROVE  \E f : Flattens(f, n, seqs)
<1>1. PICK T : T = {m \in 1 .. n : \E f : Flattens(f, m, seqs)}
  OBVIOUS
<1>2. 1 \in T
  <2>1. PICK f : f = [i \in 1 .. 1 |-> seqs[1]]
    OBVIOUS
  <2>2. Flattens(f, 1, seqs)
    BY <2>1 DEF Flattens
  <2> QED BY <1>1, <2>2
<1>3. ASSUME NEW m \in 1 .. n, 1 < m, m - 1 \in T  PROVE m \in T
  <2>1. PICK f : Flattens(f, m - 1, seqs)
    BY <1>1, <1>3
  <2>2. PICK g : g = [i \in 1 .. m |-> IF i < m THEN f[i] ELSE f[m - 1] \o seqs[m]]
    OBVIOUS
  <2>3. ASSUME NEW i \in 1 .. m  PROVE g[i] = IF i = 1 THEN seqs[i] ELSE g[i - 1] \o seqs[i]
    <3>1. CASE i < m
      <4>1. i \in 1 .. m - 1 /\ (i # 1 => i - 1 \in 1 .. m /\ i - 1 < m)
        BY <3>1
      <4>2. f[i] = IF i = 1 THEN seqs[i] ELSE f[i - 1] \o seqs[i]
        BY <2>1, <4>1 DEF Flattens
      <4> QED BY <2>2, <3>1, <4>1, <4>2
    <3>2. CASE i = m
      <4>1. m - 1 \in 1 .. m /\ m - 1 < m /\ i # 1 /\ ~(m < m)
        BY <1>3, <3>2
      <4> QED BY <2>2, <3>2, <4>1
    <3> QED BY <3>1, <3>2
  <2>4. Flattens(g, m, seqs)
    BY <2>2, <2>3 DEF Flattens
  <2> QED BY <1>1, <2>4
<1>4. n \in T
  BY <1>2, <1>3, Upward
<1> QED BY <1>1, <1>4

LEMMA FlattenParts ==
  ASSUME NEW n \in Nat, n > 0, NEW S, NEW seqs \in [1 .. n -> Seq(S)]
  PROVE  \E f \in [1 .. n -> Seq(S)] : Flattens(f, n, seqs) /\ FlattenSeq(seqs) = f[n]
<1>1. Len(seqs) = n
  OBVIOUS
<1>2. PICK f : f = CHOOSE g : Flattens(g, n, seqs)
  OBVIOUS
<1>3. Flattens(f, n, seqs)
  BY <1>2, FlattenExists
<1>4. FlattenSeq(seqs) = f[n]
  BY <1>1, <1>2 DEF FlattenSeq, Flattens
<1>5. PICK T : T = {i \in 1 .. n : f[i] \in Seq(S)}
  OBVIOUS
<1>6. 1 \in T
  BY <1>3, <1>5 DEF Flattens
<1>7. ASSUME NEW i \in 1 .. n, 1 < i, i - 1 \in T  PROVE i \in T
  <2>1. f[i - 1] \in Seq(S) /\ seqs[i] \in Seq(S) /\ i # 1
    BY <1>5, <1>7
  <2>3. f[i] = f[i - 1] \o seqs[i]
    BY <1>3, <2>1 DEF Flattens
  <2>2. f[i - 1] \o seqs[i] \in Seq(S)
    BY <2>1
  <2> QED BY <1>5, <2>2, <2>3
<1>8. \A i \in 1 .. n : i \in T
  BY <1>6, <1>7, Upward
<1>9. f = [i \in 1 .. n |-> f[i]]
  BY <1>3 DEF Flattens
<1>10. f \in [1 .. n -> Seq(S)]
  BY <1>5, <1>8, <1>9
<1> QED BY <1>3, <1>4, <1>10

LEMMA FlattenMore ==
  ASSUME NEW k \in Nat, NEW S, NEW a \in [1 .. k -> Seq(S)], NEW b \in [1 .. k + 1 -> Seq(S)],
         \A i \in 1 .. k : b[i] = a[i]
  PROVE  FlattenSeq(a) \in Seq(S) /\ FlattenSeq(b) = FlattenSeq(a) \o b[k + 1]
<1>1. PICK n \in Nat : n = k + 1
  OBVIOUS
<1>2. PICK g \in [1 .. n -> Seq(S)] : Flattens(g, n, b) /\ FlattenSeq(b) = g[n]
  BY <1>1, FlattenParts
<1>3. CASE k = 0
  <2>1. a = <<>> /\ FlattenSeq(a) = <<>> /\ <<>> \in Seq(S)
    <3>1. a \in Seq(S) /\ Len(a) = 0
      BY <1>3
    <3>2. a = <<>>
      BY <1>3
    <3> QED BY <3>1, <3>2 DEF FlattenSeq
  <2>2. g[n] = b[1] /\ b[1] \in Seq(S)
    BY <1>1, <1>2, <1>3 DEF Flattens
  <2>3. <<>> \o b[1] = b[1] /\ k + 1 = 1
    BY <1>3, <2>2, ConcatEmptySeq
  <2> QED BY <1>2, <2>1, <2>2, <2>3
<1>4. CASE k > 0
  <2>1. PICK f \in [1 .. k -> Seq(S)] : Flattens(f, k, a) /\ FlattenSeq(a) = f[k]
    BY <1>4, FlattenParts
  <2>2. PICK T : T = {i \in 1 .. k : g[i] = f[i]}
    OBVIOUS
  <2>3. 1 \in T
    BY <1>1, <1>2, <1>4, <2>1, <2>2 DEF Flattens
  <2>4. ASSUME NEW i \in 1 .. k, 1 < i, i - 1 \in T  PROVE i \in T
    <3>1. i \in 1 .. n /\ i # 1
      BY <1>1, <2>4
    <3>2. g[i] = g[i - 1] \o b[i]
      BY <1>2, <3>1 DEF Flattens
    <3>3. f[i] = f[i - 1] \o a[i]
      BY <2>1, <3>1 DEF Flattens
    <3> QED BY <2>2, <2>4, <3>2, <3>3
  <2>5. \A i \in 1 .. k : i \in T
    BY <1>4, <2>3, <2>4, Upward
  <2>6. g[k] = f[k]
    BY <1>4, <2>2, <2>5
  <2>7. n \in 1 .. n /\ n # 1 /\ n - 1 = k
    BY <1>1, <1>4
  <2>8. g[n] = g[k] \o b[n]
    BY <1>2, <2>7 DEF Flattens
  <2> QED BY <1>1, <1>2, <1>4, <2>1, <2>6, <2>8
<1> QED BY <1>3, <1>4

----------------------------------------------------------------------------
(* Readers *)

IsReader(r) ==
  /\ r = [ok |-> r.ok, rest |-> r.rest, v |-> r.v, elems |-> r.elems, room |-> r.room]
  /\ r.ok \in BOOLEAN /\ r.rest \in Seq(Words) /\ r.elems \in Nat /\ r.room \in 0 .. Reserve

LEMMA WordsAreNumbers == Words \subseteq Nat
BY DEF Words

LEMMA ReaderStarts ==
  ASSUME NEW ws \in Seq(Words)
  PROVE  /\ IsReader(Reader(ws)) /\ Reader(ws).ok /\ Reader(ws).rest = ws
         /\ Reader(ws).elems = 0 /\ Reader(ws).v = <<>> /\ Reader(ws).room = 0
BY WordAssumption DEF Reader, IsReader

Parts(ok, rest, v, elems, room) ==
  [ok |-> ok, rest |-> rest, v |-> v, elems |-> elems, room |-> room]

LEMMA PartsChange ==
  ASSUME NEW r, IsReader(r), NEW n, NEW w, NEW k
  PROVE  /\ Fails(r) = Parts(FALSE, r.rest, r.v, r.elems, r.room)
         /\ Reads(r, n, w) = Parts(r.ok, SubSeq(r.rest, n + 1, Len(r.rest)), w, r.elems, r.room)
         /\ [r EXCEPT !.room = k] = Parts(r.ok, r.rest, r.v, r.elems, k)
         /\ [r EXCEPT !.elems = k] = Parts(r.ok, r.rest, r.v, k, r.room)
         /\ [r EXCEPT !.v = w] = Parts(r.ok, r.rest, w, r.elems, r.room)
<1>0. r = Parts(r.ok, r.rest, r.v, r.elems, r.room)
  BY DEF IsReader, Parts
<1>1. Fails(r) = Parts(FALSE, r.rest, r.v, r.elems, r.room)
  <2>1. PICK ok, rest, v, elems, room : r = [ok |-> ok, rest |-> rest, v |-> v, elems |-> elems, room |-> room]
    BY <1>0 DEF Parts
  <2>3. \A b : [r EXCEPT !.ok = b]
                   = [ok |-> b, rest |-> rest, v |-> v, elems |-> elems, room |-> room]
    BY <2>1
  <2>2. Fails(r) = [ok |-> FALSE, rest |-> rest, v |-> v, elems |-> elems, room |-> room]
    BY <2>3, Zenon DEF Fails
  <2> QED BY <2>1, <2>2 DEF Parts
<1>2. Reads(r, n, w) = Parts(r.ok, SubSeq(r.rest, n + 1, Len(r.rest)), w, r.elems, r.room)
  <2>1. PICK ok, rest, v, elems, room : r = [ok |-> ok, rest |-> rest, v |-> v, elems |-> elems, room |-> room]
    BY <1>0 DEF Parts
  <2>2. PICK t : t = [r EXCEPT !.rest = SubSeq(@, n + 1, Len(@))]
    OBVIOUS
  <2>3. t = [ok |-> ok, rest |-> SubSeq(rest, n + 1, Len(rest)), v |-> v, elems |-> elems, room |-> room]
    BY <2>1, <2>2
  <2>4. Reads(r, n, w) = [t EXCEPT !.v = w]
    BY <2>2 DEF Reads
  <2>5. Reads(r, n, w) = [ok |-> ok, rest |-> SubSeq(rest, n + 1, Len(rest)), v |-> w, elems |-> elems, room |-> room]
    BY <2>3, <2>4
  <2> QED BY <2>1, <2>5 DEF Parts
<1>3. [r EXCEPT !.room = k] = Parts(r.ok, r.rest, r.v, r.elems, k)
  BY <1>0 DEF Parts
<1>4. [r EXCEPT !.elems = k] = Parts(r.ok, r.rest, r.v, k, r.room)
  BY <1>0 DEF Parts
<1>5. [r EXCEPT !.v = w] = Parts(r.ok, r.rest, w, r.elems, r.room)
  BY <1>0 DEF Parts
<1> QED BY <1>1, <1>2, <1>3, <1>4, <1>5

LEMMA ReaderFails ==
  ASSUME NEW r, IsReader(r)
  PROVE  /\ IsReader(Fails(r)) /\ ~Fails(r).ok
         /\ Fails(r).rest = r.rest /\ Fails(r).elems = r.elems
<1>1. r = Parts(r.ok, r.rest, r.v, r.elems, r.room)
  BY DEF IsReader, Parts
<1>2. Fails(r) = Parts(FALSE, r.rest, r.v, r.elems, r.room)
  BY <1>1, PartsChange
<1> QED BY <1>2 DEF IsReader, Parts

(* e has read n words of r, ws, as the value v.                            *)
Took(r, ws, v, e) ==
  /\ IsReader(e) /\ e.ok = r.ok /\ e.v = v /\ e.elems = r.elems /\ e.room = r.room
  /\ r.rest = ws \o e.rest /\ Len(r.rest) = Len(ws) + Len(e.rest)

LEMMA ReaderReads ==
  ASSUME NEW r, IsReader(r), NEW n \in 0 .. Len(r.rest), NEW v, NEW e, e = Reads(r, n, v),
         NEW ws \in Seq(Words), Len(ws) = n, \A i \in 1 .. n : ws[i] = r.rest[i]
  PROVE  Took(r, ws, v, e)
<1>1. PICK all \in Seq(Words) : all = r.rest
  BY DEF IsReader
<1>2. PICK rest : rest = SubSeq(all, n + 1, Len(all))
  OBVIOUS
<1>3. rest \in Seq(Words) /\ Len(rest) = Len(all) - n
  BY <1>1, <1>2
<1>4. e = Parts(r.ok, rest, v, r.elems, r.room)
  BY <1>1, <1>2, PartsChange
<1>5. /\ e.ok = r.ok /\ e.rest = rest /\ e.v = v /\ e.elems = r.elems /\ e.room = r.room
      /\ e = Parts(e.ok, e.rest, e.v, e.elems, e.room)
  BY <1>4 DEF Parts
<1>6. IsReader(e)
  <2>1. r.ok \in BOOLEAN /\ r.elems \in Nat /\ r.room \in 0 .. Reserve
    BY DEF IsReader
  <2> QED BY <1>3, <1>5, <2>1 DEF IsReader, Parts
<1>7. all = ws \o rest
  <2>1. Len(ws \o rest) = Len(all) /\ ws \o rest \in Seq(Words)
    BY <1>1, <1>3
  <2>2. ASSUME NEW i \in 1 .. Len(all)  PROVE all[i] = (ws \o rest)[i]
    <3>1. CASE i <= n
      BY <1>1, <1>3, <3>1
    <3>2. CASE i > n
      <4>1. i - n \in 1 .. Len(rest) /\ rest[i - n] = all[i]
        BY <1>1, <1>2, <1>3, <3>2
      <4>2. (ws \o rest)[i] = rest[i - n]
        BY <1>1, <1>3, <3>2
      <4> QED BY <4>1, <4>2
    <3>3. i <= n \/ i > n
      OBVIOUS
    <3> QED BY <3>1, <3>2, <3>3
  <2> QED BY <2>1, <2>2, SeqEqual
<1>8. Len(all) = Len(ws) + Len(rest)
  BY <1>1, <1>3
<1> QED BY <1>1, <1>5, <1>6, <1>7, <1>8 DEF Took

----------------------------------------------------------------------------
(* Decoding *)

(* decode of a type is the step of it that calls decode of its element.    *)
Decodes(T) == \A ty \in T : \A r : Decode(ty, r) = DecodeStep(ty, r)

(* Clients encode all values of these types as EncodesAs says.             *)
Encodes(T) == \A ty \in T : \A v : NoString(ty) => EncodesValue(ty, v)

Cut(ws) == \E i \in DOMAIN ws : ws[i] >= USize

(* e is what decoding a value of the type makes of the reader r.           *)
Decoded(T, ty, r, e) ==
  /\ IsReader(e)
  /\ e.elems + Len(e.rest) <= r.elems + Len(r.rest)
  /\ e.ok => e.elems + Len(e.rest) < r.elems + Len(r.rest)
  /\ e.ok /\ NoString(ty) /\ Encodes(T) =>
       \E ws \in Seq(Words) : /\ r.rest = ws \o e.rest
                              /\ ClientWords(ty, e.v) = ws \/ (IsVec(ty) /\ Cut(ws))

LEMMA DecodedFails ==
  ASSUME NEW T, NEW ty, NEW r, IsReader(r)
  PROVE  Decoded(T, ty, r, Fails(r))
<1>1. Len(r.rest) \in Nat /\ r.elems \in Nat
  BY DEF IsReader
<1> QED BY <1>1, ReaderFails DEF Decoded

LEMMA DecodedWord ==
  ASSUME NEW T, <<"u128">> \in T, NEW r, IsReader(r), r.ok
  PROVE  Decoded(T, <<"u128">>, r, DecodeWord(r))
<1>1. CASE r.rest = <<>>
  BY <1>1, DecodedFails DEF DecodeWord
<1>2. CASE r.rest # <<>>
  <2>1. r.rest \in Seq(Words) /\ r.elems \in Nat /\ Len(r.rest) \in Nat /\ 1 \in 0 .. Len(r.rest)
        /\ r.rest[1] \in Words
    BY <1>2 DEF IsReader
  <2>2. PICK e, e0 : e0 = r.rest[1] /\ e = Reads(r, 1, e0)
    OBVIOUS
  <2>3. Took(r, <<r.rest[1]>>, e0, e)
    <3>0. PICK x : x = r.rest[1] /\ x \in Words
      BY <2>1
    <3>1. PICK ws \in Seq(Words) : ws = <<r.rest[1]>>
      <4>1. <<x>> \in Seq(Words)
        BY <3>0
      <4> QED BY <3>0, <4>1
    <3>2. PICK n \in 0 .. Len(r.rest) : n = 1 /\ Len(ws) = n /\ \A i \in 1 .. n : ws[i] = r.rest[i]
      BY <2>1, <3>1
    <3>3. e = Reads(r, n, e0) /\ Len(ws) = n /\ \A i \in 1 .. n : ws[i] = r.rest[i]
      BY <2>2, <3>2
    <3>4. Took(r, ws, e0, e)
      BY ONLY <3>3, n \in 0 .. Len(r.rest), ws \in Seq(Words), IsReader(r), ReaderReads
    <3> QED BY <3>1, <3>4
  <2>4. /\ IsReader(e) /\ e.ok /\ e.v = e0 /\ Len(e.rest) = Len(r.rest) - 1 /\ e.elems = r.elems
        /\ <<r.rest[1]>> \in Seq(Words) /\ r.rest = <<r.rest[1]>> \o e.rest /\ Len(e.rest) \in Nat
    <3>1. Len(e.rest) \in Nat
      BY <2>3 DEF Took, IsReader
    <3> QED BY <2>1, <2>3, <3>1 DEF Took
  <2>5. Encodes(T) => ClientWords(<<"u128">>, e.v) = <<r.rest[1]>>
    <3>1. Encodes(T) => ClientWords(<<"u128">>, e.v) = EncodesAs(<<"u128">>, e.v)
      BY DEF Encodes, EncodesValue, NoString
    <3>2. EncodesAs(<<"u128">>, e.v) = <<e.v>>
      BY DEF EncodesAs, IsVec
    <3>3. e.v = r.rest[1]
      BY <2>2, <2>4
    <3> QED BY <3>1, <3>2, <3>3
  <2>6. e.elems + Len(e.rest) < r.elems + Len(r.rest)
    BY <2>1, <2>2, <2>3, <2>4
  <2>7. e.elems + Len(e.rest) <= r.elems + Len(r.rest)
    BY <2>1, <2>2, <2>3, <2>4
  <2>8. Decoded(T, <<"u128">>, r, e)
    BY <2>2, <2>3, <2>4, <2>5, <2>6, <2>7 DEF Decoded
  <2> QED BY <1>2, <2>2, <2>8 DEF DecodeWord
<1> QED BY <1>1, <1>2

LEMMA DecodedId ==
  ASSUME NEW T, <<"AlkaneId">> \in T, NEW r, IsReader(r), r.ok
  PROVE  Decoded(T, <<"AlkaneId">>, r, DecodeId(r))
<1>1. CASE Len(r.rest) < 2
  BY <1>1, DecodedFails DEF DecodeId
<1>2. CASE ~(Len(r.rest) < 2)
  <2>1. r.rest \in Seq(Words) /\ r.elems \in Nat /\ Len(r.rest) \in Nat /\ 2 \in 0 .. Len(r.rest)
        /\ r.rest[1] \in Words /\ r.rest[2] \in Words
    BY <1>2 DEF IsReader
  <2>2. PICK e, e0 : e0 = <<r.rest[1], r.rest[2]>> /\ e = Reads(r, 2, e0)
    OBVIOUS
  <2>3. Took(r, <<r.rest[1], r.rest[2]>>, e0, e)
    <3>0. PICK x, y : x = r.rest[1] /\ x \in Words /\ y = r.rest[2] /\ y \in Words
      BY <2>1
    <3>1. PICK ws \in Seq(Words) : ws = <<r.rest[1], r.rest[2]>>
      <4>1. <<x, y>> \in Seq(Words)
        BY <3>0
      <4> QED BY <3>0, <4>1
    <3>2. PICK n \in 0 .. Len(r.rest) : n = 2 /\ Len(ws) = n /\ \A i \in 1 .. n : ws[i] = r.rest[i]
      BY <2>1, <3>1
    <3>3. e = Reads(r, n, e0) /\ Len(ws) = n /\ \A i \in 1 .. n : ws[i] = r.rest[i]
      BY <2>2, <3>2
    <3>4. Took(r, ws, e0, e)
      BY ONLY <3>3, n \in 0 .. Len(r.rest), ws \in Seq(Words), IsReader(r), ReaderReads
    <3> QED BY <3>1, <3>4
  <2>4. /\ IsReader(e) /\ e.ok /\ e.v = e0 /\ Len(e.rest) = Len(r.rest) - 2 /\ e.elems = r.elems
        /\ <<r.rest[1], r.rest[2]>> \in Seq(Words) /\ r.rest = <<r.rest[1], r.rest[2]>> \o e.rest /\ Len(e.rest) \in Nat
    <3>1. Len(e.rest) \in Nat
      BY <2>3 DEF Took, IsReader
    <3> QED BY <2>1, <2>3, <3>1 DEF Took
  <2>5. Encodes(T) => ClientWords(<<"AlkaneId">>, e.v) = e.v
    <3>0. PICK x, y : x = r.rest[1] /\ x \in Words /\ y = r.rest[2] /\ y \in Words
      BY <2>1
    <3>1. e.v \in Words \X Words
      <4>1. e.v = <<x, y>>
        BY <2>2, <2>4, <3>0
      <4> QED BY <3>0, <4>1
    <3>2. Encodes(T) => ClientWords(<<"AlkaneId">>, e.v) = EncodesAs(<<"AlkaneId">>, e.v)
      BY <3>1 DEF Encodes, EncodesValue, NoString
    <3>3. EncodesAs(<<"AlkaneId">>, e.v) = e.v
      BY DEF EncodesAs, IsVec
    <3> QED BY <3>2, <3>3
  <2>6. e.elems + Len(e.rest) < r.elems + Len(r.rest)
    BY <2>1, <2>2, <2>3, <2>4
  <2>7. e.elems + Len(e.rest) <= r.elems + Len(r.rest)
    BY <2>1, <2>2, <2>3, <2>4
  <2>8. Decoded(T, <<"AlkaneId">>, r, e)
    BY <2>2, <2>3, <2>4, <2>5, <2>6, <2>7 DEF Decoded
  <2> QED BY <1>2, <2>2, <2>8 DEF DecodeId
<1> QED BY <1>1, <1>2

LEMMA StringTakesWords ==
  ASSUME NEW ws \in Seq(Words), ws # <<>>
  PROVE  StringWords(ws) \in 1 .. Len(ws)
<1>1. PICK ends : ends = {i \in DOMAIN ws : \E j \in 1 .. WordLen : BytesOf(ws[i], WordLen)[j] = 0}
  OBVIOUS
<1>2. ends \in SUBSET Nat /\ DOMAIN ws = 1 .. Len(ws) /\ Len(ws) \in 1 .. Len(ws)
  BY <1>1
<1>3. ends # {} => Min(ends) \in ends
  BY <1>2, MinIsMember
<1>4. StringWords(ws) = IF ends = {} THEN Len(ws) ELSE Min(ends)
  BY <1>1 DEF StringWords
<1> QED BY <1>1, <1>2, <1>3, <1>4

LEMMA DecodedString ==
  ASSUME NEW T, NEW r, IsReader(r), r.ok
  PROVE  Decoded(T, <<"String">>, r, DecodeString(r))
<1>1. PICK bs : bs = StringBytes(r.rest)
  OBVIOUS
<1>2. CASE r.rest = <<>> \/ \E i \in DOMAIN bs : bs[i] \in Invalid
  BY <1>1, <1>2, DecodedFails DEF DecodeString
<1>3. CASE ~(r.rest = <<>> \/ \E i \in DOMAIN bs : bs[i] \in Invalid)
  <2>1. PICK n : n = StringWords(r.rest)
    OBVIOUS
  <2>2. /\ r.rest \in Seq(Words) /\ r.elems \in Nat /\ Len(r.rest) \in Nat
        /\ n \in 1 .. Len(r.rest) /\ n \in 0 .. Len(r.rest)
    BY <1>3, <2>1, StringTakesWords DEF IsReader
  <2>3. PICK e : e = Reads(r, n, bs)
    OBVIOUS
  <2>4. IsReader(e) /\ Len(e.rest) = Len(r.rest) - n /\ e.elems = r.elems
    <3>1. PICK ws : ws = SubSeq(r.rest, 1, n)
      OBVIOUS
    <3>2. ws \in Seq(Words) /\ Len(ws) = n /\ \A i \in 1 .. n : ws[i] = r.rest[i]
      BY <2>2, <3>1
    <3>3. Took(r, ws, bs, e)
      BY ONLY <2>2, <2>3, <3>2, IsReader(r), ReaderReads
    <3>4. Len(e.rest) \in Nat
      BY <3>3 DEF Took, IsReader
    <3> QED BY <2>2, <3>2, <3>3, <3>4 DEF Took
  <2>5. e.elems + Len(e.rest) < r.elems + Len(r.rest) /\ e.elems + Len(e.rest) <= r.elems + Len(r.rest)
    BY <2>2, <2>4
  <2>6. ~NoString(<<"String">>)
    BY DEF NoString
  <2>7. Decoded(T, <<"String">>, r, e)
    BY <2>4, <2>5, <2>6 DEF Decoded
  <2>8. DecodeString(r) = e
    BY <1>1, <1>3, <2>1, <2>3 DEF DecodeString
  <2> QED BY <2>7, <2>8
<1> QED BY <1>2, <1>3

----------------------------------------------------------------------------
(* Values one after the other: the elements of a vector, which are counted, *)
(* or the fields of a variant.                                             *)

Counting(counts, r) == IF counts THEN [r EXCEPT !.elems = @ + 1] ELSE r

Advance(counts, ty, r) == IF r.ok THEN Followed(r, Decode(ty, Counting(counts, r))) ELSE r

ReadsOn(g, n, counts, tys, r) ==
  g = [i \in 0 .. n |-> IF i = 0 THEN r ELSE Advance(counts, tys[i], g[i - 1])]

LEMMA ReadsOnExists ==
  ASSUME NEW n \in Nat, NEW counts, NEW tys, NEW r
  PROVE  \E g : ReadsOn(g, n, counts, tys, r)
<1>1. PICK T : T = {m \in 0 .. n : \E g : ReadsOn(g, m, counts, tys, r)}
  OBVIOUS
<1>2. 0 \in T
  <2>1. PICK g : g = [i \in 0 .. 0 |-> r]
    OBVIOUS
  <2>2. ReadsOn(g, 0, counts, tys, r)
    BY <2>1 DEF ReadsOn
  <2> QED BY <1>1, <2>2
<1>3. ASSUME NEW m \in 0 .. n, 0 < m, m - 1 \in T  PROVE m \in T
  <2>1. PICK f : ReadsOn(f, m - 1, counts, tys, r)
    BY <1>1, <1>3
  <2>2. PICK g : g = [i \in 0 .. m |-> IF i < m THEN f[i] ELSE Advance(counts, tys[m], f[m - 1])]
    OBVIOUS
  <2>3. ASSUME NEW i \in 0 .. m
        PROVE  g[i] = IF i = 0 THEN r ELSE Advance(counts, tys[i], g[i - 1])
    <3>1. CASE i < m
      <4>1. i \in 0 .. m - 1 /\ (i # 0 => i - 1 \in 0 .. m /\ i - 1 < m)
        BY <3>1
      <4>2. f[i] = IF i = 0 THEN r ELSE Advance(counts, tys[i], f[i - 1])
        BY <2>1, <4>1 DEF ReadsOn
      <4> QED BY <2>2, <3>1, <4>1, <4>2
    <3>2. CASE i = m
      <4>1. m - 1 \in 0 .. m /\ m - 1 < m /\ i # 0 /\ ~(m < m)
        BY <1>3, <3>2
      <4> QED BY <2>2, <3>2, <4>1
    <3> QED BY <3>1, <3>2
  <2>4. ReadsOn(g, m, counts, tys, r)
    BY <2>2, <2>3 DEF ReadsOn
  <2> QED BY <1>1, <2>4
<1>4. n \in T
  BY <1>2, <1>3, Upward
<1> QED BY <1>1, <1>4

ReadFields(n, tys, ws) ==
  \E g : ReadsOn(g, n, FALSE, tys, Reader(ws)) /\ DecodeFields(tys, ws) = g[n]

LEMMA FieldsRead ==
  ASSUME NEW n \in Nat, NEW tys, Len(tys) = n, NEW ws
  PROVE  ReadFields(n, tys, ws)
<1>1. \A ty, r : NextField(ty, r) = Advance(FALSE, ty, r)
  BY DEF NextField, Advance, Counting
<1>2. PICK g : g = CHOOSE h : ReadsOn(h, n, FALSE, tys, Reader(ws))
  OBVIOUS
<1>3. ReadsOn(g, n, FALSE, tys, Reader(ws))
  BY <1>2, ReadsOnExists
<1>4. g = CHOOSE h : h = [i \in 0 .. n |-> IF i = 0 THEN Reader(ws) ELSE NextField(tys[i], h[i - 1])]
  BY <1>1, <1>2 DEF ReadsOn
<1>5. DecodeFields(tys, ws) = g[n]
  BY <1>4 DEF DecodeFields
<1> QED BY <1>3, <1>5 DEF ReadFields

Begun(r, n) == [Reads(r, 1, <<>>) EXCEPT !.room = IF Room(n) > @ THEN Room(n) ELSE @]

LEMMA VecReads ==
  ASSUME NEW ty, IsVec(ty), NEW r, r.rest # <<>>, NEW n \in Nat, n = VecLength(r.rest[1]),
         NEW tys, tys = [i \in 1 .. n |-> Element(ty)]
  PROVE  \E g : ReadsOn(g, n, TRUE, tys, Begun(r, n)) /\ DecodeStep(ty, r) = g[n]
<1>0. ty # <<"u128">> /\ ty # <<"AlkaneId">> /\ ty # <<"String">>
  BY DEF IsVec
<1>1. \A el, s : NextElement(Decode, el, s) = Advance(TRUE, el, s)
  BY DEF NextElement, Advance, Counting
<1>2. PICK g : g = CHOOSE h : ReadsOn(h, n, TRUE, tys, Begun(r, n))
  OBVIOUS
<1>3. ReadsOn(g, n, TRUE, tys, Begun(r, n))
  BY <1>2, ReadsOnExists
<1>4. \A h : [i \in 0 .. n |-> IF i = 0 THEN Begun(r, n) ELSE Advance(TRUE, tys[i], h[i - 1])]
           = [i \in 0 .. n |-> IF i = 0 THEN Begun(r, n)
                                         ELSE NextElement(Decode, Element(ty), h[i - 1])]
  <2> SUFFICES ASSUME NEW h, NEW i \in 0 .. n, i # 0
               PROVE  Advance(TRUE, tys[i], h[i - 1]) = NextElement(Decode, Element(ty), h[i - 1])
    OBVIOUS
  <2>1. i \in 1 .. n /\ tys[i] = Element(ty)
    OBVIOUS
  <2> QED BY <1>1, <2>1
<1>5. g = CHOOSE h : h = [i \in 0 .. n |-> IF i = 0 THEN Begun(r, n)
                                           ELSE NextElement(Decode, Element(ty), h[i - 1])]
  BY <1>2, <1>4 DEF ReadsOn
<1>6. DecodeStep(ty, r) = g[n]
  BY <1>0, <1>5 DEF DecodeStep, Decoding, Begun
<1> QED BY <1>3, <1>6

(* ws says the first k values of these types, unless a length was cut.     *)
Encodings(tys, k, v) == [i \in 1 .. k |-> ClientWords(tys[i], v[i])]

Said(tys, k, v, ws) ==
  \/ Encodings(tys, k, v) \in [1 .. k -> Seq(Words)] /\ FlattenSeq(Encodings(tys, k, v)) = ws
  \/ Cut(ws) /\ \E i \in 1 .. k : IsVec(tys[i])

LEMMA CutMore ==
  ASSUME NEW a \in Seq(Words), NEW b \in Seq(Words)
  PROVE  Cut(a) \/ Cut(b) => Cut(a \o b)
<1>1. ASSUME NEW i \in DOMAIN a, a[i] >= USize  PROVE Cut(a \o b)
  <2>1. i \in DOMAIN (a \o b) /\ (a \o b)[i] = a[i]
    OBVIOUS
  <2> QED BY <1>1, <2>1 DEF Cut
<1>2. ASSUME NEW i \in DOMAIN b, b[i] >= USize  PROVE Cut(a \o b)
  <2>1. i + Len(a) \in DOMAIN (a \o b) /\ (a \o b)[i + Len(a)] = b[i]
    OBVIOUS
  <2> QED BY <1>2, <2>1 DEF Cut
<1> QED BY <1>1, <1>2 DEF Cut

LEMMA SaidMore ==
  ASSUME NEW k \in Nat, NEW tys, NEW v, IsTuple(v, k), NEW x, NEW a \in Seq(Words), NEW b \in Seq(Words),
         Said(tys, k, v, a), ClientWords(tys[k + 1], x) = b \/ (IsVec(tys[k + 1]) /\ Cut(b))
  PROVE  Said(tys, k + 1, Append(v, x), a \o b)
<1>1. PICK w : w = Append(v, x)
  OBVIOUS
<1>2. IsTuple(w, k + 1) /\ w[k + 1] = x /\ \A i \in 1 .. k : w[i] = v[i]
  <2>1. Longer(v, k, x, w)
    BY <1>1, TupleAppend
  <2> QED BY <2>1 DEF Longer
<1>3. CASE Cut(a) /\ \E i \in 1 .. k : IsVec(tys[i])
  <2>1. Cut(a \o b) /\ \E i \in 1 .. k + 1 : IsVec(tys[i])
    BY <1>3, CutMore
  <2> QED BY <2>1 DEF Said
<1>4. CASE IsVec(tys[k + 1]) /\ Cut(b)
  <2>1. Cut(a \o b) /\ k + 1 \in 1 .. k + 1
    BY <1>4, CutMore
  <2> QED BY <1>4, <2>1 DEF Said
<1>5. CASE /\ Encodings(tys, k, v) \in [1 .. k -> Seq(Words)] /\ FlattenSeq(Encodings(tys, k, v)) = a
           /\ ClientWords(tys[k + 1], x) = b
  <2>1. PICK c, d : c = Encodings(tys, k, v) /\ d = Encodings(tys, k + 1, w)
    OBVIOUS
  <2>2. d[k + 1] = b /\ \A i \in 1 .. k : d[i] = c[i]
    BY <1>2, <1>5, <2>1 DEF Encodings
  <2>3. c \in [1 .. k -> Seq(Words)]
    BY <1>5, <2>1
  <2>4. \A i \in 1 .. k + 1 : d[i] \in Seq(Words)
    <3>1. ASSUME NEW i \in 1 .. k + 1  PROVE d[i] \in Seq(Words)
      <4>1. CASE i = k + 1
        BY <2>2, <4>1
      <4>2. CASE i # k + 1
        <5>1. i \in 1 .. k
          BY <4>2
        <5> QED BY <2>2, <2>3, <5>1
      <4> QED BY <4>1, <4>2
    <3> QED BY <3>1
  <2>5. d \in [1 .. k + 1 -> Seq(Words)]
    BY <2>1, <2>4 DEF Encodings
  <2>6. FlattenSeq(d) = FlattenSeq(c) \o d[k + 1]
    BY <2>2, <2>3, <2>5, FlattenMore
  <2> QED BY <1>1, <1>5, <2>1, <2>2, <2>5, <2>6 DEF Said
<1> QED BY <1>3, <1>4, <1>5 DEF Said

(* e is the reader when k values have been read from r, or one has failed. *)
Sum(r) == r.elems + Len(r.rest)

Position(T, counts, tys, r, k, e) ==
  /\ IsReader(e)
  /\ Sum(e) <= Sum(r) + (IF counts THEN 1 ELSE 0)
  /\ e.ok => Sum(e) <= Sum(r)
  /\ e.ok => IsTuple(e.v, k)
  /\ e.ok /\ (\A i \in 1 .. k : NoString(tys[i])) /\ Encodes(T) =>
       \E ws \in Seq(Words) : r.rest = ws \o e.rest /\ Said(tys, k, e.v, ws)

LEMMA SumType == ASSUME NEW r, IsReader(r) PROVE Sum(r) \in Nat
BY DEF IsReader, Sum

LEMMA FollowedParts ==
  ASSUME NEW r, NEW d, IsReader(d), NEW e, e = Followed(r, d)
  PROVE  /\ IsReader(e) /\ e.ok = d.ok /\ e.rest = d.rest /\ e.elems = d.elems /\ e.room = d.room
         /\ d.ok => e.v = Append(r.v, d.v)
<1>1. PICK w : w = IF d.ok THEN Append(r.v, d.v) ELSE r.v
  OBVIOUS
<1>2. e = [d EXCEPT !.v = w]
  BY <1>1 DEF Followed
<1>3. e = Parts(d.ok, d.rest, w, d.elems, d.room)
  BY <1>2, PartsChange
<1>4. /\ e.ok = d.ok /\ e.rest = d.rest /\ e.elems = d.elems /\ e.room = d.room /\ e.v = w
      /\ e = Parts(e.ok, e.rest, e.v, e.elems, e.room)
  BY <1>3 DEF Parts
<1>5. IsReader(e)
  BY <1>4 DEF IsReader, Parts
<1> QED BY <1>1, <1>4, <1>5

LEMMA CountingParts ==
  ASSUME NEW counts \in BOOLEAN, NEW r, IsReader(r), NEW q, q = Counting(counts, r)
  PROVE  /\ IsReader(q) /\ q.ok = r.ok /\ q.rest = r.rest
         /\ Sum(q) = Sum(r) + (IF counts THEN 1 ELSE 0)
<1>0. r.elems \in Nat /\ Len(r.rest) \in Nat
  BY DEF IsReader
<1>1. CASE counts
  <2>1. PICK n \in Nat : n = r.elems + 1
    BY <1>0
  <2>2. q = [r EXCEPT !.elems = n]
    BY <1>1, <2>1 DEF Counting
  <2>3. q = Parts(r.ok, r.rest, r.v, n, r.room)
    BY <2>2, PartsChange
  <2>4. /\ q.ok = r.ok /\ q.rest = r.rest /\ q.elems = n /\ q.room = r.room
        /\ q = Parts(q.ok, q.rest, q.v, q.elems, q.room)
    BY <2>3 DEF Parts
  <2>5. IsReader(q)
    BY <2>4 DEF IsReader, Parts
  <2>6. Sum(q) = Sum(r) + 1
    BY <1>0, <2>1, <2>4 DEF Sum
  <2> QED BY <1>1, <2>4, <2>5, <2>6
<1>2. CASE ~counts
  <2>1. q = r /\ Sum(r) + 0 = Sum(r)
    BY <1>2, SumType DEF Counting
  <2> QED BY <1>2, <2>1
<1> QED BY <1>1, <1>2

LEMMA PositionStarts ==
  ASSUME NEW T, NEW counts \in BOOLEAN, NEW tys, NEW r, IsReader(r), r.v = <<>>
  PROVE  Position(T, counts, tys, r, 0, r)
<1>1. Sum(r) \in Nat
  BY SumType
<1>2. IsTuple(r.v, 0)
  BY DEF IsTuple
<1>3. PICK ws : ws = Encodings(tys, 0, r.v)
  OBVIOUS
<1>4. ws \in [1 .. 0 -> Seq(Words)] /\ ws \in Seq(Words) /\ Len(ws) = 0 /\ ws = <<>>
  BY <1>3 DEF Encodings
<1>5. FlattenSeq(ws) = ws
  BY <1>4 DEF FlattenSeq
<1>6. Said(tys, 0, r.v, ws)
  BY <1>3, <1>4, <1>5 DEF Said
<1>7. r.rest = ws \o r.rest
  BY <1>4, ConcatEmptySeq DEF IsReader
<1>8. Sum(r) <= Sum(r) /\ Sum(r) <= Sum(r) + (IF counts THEN 1 ELSE 0)
  BY <1>1
<1>9. \E s \in Seq(Words) : r.rest = s \o r.rest /\ Said(tys, 0, r.v, s)
  BY <1>4, <1>6, <1>7
<1> QED BY <1>2, <1>8, <1>9 DEF Position

(* All readers decode a type to what Decoded says.                         *)
Decodable(T, ty) == \A r : IsReader(r) /\ r.ok => Decoded(T, ty, r, Decode(ty, r))

LEMMA PositionMoves ==
  ASSUME NEW T, NEW counts \in BOOLEAN, NEW tys, NEW r, IsReader(r), NEW k \in Nat,
         Decodable(T, tys[k + 1]), NEW p, Position(T, counts, tys, r, k, p),
         NEW e, e = Advance(counts, tys[k + 1], p)
  PROVE  Position(T, counts, tys, r, k + 1, e)
<1>0. PICK slack : slack \in {0, 1} /\ slack = IF counts THEN 1 ELSE 0
  OBVIOUS
<1>1. CASE ~p.ok
  <2>1. e = p
    BY <1>1 DEF Advance
  <2> QED BY <1>1, <2>1 DEF Position
<1>2. CASE p.ok
  <2>1. PICK q, d : q = Counting(counts, p) /\ d = Decode(tys[k + 1], q)
    OBVIOUS
  <2>2. IsReader(p) /\ Sum(p) <= Sum(r) /\ IsTuple(p.v, k)
    BY <1>2 DEF Position
  <2>3. IsReader(q) /\ q.ok = p.ok /\ q.rest = p.rest /\ Sum(q) = Sum(p) + slack
    BY <1>0, <2>1, <2>2, CountingParts
  <2>4. Decoded(T, tys[k + 1], q, d)
    <3>1. q.ok
      BY <1>2, <2>3
    <3> QED BY <2>1, <2>3, <3>1 DEF Decodable
  <2>5. IsReader(d) /\ Sum(d) <= Sum(q) /\ (d.ok => Sum(d) < Sum(q))
    BY <2>4 DEF Decoded, Sum
  <2>6. e = Followed(p, d)
    BY <1>2, <2>1 DEF Advance
  <2>7. /\ IsReader(e) /\ e.ok = d.ok /\ e.rest = d.rest /\ e.elems = d.elems
        /\ d.ok => e.v = Append(p.v, d.v)
    BY <2>5, <2>6, FollowedParts
  <2>8. Sum(e) = Sum(d)
    BY <2>7 DEF Sum
  <2>9. Sum(r) \in Nat /\ Sum(p) \in Nat /\ Sum(q) \in Nat /\ Sum(d) \in Nat
    BY <2>2, <2>3, <2>5, SumType
  <2>10. Sum(e) <= Sum(r) + slack /\ (d.ok => Sum(e) <= Sum(r))
    BY <1>0, <2>2, <2>3, <2>5, <2>8, <2>9
  <2>11. d.ok => IsTuple(e.v, k + 1)
    BY <2>2, <2>7, TupleAppend DEF Longer
  <2>12. ASSUME d.ok, \A i \in 1 .. k + 1 : NoString(tys[i]), Encodes(T)
         PROVE  \E ws \in Seq(Words) : r.rest = ws \o e.rest /\ Said(tys, k + 1, e.v, ws)
    <3>1. PICK a \in Seq(Words) : r.rest = a \o p.rest /\ Said(tys, k, p.v, a)
      <4>1. \A i \in 1 .. k : i \in 1 .. k + 1
        OBVIOUS
      <4> QED BY <1>2, <2>12, <4>1 DEF Position
    <3>2. PICK b \in Seq(Words) : /\ q.rest = b \o d.rest
                                  /\ ClientWords(tys[k + 1], d.v) = b \/ (IsVec(tys[k + 1]) /\ Cut(b))
      <4>1. k + 1 \in 1 .. k + 1
        OBVIOUS
      <4> QED BY <2>4, <2>12, <4>1 DEF Decoded
    <3>3. Said(tys, k + 1, e.v, a \o b)
      BY <2>2, <2>7, <2>12, <3>1, <3>2, SaidMore
    <3>4. r.rest = (a \o b) \o e.rest /\ a \o b \in Seq(Words)
      <4>1. e.rest \in Seq(Words) /\ p.rest = b \o e.rest
        BY <2>3, <2>7, <3>2 DEF IsReader
      <4>2. (a \o b) \o e.rest = a \o (b \o e.rest)
        <5>1. \A c \in Seq(Words) : (a \o b) \o c = a \o (b \o c)
          BY ConcatAssociative
        <5> QED BY <4>1, <5>1
      <4> QED BY <3>1, <4>1, <4>2
    <3> QED BY <3>3, <3>4
  <2> QED BY <1>0, <2>7, <2>10, <2>11, <2>12 DEF Position
<1> QED BY <1>1, <1>2

LEMMA Chain ==
  ASSUME NEW T, NEW counts \in BOOLEAN, NEW n \in Nat, NEW tys, NEW r, IsReader(r), r.v = <<>>,
         \A i \in 1 .. n : Decodable(T, tys[i]), NEW g, ReadsOn(g, n, counts, tys, r)
  PROVE  Position(T, counts, tys, r, n, g[n])
<1>1. PICK K : K = {k \in 0 .. n : Position(T, counts, tys, r, k, g[k])}
  OBVIOUS
<1>2. 0 \in K
  <2>1. g[0] = r
    BY DEF ReadsOn
  <2> QED BY <1>1, <2>1, PositionStarts
<1>3. ASSUME NEW i \in 0 .. n, 0 < i, i - 1 \in K  PROVE i \in K
  <2>1. PICK k \in Nat : k = i - 1 /\ k + 1 = i
    BY <1>3
  <2>2. Position(T, counts, tys, r, k, g[k]) /\ Decodable(T, tys[k + 1])
    BY <1>1, <1>3, <2>1
  <2>3. g[i] = Advance(counts, tys[k + 1], g[k])
    BY <1>3, <2>1 DEF ReadsOn
  <2>4. Position(T, counts, tys, r, k + 1, g[i])
    BY <2>2, <2>3, PositionMoves
  <2> QED BY <1>1, <2>1, <2>4
<1>4. \A i \in 0 .. n : i \in K
  BY <1>2, <1>3, Upward
<1> QED BY <1>1, <1>4

LEMMA BegunParts ==
  ASSUME NEW r, IsReader(r), r.rest # <<>>, NEW n \in Nat, NEW b, b = Begun(r, n)
  PROVE  /\ IsReader(b) /\ b.ok = r.ok /\ b.v = <<>> /\ Sum(r) = Sum(b) + 1
         /\ r.rest = <<r.rest[1]>> \o b.rest /\ r.rest[1] \in Words
<1>1. r.rest \in Seq(Words) /\ r.elems \in Nat /\ Len(r.rest) \in Nat /\ r.room \in 0 .. Reserve
  BY DEF IsReader
<1>2. PICK e, none : none = <<>> /\ e = Reads(r, 1, none)
  OBVIOUS
<1>3. PICK x \in Words : x = r.rest[1]
  BY <1>1
<1>4. PICK ws \in Seq(Words) : ws = <<x>>
  <2>1. <<x>> \in Seq(Words)
    OBVIOUS
  <2> QED BY <2>1
<1>5. Took(r, ws, none, e)
  <2>1. PICK m \in 0 .. Len(r.rest) : m = 1 /\ Len(ws) = m /\ \A i \in 1 .. m : ws[i] = r.rest[i]
    BY <1>1, <1>3, <1>4
  <2>2. e = Reads(r, m, none) /\ Len(ws) = m /\ \A i \in 1 .. m : ws[i] = r.rest[i]
    BY <1>2, <2>1
  <2> QED BY ONLY <2>2, m \in 0 .. Len(r.rest), ws \in Seq(Words), IsReader(r), ReaderReads
<1>6. PICK room : room = IF Room(n) > e.room THEN Room(n) ELSE e.room
  OBVIOUS
<1>7. room \in 0 .. Reserve
  <2>1. Room(n) \in 0 .. Reserve
    BY WordAssumption DEF Room
  <2>2. e.room \in 0 .. Reserve
    BY <1>5 DEF Took, IsReader
  <2> QED BY <1>6, <2>1, <2>2
<1>8. b = [e EXCEPT !.room = room]
  BY <1>2, <1>6 DEF Begun
<1>9. IsReader(e)
  BY <1>5 DEF Took
<1>10. b = Parts(e.ok, e.rest, e.v, e.elems, room)
  BY <1>8, <1>9, PartsChange
<1>11. /\ b.ok = e.ok /\ b.rest = e.rest /\ b.elems = e.elems /\ b.room = room /\ b.v = e.v
       /\ b = Parts(b.ok, b.rest, b.v, b.elems, b.room)
  BY <1>10 DEF Parts
<1>12. IsReader(b)
  BY <1>7, <1>9, <1>11 DEF IsReader, Parts
<1>13. /\ b.ok = r.ok /\ b.v = <<>> /\ b.elems = r.elems /\ r.rest = ws \o b.rest
       /\ Len(r.rest) = Len(ws) + Len(b.rest)
  BY <1>2, <1>5, <1>11 DEF Took
<1>14. Len(b.rest) \in Nat
  BY <1>12 DEF IsReader
<1>15. Sum(r) = Sum(b) + 1
  BY <1>1, <1>4, <1>13, <1>14 DEF Sum
<1> QED BY <1>3, <1>4, <1>12, <1>13, <1>15

LEMMA NoStringElement ==
  ASSUME NEW ty \in Seq(STRING), IsVec(ty), NoString(ty)
  PROVE  NoString(Element(ty))
<1>1. PICK el : el = Element(ty)
  OBVIOUS
<1>2. PICK n \in Nat : n = Len(ty) /\ n >= 2
  BY DEF IsVec
<1>3. el = SubSeq(ty, 2, n - 1) /\ DOMAIN el = 1 .. n - 2 /\ \A i \in 1 .. n - 2 : el[i] = ty[i + 1]
  BY <1>1, <1>2 DEF Element
<1>4. \A i \in 1 .. n - 2 : i + 1 \in DOMAIN ty
  BY <1>2
<1> QED BY <1>1, <1>3, <1>4 DEF NoString

LEMMA DecodedVec ==
  ASSUME NEW T, NEW ty \in T, ty \in Seq(STRING), IsVec(ty), Decodable(T, Element(ty)),
         NEW r, IsReader(r), r.ok
  PROVE  Decoded(T, ty, r, DecodeStep(ty, r))
<1>0. ty # <<"u128">> /\ ty # <<"AlkaneId">> /\ ty # <<"String">>
  BY DEF IsVec
<1>1. CASE r.rest = <<>>
  <2>1. DecodeStep(ty, r) = Fails(r)
    BY <1>0, <1>1 DEF DecodeStep, Decoding
  <2> QED BY <2>1, DecodedFails
<1>2. CASE r.rest # <<>>
  <2>1. PICK w \in Words : w = r.rest[1]
    BY <1>2, BegunParts
  <2>2. w \in Nat
    BY WordsAreNumbers
  <2>3. PICK n \in Nat : n = VecLength(w) /\ (w < USize => n = w)
    <3>1. w % USize \in Nat /\ (w < USize => w % USize = w)
      BY <2>2, WordAssumption
    <3> QED BY <3>1 DEF VecLength
  <2>4. PICK tys : tys = [i \in 1 .. n |-> Element(ty)]
    OBVIOUS
  <2>5. PICK b : b = Begun(r, n)
    OBVIOUS
  <2>6. /\ IsReader(b) /\ b.ok = r.ok /\ b.v = <<>> /\ Sum(r) = Sum(b) + 1
        /\ r.rest = <<w>> \o b.rest
    BY <1>2, <2>1, <2>5, BegunParts
  <2>7. PICK g : ReadsOn(g, n, TRUE, tys, b) /\ DecodeStep(ty, r) = g[n]
    <3>1. n = VecLength(r.rest[1])
      BY <2>1, <2>3
    <3>2. \E g : ReadsOn(g, n, TRUE, tys, Begun(r, n)) /\ DecodeStep(ty, r) = g[n]
      BY ONLY <1>2, <2>4, <3>1, n \in Nat, IsVec(ty), VecReads
    <3> QED BY <2>5, <3>2
  <2>8. PICK e : e = g[n]
    OBVIOUS
  <2>9. Position(T, TRUE, tys, b, n, e)
    <3>1. \A i \in 1 .. n : Decodable(T, tys[i])
      BY <2>4
    <3> QED BY <2>6, <2>7, <2>8, <3>1, Chain
  <2>10. IsReader(e) /\ Sum(e) <= Sum(b) + 1 /\ (e.ok => Sum(e) <= Sum(b)) /\ (e.ok => IsTuple(e.v, n))
    BY <2>9 DEF Position
  <2>11. Sum(b) \in Nat /\ Sum(e) \in Nat /\ Sum(r) \in Nat
    BY <2>6, <2>10, SumType
  <2>12. Sum(e) <= Sum(r) /\ (e.ok => Sum(e) < Sum(r))
    BY <2>6, <2>10, <2>11
  <2>13. ASSUME e.ok, NoString(ty), Encodes(T)
         PROVE  \E all \in Seq(Words) : /\ r.rest = all \o e.rest
                                        /\ ClientWords(ty, e.v) = all \/ (IsVec(ty) /\ Cut(all))
    <3>1. \A i \in 1 .. n : NoString(tys[i])
      BY <2>4, <2>13, NoStringElement
    <3>2. PICK ws \in Seq(Words) : b.rest = ws \o e.rest /\ Said(tys, n, e.v, ws)
      BY <2>9, <2>13, <3>1 DEF Position
    <3>3. <<w>> \in Seq(Words)
      OBVIOUS
    <3>4. PICK all \in Seq(Words) : all = <<w>> \o ws
      <4>1. <<w>> \o ws \in Seq(Words)
        BY <3>3, ConcatProperties
      <4> QED BY <4>1
    <3>5. r.rest = all \o e.rest
      <4>1. e.rest \in Seq(Words)
        BY <2>10 DEF IsReader
      <4>2. \A c \in Seq(Words) : (<<w>> \o ws) \o c = <<w>> \o (ws \o c)
        BY <3>3, ConcatAssociative
      <4> QED BY <2>6, <3>2, <3>4, <4>1, <4>2
    <3>6. CASE Cut(ws) \/ w >= USize
      <4>1. w >= USize => Cut(<<w>>)
        BY DEF Cut
      <4>2. Cut(all)
        BY <3>3, <3>4, <3>6, <4>1, CutMore
      <4> QED BY <3>5, <4>2
    <3>7. CASE ~Cut(ws) /\ ~(w >= USize)
      <4>1. FlattenSeq(Encodings(tys, n, e.v)) = ws
        BY <3>2, <3>7 DEF Said
      <4>2. n = w
        BY <2>2, <2>3, <3>7, WordAssumption
      <4>3. Len(e.v) = n /\ DOMAIN e.v = 1 .. n
        BY <2>10, <2>13, TupleSeq
      <4>4. Encodings(tys, n, e.v) = [i \in DOMAIN e.v |-> ClientWords(Element(ty), e.v[i])]
        BY <2>4, <4>3 DEF Encodings
      <4>5. ClientWords(ty, e.v) = EncodesAs(ty, e.v)
        BY <1>0, <2>13 DEF Encodes, EncodesValue
      <4>6. EncodesAs(ty, e.v) = <<w>> \o ws
        BY <1>0, <4>1, <4>2, <4>3, <4>4 DEF EncodesAs
      <4> QED BY <3>4, <3>5, <4>5, <4>6
    <3> QED BY <3>6, <3>7
  <2>14. Decoded(T, ty, r, e)
    BY <2>10, <2>12, <2>13 DEF Decoded, Sum
  <2> QED BY <2>7, <2>8, <2>14
<1> QED BY <1>1, <1>2

(* By the length of types: no shortest type is decoded otherwise.          *)
LEMMA AllDecodable ==
  ASSUME NEW T, Legacy(T), Decodes(T)
  PROVE  \A ty \in T : Decodable(T, ty)
<1>1. SUFFICES ASSUME NEW bad \in T, ~Decodable(T, bad)  PROVE FALSE
  OBVIOUS
<1>2. PICK L : L = {Len(ty) : ty \in {t \in T : ~Decodable(T, t)}}
  OBVIOUS
<1>3. L \in SUBSET Nat /\ L # {}
  BY <1>1, <1>2 DEF Legacy
<1>4. PICK m \in L : \A k \in L : m <= k
  BY <1>3, Smallest
<1>5. PICK ty \in T : ~Decodable(T, ty) /\ m = Len(ty)
  BY <1>2, <1>4
<1>6. PICK r : IsReader(r) /\ r.ok /\ ~Decoded(T, ty, r, Decode(ty, r))
  BY <1>5 DEF Decodable
<1>7. Decode(ty, r) = DecodeStep(ty, r)
  BY DEF Decodes
<1>8. CASE ty = <<"u128">>
  <2>1. DecodeStep(ty, r) = DecodeWord(r)
    BY <1>8 DEF DecodeStep, Decoding, IsVec
  <2> QED BY <1>6, <1>7, <1>8, <2>1, DecodedWord
<1>9. CASE ty = <<"AlkaneId">>
  <2>1. DecodeStep(ty, r) = DecodeId(r)
    BY <1>9 DEF DecodeStep, Decoding, IsVec
  <2> QED BY <1>6, <1>7, <1>9, <2>1, DecodedId
<1>10. CASE ty = <<"String">>
  <2>1. DecodeStep(ty, r) = DecodeString(r)
    BY <1>10 DEF DecodeStep, Decoding, IsVec
  <2> QED BY <1>6, <1>7, <1>10, <2>1, DecodedString
<1>11. CASE IsVec(ty) /\ Element(ty) \in T
  <2>1. ty \in Seq(STRING)
    BY DEF Legacy
  <2>2. PICK el \in T : el = Element(ty)
    BY <1>11
  <2>3. Len(el) = Len(ty) - 2 /\ Len(ty) \in Nat
    <3>1. PICK n \in Nat : n = Len(ty) /\ n >= 2
      BY <1>11, <2>1 DEF IsVec
    <3>2. el = SubSeq(ty, 2, n - 1)
      BY <2>2, <3>1 DEF Element
    <3>3. Len(el) = n - 2
      BY <2>1, <3>1, <3>2
    <3> QED BY <3>1, <3>3
  <2>4. ~(Len(el) \in L)
    BY <1>3, <1>4, <1>5, <2>3
  <2>5. Decodable(T, el)
    BY <1>2, <2>4
  <2> QED BY <1>6, <1>7, <1>11, <2>1, <2>2, <2>5, DecodedVec
<1> QED BY <1>8, <1>9, <1>10, <1>11 DEF Legacy

----------------------------------------------------------------------------
(* What from_opcode reads of a call *)

(* r is a reader of words ws: of what it has read of them, as arguments of *)
(* the method m, the client would say the same.                            *)
Heard(T, m, ws, r) ==
  /\ IsReader(r)
  /\ Sum(r) <= Len(ws)
  /\ r.ok /\ ~m.borsh /\ ~HasType("String", m) /\ Encodes(T) =>
       \E n \in Nat, read \in Seq(Words) :
         /\ DOMAIN m.fields = 1 .. n /\ \A i \in 1 .. n : m.fields[i][2] \in Seq(STRING)
         /\ ws = read \o r.rest /\ Said(ParamTypes(m), n, r.v, read)

LEMMA FieldsHeard ==
  ASSUME NEW T, Legacy(T), Decodes(T), NEW m, NEW n \in Nat, DOMAIN m.fields = 1 .. n,
         \A j \in 1 .. n : m.fields[j][2] \in T, NEW ws \in Seq(Words)
  PROVE  Heard(T, m, ws, DecodeFields(ParamTypes(m), ws))
<1>1. PICK tys : tys = ParamTypes(m)
  OBVIOUS
<1>2. tys \in [1 .. n -> T] /\ Len(tys) = n /\ \A i \in 1 .. n : tys[i] = m.fields[i][2]
  BY <1>1 DEF ParamTypes
<1>3. PICK g : ReadsOn(g, n, FALSE, tys, Reader(ws)) /\ DecodeFields(tys, ws) = g[n]
  <2>1. Len(tys) = n
    BY <1>2
  <2>2. ReadFields(n, tys, ws)
    BY <2>1, FieldsRead
  <2> QED BY <2>2 DEF ReadFields
<1>4. PICK r, e : r = Reader(ws) /\ e = g[n]
  OBVIOUS
<1>5. IsReader(r) /\ r.v = <<>> /\ r.rest = ws /\ r.elems = 0
  BY <1>4, ReaderStarts
<1>6. Position(T, FALSE, tys, r, n, e)
  <2>1. \A i \in 1 .. n : Decodable(T, tys[i])
    BY <1>2, AllDecodable
  <2> QED BY <1>3, <1>4, <1>5, <2>1, Chain
<1>7. Sum(r) = Len(ws)
  BY <1>5 DEF Sum
<1>8. IsReader(e) /\ Sum(e) <= Len(ws)
  <2>1. Sum(e) <= Sum(r) + 0
    BY <1>6 DEF Position
  <2> QED BY <1>6, <1>7, <2>1 DEF Position
<1>9. ASSUME e.ok, ~HasType("String", m), Encodes(T)
      PROVE  \E read \in Seq(Words) : ws = read \o e.rest /\ Said(tys, n, e.v, read)
  <2>1. ASSUME NEW i \in 1 .. n  PROVE NoString(tys[i])
    BY <1>2, <1>9 DEF NoString, HasType
  <2> QED BY <1>5, <1>6, <1>9, <2>1 DEF Position
<1>10. \A i \in 1 .. n : m.fields[i][2] \in Seq(STRING)
  BY DEF Legacy
<1> QED BY <1>1, <1>3, <1>4, <1>8, <1>9, <1>10 DEF Heard

LEMMA OpcodeHeard ==
  ASSUME NEW T, Legacy(T), Decodes(T), Declares(T), NEW b \in Builds, NEW op, NEW ws \in Seq(Words)
  PROVE  Heard(T, Arm(b, op), ws, FromOpcode(b, op, ws))
<1>1. PICK m, r : m = Arm(b, op) /\ r = FromOpcode(b, op, ws)
  OBVIOUS
<1>2. /\ IsReader(Reader(ws)) /\ Reader(ws).rest = ws /\ Reader(ws).elems = 0 /\ Len(ws) \in Nat
  BY ReaderStarts
<1>3. CASE r = Fails(Reader(ws))
  <2>1. IsReader(r) /\ ~r.ok /\ r.rest = ws /\ r.elems = 0
    BY <1>2, <1>3, ReaderFails
  <2> QED BY <1>1, <1>2, <2>1 DEF Heard, Sum
<1>4. CASE m # Missing /\ r # Fails(Reader(ws))
  <2>1. PICK arms : arms = {i \in DOMAIN b.declared : b.declared[i].opcode = op}
    OBVIOUS
  <2>2. arms # {} /\ m = b.declared[Min(arms)]
    BY <1>1, <1>4, <2>1 DEF Arm
  <2>3. PICK i \in DOMAIN b.declared : m = b.declared[i]
    <3>1. arms \in SUBSET Nat
      BY <2>1 DEF Declares
    <3>2. Min(arms) \in arms
      BY <2>2, <3>1, MinIsMember
    <3> QED BY <2>1, <2>2, <3>2
  <2>4. m.borsh \in BOOLEAN
    BY <2>3 DEF Declares
  <2>5. CASE ~m.borsh
    <3>1. r = DecodeFields(ParamTypes(m), ws)
      BY <1>1, <1>4, <2>5 DEF FromOpcode
    <3>2. PICK n \in Nat : DOMAIN m.fields = 1 .. n /\ \A j \in 1 .. n : m.fields[j][2] \in T
      <4>1. /\ Len(m.fields) \in Nat /\ DOMAIN m.fields = 1 .. Len(m.fields)
            /\ \A j \in DOMAIN m.fields : m.fields[j][2] \in T
        BY <2>3, <2>5 DEF Declares
      <4> QED BY <4>1
    <3> QED BY <1>1, <3>1, <3>2, FieldsHeard
  <2>6. CASE m.borsh
    <3>1. PICK v : r = Reads(Reader(ws), Len(ws), v)
      BY <1>1, <1>4, <2>6 DEF FromOpcode
    <3>2. Took(Reader(ws), ws, v, r)
      <4>1. PICK q : q = Reader(ws)
        OBVIOUS
      <4>2. PICK n \in 0 .. Len(q.rest) : n = Len(ws)
        BY <1>2, <4>1
      <4>3. r = Reads(q, n, v) /\ Len(ws) = n /\ \A j \in 1 .. n : ws[j] = q.rest[j]
        BY <1>2, <3>1, <4>1, <4>2
      <4>4. IsReader(q)
        BY <1>2, <4>1
      <4>5. Took(q, ws, v, r)
        BY ONLY <4>3, <4>4, n \in 0 .. Len(q.rest), ws \in Seq(Words), ReaderReads
      <4> QED BY <4>1, <4>5
    <3>3. IsReader(r) /\ r.elems = 0 /\ Len(ws) = Len(ws) + Len(r.rest)
      BY <1>2, <3>2 DEF Took
    <3>4. Len(r.rest) \in Nat
      BY <3>3 DEF IsReader
    <3>5. Sum(r) <= Len(ws)
      BY <1>2, <3>3, <3>4 DEF Sum
    <3> QED BY <1>1, <2>6, <3>3, <3>5 DEF Heard
  <2> QED BY <2>4, <2>5, <2>6
<1>5. m = Missing => r = Fails(Reader(ws))
  BY <1>1 DEF FromOpcode
<1> QED BY <1>3, <1>4, <1>5

----------------------------------------------------------------------------
(* Calls *)

CallFields == {"phase", "by", "method", "input", "witness", "opcode", "words", "tx", "reader",
               "payload", "value", "data"}

(* What has been read of the call in progress is what from_opcode of the   *)
(* build that is deployed reads of its words.                              *)
CallInv ==
  /\ wasm \in Builds
  /\ call = NoCall \/
       /\ DOMAIN call = CallFields
       /\ call.words \in Seq(Words)
       /\ call.phase \in {"sent", "handled", "rejected", "answered"}
       /\ call.phase # "sent" => call.reader = FromOpcode(wasm, call.opcode, call.words)
       /\ call.phase = "handled" => call.reader.ok

LEMMA NoCallPhase == NoCall.phase = "none"
BY DEF NoCall

LEMMA CallStarts == CallInit => CallInv
BY DEF CallInit, ExtractInit, CallInv

LEMMA BuildStays == wasm \in Builds /\ [Extract]_runVars => wasm' \in Builds
<1> SUFFICES ASSUME wasm \in Builds, [Extract]_runVars  PROVE wasm' \in Builds
  OBVIOUS
<1>1. CASE Rebuild
  BY <1>1 DEF Rebuild
<1>2. CASE UNCHANGED wasm
  BY <1>2
<1>3. Extract => Rebuild \/ UNCHANGED wasm
  BY DEF Extract, Start, CallMeta, Parse, Attach, MakeDir, Open, Fill, Quit
<1> QED BY <1>1, <1>2, <1>3 DEF runVars

LEMMA HandleKeeps == ASSUME CallInv, Handle  PROVE CallInv'
<1>1. /\ call # NoCall /\ DOMAIN call = CallFields /\ call.words \in Seq(Words) /\ wasm' = wasm
  BY NoCallPhase DEF CallInv, Handle, runVars
<1>2. PICK r, w : /\ r = FromOpcode(wasm, call.opcode, call.words) /\ r.ok
                  /\ call' = [call EXCEPT !.phase = "handled", !.reader = r, !.payload = w]
  BY DEF Handle
<1>3. /\ DOMAIN call' = CallFields /\ call'.phase = "handled" /\ call'.reader = r
      /\ call'.words = call.words /\ call'.opcode = call.opcode
  BY <1>1, <1>2 DEF CallFields
<1> QED BY <1>1, <1>2, <1>3 DEF CallInv

LEMMA RejectKeeps == ASSUME CallInv, Reject  PROVE CallInv'
<1>1. /\ call # NoCall /\ DOMAIN call = CallFields /\ call.words \in Seq(Words) /\ wasm' = wasm
  BY NoCallPhase DEF CallInv, Reject, runVars
<1>2. PICK r : /\ r = FromOpcode(wasm, call.opcode, call.words)
               /\ call' = [call EXCEPT !.phase = "rejected", !.reader = r]
  BY DEF Reject
<1>3. /\ DOMAIN call' = CallFields /\ call'.phase = "rejected" /\ call'.reader = r
      /\ call'.words = call.words /\ call'.opcode = call.opcode
  BY <1>1, <1>2 DEF CallFields
<1> QED BY <1>1, <1>2, <1>3 DEF CallInv

LEMMA AnswerKeeps == ASSUME CallInv, Answer  PROVE CallInv'
<1>1. /\ call # NoCall /\ DOMAIN call = CallFields /\ call.words \in Seq(Words) /\ wasm' = wasm
      /\ call.reader = FromOpcode(wasm, call.opcode, call.words)
  BY NoCallPhase DEF CallInv, Answer, runVars
<1>2. PICK v, d : call' = [call EXCEPT !.phase = "answered", !.value = v, !.data = d]
  BY DEF Answer
<1>3. /\ DOMAIN call' = CallFields /\ call'.phase = "answered" /\ call'.reader = call.reader
      /\ call'.words = call.words /\ call'.opcode = call.opcode
  BY <1>1, <1>2 DEF CallFields
<1> QED BY <1>1, <1>3 DEF CallInv

LEMMA ReceiveKeeps == ASSUME CallInv, Receive  PROVE CallInv'
<1>1. PICK by, m, v, w, op, tx : \E ws \in Seq(Words) : call' = Call(by, m, v, w, op, ws, tx)
  BY DEF Receive
<1>2. PICK ws \in Seq(Words) : call' = Call(by, m, v, w, op, ws, tx)
  BY <1>1
<1>3. DOMAIN call' = CallFields /\ call'.phase = "sent" /\ call'.words = ws
  BY <1>2 DEF Call, CallFields
<1>4. wasm' \in Builds
  BY DEF CallInv, Receive, runVars
<1> QED BY <1>3, <1>4 DEF CallInv

LEMMA CallKeeps == CallInv /\ [CallNext]_callVars => CallInv'
<1> SUFFICES ASSUME CallInv, [CallNext]_callVars  PROVE CallInv'
  OBVIOUS
<1>1. CASE call = NoCall /\ Extract /\ UNCHANGED call
  BY <1>1, BuildStays DEF CallInv
<1>2. CASE Receive
  BY <1>2, ReceiveKeeps
<1>3. CASE Handle
  BY <1>3, HandleKeeps
<1>4. CASE Reject
  BY <1>4, RejectKeeps
<1>5. CASE Answer
  BY <1>5, AnswerKeeps
<1>6. CASE Close
  BY <1>6 DEF Close, CallInv, runVars
<1>7. CASE UNCHANGED callVars
  BY <1>7 DEF callVars, runVars, CallInv
<1> QED BY <1>1, <1>2, <1>3, <1>4, <1>5, <1>6, <1>7 DEF CallNext, Contract

(* Whatever calldata a contract is sent, as long and as false as it may    *)
(* be: decoding it makes no more elements than it has words, and never     *)
(* reserves room for more than Reserve at once (LegacyDecode), for all     *)
(* builds and types of fields, vectors of any depth included.              *)
THEOREM BoundedDecoding ==
  ASSUME NEW T, Legacy(T), Decodes(T), Declares(T)
  PROVE  CallSpec => []DecodesBounded
<1>1. CallInv => DecodesBounded
  <2> SUFFICES ASSUME CallInv, call.phase \in {"handled", "rejected"}
               PROVE  call.reader.elems <= Len(call.words) /\ call.reader.room <= Reserve
    BY DEF DecodesBounded
  <2>1. /\ wasm \in Builds /\ call.words \in Seq(Words)
        /\ call.reader = FromOpcode(wasm, call.opcode, call.words)
    BY NoCallPhase DEF CallInv
  <2>2. PICK r : r = call.reader
    OBVIOUS
  <2>3. IsReader(r) /\ Sum(r) <= Len(call.words)
    BY <2>1, <2>2, OpcodeHeard DEF Heard
  <2>4. r.elems \in Nat /\ Len(r.rest) \in Nat /\ r.room \in 0 .. Reserve /\ Len(call.words) \in Nat
    BY <2>1, <2>3 DEF IsReader
  <2>5. r.elems <= Len(call.words) /\ r.room <= Reserve
    BY <2>3, <2>4, WordAssumption DEF Sum
  <2> QED BY <2>2, <2>5
<1> QED BY <1>1, CallStarts, CallKeeps, PTL DEF CallSpec

LEMMA FirstWords ==
  ASSUME NEW S, NEW a \in Seq(S), NEW b \in Seq(S)
  PROVE  SubSeq(a \o b, 1, Len(a \o b) - Len(b)) = a
<1>1. PICK m \in Nat : m = Len(a) /\ Len(a \o b) - Len(b) = m
  BY ConcatProperties
<1>2. PICK s : s = SubSeq(a \o b, 1, m)
  OBVIOUS
<1>3. \A i \in 1 .. m : (a \o b)[i] = a[i] /\ a[i] \in S
  BY <1>1
<1>4. s \in Seq(S) /\ Len(s) = m /\ \A i \in 1 .. m : s[i] = a[i]
  BY <1>1, <1>2, <1>3
<1>5. s = a
  BY <1>1, <1>4, SeqEqual
<1> QED BY <1>1, <1>2, <1>5

(* A contract decodes calldata to the one value that a client would send   *)
(* in those very words, or a length was cut (DecodeInverts): for   *)
(* all builds and all types of fields, and every client that encodes as    *)
(* EncodesAs says.                                                         *)
THEOREM InvertedDecoding ==
  ASSUME NEW T, Legacy(T), Decodes(T), Declares(T), Encodes(T)
  PROVE  CallSpec => []DecodeInverts
<1>1. CallInv => DecodeInverts
  <2> SUFFICES ASSUME CallInv, call.phase = "handled", ~Handler.borsh, ~HasType("String", Handler)
               PROVE  DecodeInverts
    BY DEF DecodeInverts
  <2>1. PICK ws, r, m : ws = call.words /\ r = call.reader /\ m = Handler
    OBVIOUS
  <2>2. /\ wasm \in Builds /\ ws \in Seq(Words) /\ r.ok
        /\ r = FromOpcode(wasm, call.opcode, ws) /\ m = Arm(wasm, call.opcode)
    BY <2>1, NoCallPhase DEF CallInv, Handler
  <2>3. Heard(T, m, ws, r)
    BY <2>2, OpcodeHeard
  <2>4. PICK n \in Nat, read \in Seq(Words) :
          /\ DOMAIN m.fields = 1 .. n /\ \A i \in 1 .. n : m.fields[i][2] \in Seq(STRING)
          /\ ws = read \o r.rest /\ Said(ParamTypes(m), n, r.v, read)
    BY <2>1, <2>2, <2>3 DEF Heard
  <2>5. SubSeq(ws, 1, Len(ws) - Len(r.rest)) = read
    <3>1. r.rest \in Seq(Words)
      BY <2>3 DEF Heard, IsReader
    <3> QED BY <2>4, <3>1, FirstWords
  <2>6. PICK tys : tys = ParamTypes(m)
    OBVIOUS
  <2>7. DOMAIN tys = 1 .. n /\ \A i \in 1 .. n : tys[i] = m.fields[i][2]
    BY <2>4, <2>6 DEF ParamTypes
  <2>8. \/ FlattenSeq([i \in DOMAIN tys |-> ClientWords(tys[i], r.v[i])]) = read
        \/ HasType("Vec<", m) /\ \E i \in DOMAIN read : read[i] >= USize
    <3>1. CASE FlattenSeq(Encodings(tys, n, r.v)) = read
      BY <2>7, <3>1 DEF Encodings
    <3>2. CASE Cut(read) /\ \E i \in 1 .. n : IsVec(tys[i])
      <4>1. PICK i \in 1 .. n : IsVec(tys[i])
        BY <3>2
      <4>2. tys[i] = m.fields[i][2] /\ tys[i] \in Seq(STRING) /\ i \in DOMAIN m.fields
        BY <2>4, <2>7
      <4>3. 1 \in DOMAIN tys[i] /\ tys[i][1] = "Vec<"
        BY <4>1, <4>2 DEF IsVec
      <4> QED BY <3>2, <4>2, <4>3 DEF Cut, HasType
    <3> QED BY <2>4, <2>6, <3>1, <3>2 DEF Said
  <2> QED BY <2>1, <2>5, <2>6, <2>8 DEF DecodeInverts
<1> QED BY <1>1, CallStarts, CallKeeps, PTL DEF CallSpec
=============================================================================
