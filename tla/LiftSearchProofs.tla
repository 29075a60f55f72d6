-------------------------- MODULE LiftSearchProofs ---------------------------
(***************************************************************************)
(* That the search of lift_view repeats no run, hands the verification the *)
(* widths of the run it lifted, and misses no method that only traps on    *)
(* widths, for every set of keys and any number of archetypes, attempts.   *)
(***************************************************************************)
EXTENDS LiftSearch, FiniteSetTheorems, TLAPS

MethodInv == method \in Methods

(* A narrowed key is at its last width.                                    *)
NarrowInv == \A k \in DOMAIN widths : widths[k] = 8

(* A run made before under this archetype had some key, narrowed since, at *)
(* its full width.                                                         *)
SeenInv ==
  \A i \in 1 .. Len(seen) :
    /\ seen[i][1] <= base
    /\ lift = NoLift /\ seen[i][1] = base =>
         \E k \in DOMAIN widths : seen[i][2][k] = 16

LiftInv ==
  lift # NoLift =>
    /\ seen # <<>>
    /\ seen[Len(seen)] = <<lift.base, Served(lift.widths)>>
    /\ RunOf(method, lift.base, Served(lift.widths)).end = "data"

DrawnInv ==
  \A k \in DOMAIN drawn : lift # NoLift /\ drawn[k] = DrawWidth(lift.widths, k)

(* As many keys are narrowed as attempts were made.                        *)
CountInv == Cardinality(DOMAIN widths) = attempts

Deserializers == [Keys -> (SUBSET WidthSet) \ {{}}]

(* The narrowed keys of a method that only traps on widths are narrow, and *)
(* an archetype under which it is one was left for want of attempts.       *)
MissInv ==
  \A b \in 1 .. Archetypes : \A accepts \in Deserializers :
    Decodes(b, accepts) =>
      /\ b = base => DOMAIN widths \subseteq NarrowKeys(accepts)
      /\ b < base /\ lift = NoLift => Cardinality(NarrowKeys(accepts)) >= MaxAttempts

IInv ==
  /\ TypeOK /\ MethodInv /\ NarrowInv /\ SeenInv
  /\ LiftInv /\ DrawnInv /\ CountInv /\ MissInv /\ NoRunTwice

(* No candidate lies beyond the second, so a key is narrowed once.         *)
LEMMA CandidateFacts ==
  /\ Len(WidthCandidates) = 2 /\ WidthCandidates[1] = 16 /\ WidthCandidates[2] = 8
  BY DEF WidthCandidates

LEMMA ServedType ==
  ASSUME NEW ws \in PartialWidths
  PROVE  Served(ws) \in AllWidths
<1>1. ASSUME NEW k \in Keys  PROVE WidthOf(ws, k) \in WidthSet
  BY CandidateFacts DEF WidthOf, PartialWidths, WidthSet
<1> QED BY <1>1 DEF Served, AllWidths

LEMMA PutType ==
  ASSUME NEW f \in PartialWidths, NEW k \in Keys, NEW v \in WidthSet
  PROVE  /\ Put(f, k, v) \in PartialWidths
         /\ DOMAIN Put(f, k, v) = DOMAIN f \cup {k}
<1>1. PICK D \in SUBSET Keys : f \in [D -> WidthSet]
  BY DEF PartialWidths
<1>2. Put(f, k, v) \in [D \cup {k} -> WidthSet]
  BY <1>1 DEF Put
<1>3. D \cup {k} \in SUBSET Keys
  BY <1>1
<1> QED BY <1>1, <1>2, <1>3 DEF PartialWidths

(* The run of an attempt, in a state of the right type.                    *)
LEMMA RunType ==
  ASSUME TypeOK, MethodInv, base <= Archetypes
  PROVE  /\ Run \in Runs
         /\ Served(widths) \in AllWidths
         /\ base \in 1 .. Archetypes
<1>1. base \in 1 .. Archetypes
  BY BoundsAssumption DEF TypeOK
<1>2. Served(widths) \in AllWidths
  BY ServedType DEF TypeOK
<1> QED BY <1>1, <1>2, MethodAssumption DEF Run, MethodInv

(* What narrowing does, told without reference to the next state of order. *)
LEMMA NarrowFacts ==
  ASSUME TypeOK, MethodInv, Narrow
  PROVE  \E k \in Keys :
           /\ Run.end = "trap" /\ Run.read # <<>> /\ k = Run.read[Len(Run.read)]
           /\ k \notin DOMAIN widths
           /\ widths' = Put(widths, k, 8) /\ cand_idx' = Put(cand_idx, k, 1)
<1> DEFINE k == Run.read[Len(Run.read)]
<1>1. Run \in Runs
  BY RunType DEF Narrow, Attempt
<1>2. order' = Run.read /\ Run.end = "trap" /\ Run.read # <<>>
  BY DEF Narrow, Attempt
<1>3. LastKey = k
  BY <1>2 DEF LastKey
<1>4. k \in Keys
  BY <1>1, <1>2 DEF Runs
<1>5. /\ NextCandidate(k) < 2
      /\ cand_idx' = Put(cand_idx, k, NextCandidate(k))
      /\ widths' = Put(widths, k, WidthCandidates[NextCandidate(k) + 1])
  BY <1>3, CandidateFacts DEF Narrow
<1>6. k \notin DOMAIN widths
  BY <1>5 DEF NextCandidate, TypeOK
<1>7. NextCandidate(k) = 1
  BY <1>6 DEF NextCandidate, TypeOK
<1> QED BY <1>2, <1>4, <1>5, <1>6, <1>7, CandidateFacts

LEMMA EmptyType ==
  /\ Empty \in PartialWidths /\ DOMAIN Empty = {}
  /\ Empty \in [DOMAIN Empty -> {1}]
<1>1. Empty \in [{} -> WidthSet]
  BY DEF Empty
<1> QED BY <1>1 DEF PartialWidths, Empty

LEMMA TypeInit == Init => TypeOK
  BY EmptyType, BoundsAssumption DEF Init, TypeOK

(* An attempt keeps what it touches of the right type.                     *)
LEMMA AttemptType ==
  ASSUME TypeOK, MethodInv, Attempt
  PROVE  /\ order' \in Seq(Keys)
         /\ seen' \in Seq((1 .. Archetypes) \X AllWidths)
         /\ Len(seen') = Len(seen) + 1
         /\ seen'[Len(seen')] = <<base, Served(widths)>>
         /\ \A i \in 1 .. Len(seen) : seen'[i] = seen[i]
         /\ lift = NoLift /\ base \in 1 .. Archetypes
         /\ drawn' = drawn /\ method' = method
<1>1. Run \in Runs /\ Served(widths) \in AllWidths /\ base \in 1 .. Archetypes
  BY RunType DEF Attempt
<1>2. <<base, Served(widths)>> \in (1 .. Archetypes) \X AllWidths
  BY <1>1
<1>3. seen \in Seq((1 .. Archetypes) \X AllWidths)
  BY DEF TypeOK
<1>4. seen' = Append(seen, <<base, Served(widths)>>)
  BY DEF Attempt
<1>5. order' \in Seq(Keys)
  BY <1>1 DEF Attempt, Runs
<1> HIDE DEF Served
<1> QED BY <1>1, <1>2, <1>3, <1>4, <1>5 DEF Attempt

LEMMA TypeStep ==
  ASSUME TypeOK, MethodInv, [Next]_vars
  PROVE  TypeOK' /\ MethodInv'
<1>1. CASE Lifted
  <2>1. lift' \in Lifts
    <3>1. Run \in Runs /\ base \in 1 .. Archetypes
      BY <1>1, RunType DEF Lifted, Attempt
    <3>2. lift' = [base |-> base, widths |-> widths, read |-> Run.read]
      BY <1>1 DEF Lifted
    <3>3. widths \in PartialWidths /\ Run.read \in Seq(Keys)
      BY <3>1 DEF TypeOK, Runs
    <3> QED BY <3>1, <3>2, <3>3 DEF Lifts
  <2> QED BY <1>1, <2>1, AttemptType DEF Lifted, TypeOK, MethodInv
<1>2. CASE Fruitless \/ TrapsUnread \/ Exhausted
  <2>1. Attempt /\ NextArchetype
    BY <1>2 DEF Fruitless, TrapsUnread, Exhausted
  <2>2. base' \in 1 .. Archetypes + 1 /\ attempts' \in 0 .. MaxAttempts
    BY <2>1, AttemptType, BoundsAssumption DEF NextArchetype
  <2> QED BY <2>1, <2>2, AttemptType, EmptyType DEF NextArchetype, TypeOK, MethodInv
<1>3. CASE Narrow
  <2>1. Attempt
    BY <1>3 DEF Narrow
  <2>2. PICK k \in Keys :
          /\ k \notin DOMAIN widths
          /\ widths' = Put(widths, k, 8) /\ cand_idx' = Put(cand_idx, k, 1)
    BY <1>3, NarrowFacts
  <2>3. widths' \in PartialWidths /\ DOMAIN widths' = DOMAIN widths \cup {k}
    BY <2>2, PutType DEF TypeOK, WidthSet
  <2>4. cand_idx' \in [DOMAIN widths' -> {1}]
    BY <2>2, <2>3 DEF TypeOK, Put
  <2>5. attempts' \in 0 .. MaxAttempts /\ base' = base /\ lift' = lift
    BY <1>3, BoundsAssumption DEF Narrow, Attempt, TypeOK
  <2> QED BY <2>1, <2>3, <2>4, <2>5, AttemptType DEF TypeOK, MethodInv
<1>4. CASE OutOfAttempts
  <2>1. base' \in 1 .. Archetypes + 1 /\ attempts' \in 0 .. MaxAttempts
    BY <1>4, BoundsAssumption DEF OutOfAttempts, NextArchetype, TypeOK
  <2> QED BY <1>4, <2>1, EmptyType DEF OutOfAttempts, NextArchetype, TypeOK, MethodInv
<1>5. ASSUME NEW populated \in SUBSET Keys, DrawTrial(populated)
      PROVE  TypeOK' /\ MethodInv'
  <2>1. PICK D \in SUBSET Keys : lift.widths \in [D -> WidthSet]
    BY <1>5 DEF DrawTrial, TypeOK, Lifts, PartialWidths
  <2>2. drawn' \in [populated -> WidthSet]
    BY <1>5, <2>1, CandidateFacts DEF DrawTrial, DrawWidth, WidthSet
  <2>3. drawn' \in PartialWidths
    BY <2>2 DEF PartialWidths
  <2> QED BY <1>5, <2>3 DEF DrawTrial, TypeOK, MethodInv
<1>6. CASE UNCHANGED vars
  BY <1>6 DEF vars, TypeOK, MethodInv
<1> QED BY <1>1, <1>2, <1>3, <1>4, <1>5, <1>6 DEF Next, Search

(* TypeOK is an invariant: indices and widths stay in step, every key is   *)
(* narrowed at most once (lift_view's widths, cand_idx).                   *)
THEOREM TypeCorrect == Spec => []TypeOK
<1>1. Init => TypeOK /\ MethodInv
  BY TypeInit DEF Init, MethodInv
<1>2. TypeOK /\ MethodInv /\ [Next]_vars => (TypeOK /\ MethodInv)'
  BY TypeStep
<1> QED BY <1>1, <1>2, PTL DEF Spec

----------------------------------------------------------------------------
(* The steps that leave an archetype start the next with no key narrowed.  *)
LEMMA LeaveFacts ==
  ASSUME TypeOK, Fruitless \/ TrapsUnread \/ Exhausted \/ OutOfAttempts
  PROVE  /\ widths' = Empty /\ DOMAIN widths' = {}
         /\ base' = base + 1 /\ attempts' = 0
         /\ lift = NoLift /\ lift' = NoLift
         /\ drawn' = drawn /\ method' = method /\ base \in Nat
  BY EmptyType, BoundsAssumption
  DEF Fruitless, TrapsUnread, Exhausted, OutOfAttempts, NextArchetype, Attempt, TypeOK

LEMMA NarrowStep ==
  ASSUME TypeOK, MethodInv, NarrowInv, CountInv, [Next]_vars
  PROVE  NarrowInv' /\ CountInv'
<1>1. CASE Fruitless \/ TrapsUnread \/ Exhausted \/ OutOfAttempts
  BY <1>1, LeaveFacts, FS_EmptySet DEF NarrowInv, CountInv
<1>2. CASE Narrow
  <2>1. PICK k \in Keys : k \notin DOMAIN widths /\ widths' = Put(widths, k, 8)
    BY <1>2, NarrowFacts
  <2>2. DOMAIN widths' = DOMAIN widths \cup {k}
    BY <2>1, PutType DEF TypeOK, WidthSet
  <2>3. NarrowInv'
    BY <2>1, <2>2 DEF NarrowInv, Put
  <2>4. IsFiniteSet(DOMAIN widths)
    <3>1. DOMAIN widths \subseteq Keys
      BY DEF TypeOK, PartialWidths
    <3> QED BY <3>1, BoundsAssumption, FS_Subset
  <2>5. Cardinality(DOMAIN widths \cup {k}) = Cardinality(DOMAIN widths) + 1
    BY <2>1, <2>4, FS_AddElement
  <2>6. attempts' = attempts + 1
    BY <1>2 DEF Narrow
  <2> QED BY <2>2, <2>3, <2>5, <2>6 DEF CountInv
<1>3. CASE Lifted \/ UNCHANGED vars \/ \E populated \in SUBSET Keys : DrawTrial(populated)
  BY <1>3 DEF Lifted, DrawTrial, vars, NarrowInv, CountInv
<1> QED BY <1>1, <1>2, <1>3 DEF Next, Search

(* The run about to be made differs from those before.                     *)
LEMMA AttemptIsNew ==
  ASSUME TypeOK, MethodInv, NarrowInv, SeenInv, Attempt
  PROVE  \A i \in 1 .. Len(seen) : seen[i] # <<base, Served(widths)>>
<1>1. SUFFICES ASSUME NEW i \in 1 .. Len(seen), seen[i] = <<base, Served(widths)>>
               PROVE  FALSE
  OBVIOUS
<1>2. seen[i][1] = base /\ seen[i][2] = Served(widths)
  BY <1>1
<1>3. PICK k \in DOMAIN widths : Served(widths)[k] = 16
  BY <1>2 DEF SeenInv, Attempt
<1>4. k \in Keys
  BY DEF TypeOK, PartialWidths
<1>5. Served(widths)[k] = 8
  BY <1>4 DEF Served, WidthOf, NarrowInv
<1> QED BY <1>3, <1>5

LEMMA SeenStep ==
  ASSUME TypeOK, MethodInv, NarrowInv, SeenInv, [Next]_vars
  PROVE  SeenInv'
<1>1. CASE Fruitless \/ TrapsUnread \/ Exhausted \/ OutOfAttempts
  <2>1. \A i \in 1 .. Len(seen') : seen'[i][1] <= base /\ seen'[i][1] \in Nat
    <3>1. CASE OutOfAttempts
      BY <3>1 DEF OutOfAttempts, SeenInv, TypeOK
    <3>2. CASE Attempt
      <4>1. seen \in Seq((1 .. Archetypes) \X AllWidths) /\ Len(seen) \in Nat
        BY DEF TypeOK
      <4>2. \A i \in 1 .. Len(seen) : seen[i][1] \in Nat
        BY <4>1
      <4>3. base \in Nat
        BY DEF TypeOK
      <4>4. /\ Len(seen') = Len(seen) + 1
            /\ seen'[Len(seen')][1] = base
            /\ \A i \in 1 .. Len(seen) : seen'[i] = seen[i]
        BY <3>2, AttemptType
      <4>5. ASSUME NEW i \in 1 .. Len(seen')
            PROVE  seen'[i][1] <= base /\ seen'[i][1] \in Nat
        <5>1. CASE i = Len(seen')
          BY <4>3, <4>4, <5>1
        <5>2. CASE i \in 1 .. Len(seen)
          BY <4>2, <4>4, <5>2 DEF SeenInv
        <5> QED BY <4>1, <4>4, <5>1, <5>2
      <4> QED BY <4>5
    <3> QED BY <1>1, <3>1, <3>2 DEF Fruitless, TrapsUnread, Exhausted
  <2>2. base' = base + 1 /\ base \in Nat
    BY <1>1, LeaveFacts
  <2>3. ASSUME NEW i \in 1 .. Len(seen')
        PROVE  seen'[i][1] <= base' /\ seen'[i][1] # base'
    BY <2>1, <2>2
  <2> QED BY <2>3 DEF SeenInv
<1>2. CASE Narrow
  <2>1. PICK k \in Keys : k \notin DOMAIN widths /\ widths' = Put(widths, k, 8)
    BY <1>2, NarrowFacts
  <2>2. DOMAIN widths' = DOMAIN widths \cup {k}
    BY <2>1, PutType DEF TypeOK, WidthSet
  <2>3. Served(widths)[k] = 16
    BY <2>1, CandidateFacts DEF Served, WidthOf
  <2>4. base' = base /\ lift' = lift /\ lift = NoLift /\ base \in Nat
    BY <1>2 DEF Narrow, Attempt, TypeOK
  <2>5. Len(seen) \in Nat
    BY DEF TypeOK
  <2>6. /\ Len(seen') = Len(seen) + 1
        /\ seen'[Len(seen')] = <<base, Served(widths)>>
        /\ \A i \in 1 .. Len(seen) : seen'[i] = seen[i]
    BY <1>2, AttemptType DEF Narrow
  <2>7. ASSUME NEW i \in 1 .. Len(seen')
        PROVE  /\ seen'[i][1] <= base
               /\ seen'[i][1] = base => \E j \in DOMAIN widths' : seen'[i][2][j] = 16
    <3>1. CASE i = Len(seen')
      BY <3>1, <2>2, <2>3, <2>4, <2>6
    <3>2. CASE i \in 1 .. Len(seen)
      BY <3>2, <2>2, <2>4, <2>6 DEF SeenInv
    <3> QED BY <2>5, <2>6, <3>1, <3>2
  <2> QED BY <2>4, <2>7 DEF SeenInv
<1>3. CASE Lifted
  <2>1. /\ Len(seen') = Len(seen) + 1 /\ Len(seen) \in Nat
        /\ seen'[Len(seen')][1] = base
        /\ \A i \in 1 .. Len(seen) : seen'[i] = seen[i]
    BY <1>3, AttemptType DEF Lifted, TypeOK
  <2>2. base' = base /\ lift' # NoLift /\ base \in Nat
    <3>1. lift' = [base |-> base, widths |-> widths, read |-> Run.read]
      BY <1>3 DEF Lifted
    <3>2. lift' \in Lifts
      <4>1. Run \in Runs /\ base \in 1 .. Archetypes
        BY <1>3, RunType DEF Lifted, Attempt
      <4> QED BY <3>1, <4>1 DEF Lifts, TypeOK, Runs
    <3> QED BY <1>3, <3>2, NoLiftAssumption DEF Lifted, TypeOK
  <2>3. \A i \in 1 .. Len(seen') : seen'[i][1] <= base
    BY <2>1, <2>2 DEF SeenInv
  <2> QED BY <2>2, <2>3 DEF SeenInv
<1>4. CASE UNCHANGED vars \/ \E populated \in SUBSET Keys : DrawTrial(populated)
  BY <1>4 DEF DrawTrial, vars, SeenInv
<1> QED BY <1>1, <1>2, <1>3, <1>4 DEF Next, Search

LEMMA FreshStep ==
  ASSUME TypeOK, MethodInv, NarrowInv, SeenInv, NoRunTwice, [Next]_vars
  PROVE  NoRunTwice'
<1>1. CASE Attempt
  <2>1. /\ Len(seen') = Len(seen) + 1 /\ Len(seen) \in Nat
        /\ seen'[Len(seen')] = <<base, Served(widths)>>
        /\ \A i \in 1 .. Len(seen) : seen'[i] = seen[i]
    BY <1>1, AttemptType DEF TypeOK
  <2>2. \A i \in 1 .. Len(seen) : seen'[i] # seen'[Len(seen')]
    BY <1>1, <2>1, AttemptIsNew
  <2> QED BY <2>1, <2>2 DEF NoRunTwice
<1>2. CASE seen' = seen
  BY <1>2 DEF NoRunTwice
<1>3. Attempt \/ seen' = seen
  BY DEF Next, Search, Lifted, Fruitless, TrapsUnread, Narrow, Exhausted,
         OutOfAttempts, DrawTrial, vars
<1> QED BY <1>1, <1>2, <1>3

(* What a successful run leaves behind.                                    *)
LEMMA LiftedFacts ==
  ASSUME TypeOK, MethodInv, Lifted
  PROVE  /\ lift' = [base |-> base, widths |-> widths, read |-> Run.read]
         /\ lift' # NoLift /\ lift = NoLift
         /\ base' = base /\ widths' = widths /\ drawn' = drawn
<1>1. lift' = [base |-> base, widths |-> widths, read |-> Run.read]
  BY DEF Lifted
<1>2. Run \in Runs /\ base \in 1 .. Archetypes
  BY RunType DEF Lifted, Attempt
<1>3. lift' \in Lifts
  BY <1>1, <1>2 DEF Lifts, TypeOK, Runs
<1> QED BY <1>1, <1>3, NoLiftAssumption DEF Lifted, Attempt

LEMMA LiftStep ==
  ASSUME TypeOK, MethodInv, LiftInv, DrawnInv, [Next]_vars
  PROVE  LiftInv' /\ DrawnInv'
<1>1. CASE Fruitless \/ TrapsUnread \/ Exhausted \/ OutOfAttempts
  BY <1>1, LeaveFacts DEF LiftInv, DrawnInv
<1>2. CASE Narrow
  BY <1>2 DEF Narrow, Attempt, LiftInv, DrawnInv
<1>3. CASE Lifted
  <2>1. /\ Len(seen') = Len(seen) + 1 /\ Len(seen) \in Nat
        /\ seen'[Len(seen')] = <<base, Served(widths)>>
        /\ method' = method /\ seen' \in Seq((1 .. Archetypes) \X AllWidths)
    BY <1>3, AttemptType DEF Lifted, TypeOK
  <2>2. lift'.base = base /\ lift'.widths = widths
    BY <1>3, LiftedFacts
  <2>3. RunOf(method', lift'.base, Served(lift'.widths)).end = "data"
    BY <1>3, <2>1, <2>2 DEF Lifted, Run
  <2>4. seen' # <<>>
    BY <2>1
  <2>5. LiftInv'
    BY <2>1, <2>2, <2>3, <2>4 DEF LiftInv, Served, WidthOf
  <2>6. DrawnInv'
    BY <1>3, LiftedFacts DEF DrawnInv
  <2> QED BY <2>5, <2>6
<1>4. ASSUME NEW populated \in SUBSET Keys, DrawTrial(populated)
      PROVE  LiftInv' /\ DrawnInv'
  BY <1>4 DEF DrawTrial, LiftInv, DrawnInv, DrawWidth, Served, WidthOf
<1>5. CASE UNCHANGED vars
  BY <1>5 DEF vars, LiftInv, DrawnInv, DrawWidth, Served, WidthOf
<1> QED BY <1>1, <1>2, <1>3, <1>4, <1>5 DEF Next, Search

(* Under an archetype b that only traps on widths, a run is fruitless only *)
(* if attempts run out: a trap is at a key that is narrow and not yet      *)
(* narrowed.                                                               *)
LEMMA TrapAtNarrowKey ==
  ASSUME TypeOK, MethodInv, NarrowInv, MissInv, Attempt,
         NEW accepts \in Deserializers, Decodes(base, accepts)
  PROVE  /\ Run.end \in {"data", "trap"}
         /\ Run.end = "trap" =>
              LET k == Run.read[Len(Run.read)] IN
                /\ Run.read # <<>> /\ k \in Keys
                /\ k \notin DOMAIN widths /\ k \in NarrowKeys(accepts)
<1>1. Run \in Runs /\ Served(widths) \in AllWidths /\ base \in 1 .. Archetypes
  BY RunType DEF Attempt
<1> DEFINE k == Run.read[Len(Run.read)]
<1>2. /\ Run.end = "trap" => Run.read # <<>> /\ Served(widths)[k] \notin accepts[k]
      /\ Run.end # "trap" => Run.end = "data"
  BY <1>1 DEF Decodes, Run
<1>3. CASE Run.end = "trap"
  <2>1. Run.read # <<>> /\ k \in Keys
    BY <1>1, <1>2, <1>3 DEF Runs
  <2>2. accepts[k] \in (SUBSET WidthSet) \ {{}}
    BY <2>1 DEF Deserializers
  <2>3. DOMAIN widths \subseteq NarrowKeys(accepts)
    BY <1>1 DEF MissInv
  <2>4. k \notin DOMAIN widths
    <3>1. SUFFICES ASSUME k \in DOMAIN widths  PROVE FALSE
      OBVIOUS
    <3>2. Served(widths)[k] = 8
      BY <2>1, <3>1 DEF Served, WidthOf, NarrowInv
    <3>3. 16 \notin accepts[k] /\ 8 \notin accepts[k]
      BY <1>2, <1>3, <2>3, <3>1, <3>2 DEF NarrowKeys
    <3> QED BY <2>2, <3>3 DEF WidthSet
  <2>5. Served(widths)[k] = 16
    BY <2>1, <2>4, CandidateFacts DEF Served, WidthOf
  <2>6. k \in NarrowKeys(accepts)
    BY <1>2, <1>3, <2>1, <2>5 DEF NarrowKeys
  <2> QED BY <1>3, <2>1, <2>4, <2>6
<1> QED BY <1>2, <1>3

(* Decodes speaks of the method, which never changes.                      *)
LEMMA DecodesStays ==
  ASSUME [Next]_vars, TypeOK, MethodInv, NEW b, NEW accepts
  PROVE  Decodes(b, accepts)' <=> Decodes(b, accepts)
<1>1. method' = method
  BY DEF Next, Search, Lifted, Fruitless, TrapsUnread, Narrow, Exhausted,
         OutOfAttempts, DrawTrial, Attempt, vars
<1> QED BY <1>1 DEF Decodes

LEMMA MissStep ==
  ASSUME TypeOK, MethodInv, NarrowInv, CountInv, MissInv, [Next]_vars
  PROVE  MissInv'
<1>1. SUFFICES ASSUME NEW b \in 1 .. Archetypes, NEW accepts \in Deserializers,
                      Decodes(b, accepts)
               PROVE  /\ b = base' => DOMAIN widths' \subseteq NarrowKeys(accepts)
                      /\ b < base' /\ lift' = NoLift =>
                           Cardinality(NarrowKeys(accepts)) >= MaxAttempts
  BY DecodesStays DEF MissInv
<1>2. IsFiniteSet(NarrowKeys(accepts)) /\ Cardinality(NarrowKeys(accepts)) \in Nat
  <2>1. NarrowKeys(accepts) \subseteq Keys
    BY DEF NarrowKeys
  <2> QED BY <2>1, BoundsAssumption, FS_Subset, FS_CardinalityType
<1>3. /\ b = base => DOMAIN widths \subseteq NarrowKeys(accepts)
      /\ b < base /\ lift = NoLift => Cardinality(NarrowKeys(accepts)) >= MaxAttempts
  BY <1>1 DEF MissInv
<1>4. base \in Nat /\ b \in Nat /\ attempts \in Nat /\ MaxAttempts \in Nat
  BY BoundsAssumption DEF TypeOK
<1>5. CASE Fruitless \/ TrapsUnread \/ Exhausted
  <2>1. b # base
    <3>1. SUFFICES ASSUME b = base  PROVE FALSE
      OBVIOUS
    <3>2. Attempt
      BY <1>5 DEF Fruitless, TrapsUnread, Exhausted
    <3>3. Decodes(base, accepts)
      BY <1>1, <3>1
    <3>4. Run.end = "trap"
      BY <1>5, <3>2, <3>3, TrapAtNarrowKey DEF Fruitless, TrapsUnread, Exhausted
    <3>5. Run.read # <<>> /\ Run.read[Len(Run.read)] \notin DOMAIN widths
      BY <3>2, <3>3, <3>4, TrapAtNarrowKey
    <3>6. order' = Run.read
      BY <3>2 DEF Attempt
    <3>7. NextCandidate(LastKey) = 1
      BY <3>5, <3>6 DEF LastKey, NextCandidate, TypeOK
    <3> QED BY <1>5, <3>4, <3>5, <3>6, <3>7, CandidateFacts
            DEF Fruitless, TrapsUnread, Exhausted
  <2>2. /\ base' = base + 1 /\ DOMAIN widths' = {} /\ lift = NoLift
    BY <1>5, LeaveFacts
  <2> QED BY <1>3, <1>4, <2>1, <2>2
<1>6. CASE OutOfAttempts
  <2>1. base' = base + 1 /\ DOMAIN widths' = {} /\ lift = NoLift
    BY <1>6, LeaveFacts
  <2>2. b = base => Cardinality(NarrowKeys(accepts)) >= MaxAttempts
    <3>1. SUFFICES ASSUME b = base  PROVE Cardinality(NarrowKeys(accepts)) >= MaxAttempts
      OBVIOUS
    <3>2. Cardinality(DOMAIN widths) <= Cardinality(NarrowKeys(accepts))
      BY <1>2, <1>3, <3>1, FS_Subset
    <3>3. attempts >= MaxAttempts
      BY <1>6 DEF OutOfAttempts
    <3> QED BY <1>2, <1>4, <3>2, <3>3 DEF CountInv
  <2> QED BY <1>3, <1>4, <2>1, <2>2
<1>7. CASE Narrow
  <2>1. base' = base /\ lift' = lift /\ Attempt
    BY <1>7 DEF Narrow
  <2>2. PICK k \in Keys :
          /\ Run.end = "trap" /\ k = Run.read[Len(Run.read)]
          /\ widths' = Put(widths, k, 8)
    BY <1>7, NarrowFacts
  <2>3. DOMAIN widths' = DOMAIN widths \cup {k}
    BY <2>2, PutType DEF TypeOK, WidthSet
  <2>4. b = base => k \in NarrowKeys(accepts)
    BY <1>1, <2>1, <2>2, TrapAtNarrowKey
  <2> QED BY <1>3, <2>1, <2>3, <2>4
<1>8. CASE Lifted
  BY <1>3, <1>8, LiftedFacts
<1>9. CASE UNCHANGED vars \/ \E populated \in SUBSET Keys : DrawTrial(populated)
  BY <1>3, <1>9 DEF DrawTrial, vars
<1> QED BY <1>5, <1>6, <1>7, <1>8, <1>9 DEF Next, Search

----------------------------------------------------------------------------
LEMMA InvInit == Init => IInv
<1> SUFFICES ASSUME Init  PROVE IInv
  OBVIOUS
<1>1. TypeOK /\ MethodInv
  BY TypeInit DEF Init, MethodInv
<1>2. NarrowInv /\ SeenInv /\ LiftInv /\ DrawnInv /\ NoRunTwice
  BY EmptyType DEF Init, NarrowInv, SeenInv, LiftInv, DrawnInv, NoRunTwice
<1>3. CountInv
  BY EmptyType, FS_EmptySet DEF Init, CountInv
<1>4. MissInv
  BY EmptyType DEF Init, MissInv
<1> QED BY <1>1, <1>2, <1>3, <1>4 DEF IInv

LEMMA InvStep == IInv /\ [Next]_vars => IInv'
  BY TypeStep, NarrowStep, SeenStep, LiftStep, MissStep, FreshStep DEF IInv

(* Every reachable state of the search satisfies the inductive invariant   *)
(* (lift_view, interp_lift_wasm, narrow_last_key and the trials it draws). *)
THEOREM Invariant == Spec => []IInv
  BY InvInit, InvStep, PTL DEF Spec

(* No run of the interpreter is made twice in one search.                  *)
THEOREM FreshRuns == Spec => []NoRunTwice
<1>1. IInv => NoRunTwice
  BY DEF IInv
<1> QED BY <1>1, Invariant, PTL

(* What a trial of verify_lifted stores has the widths of the run that was *)
(* lifted, which is the last one and succeeded.                            *)
THEOREM VerifiedAsLifted == Spec => []TrialsLikeLift
<1>1. IInv => TrialsLikeLift
  <2> SUFFICES ASSUME IInv, lift # NoLift
               PROVE  LET last == seen[Len(seen)] IN
                        /\ RunOf(method, last[1], last[2]).end = "data"
                        /\ last[1] = lift.base
                        /\ \A k \in DOMAIN drawn : drawn[k] = last[2][k]
    BY DEF TrialsLikeLift
  <2>1. /\ seen[Len(seen)][1] = lift.base
        /\ seen[Len(seen)][2] = Served(lift.widths)
        /\ RunOf(method, lift.base, Served(lift.widths)).end = "data"
    BY DEF IInv, LiftInv
  <2>2. \A k \in DOMAIN drawn : k \in Keys /\ drawn[k] = Served(lift.widths)[k]
    BY DEF IInv, DrawnInv, TypeOK, PartialWidths, DrawWidth, Served, WidthOf
  <2> QED BY <2>1, <2>2
<1> QED BY <1>1, Invariant, PTL

(* If the search ends without a lift, then under every archetype under     *)
(* which the method only traps on widths it has more narrow keys than the  *)
(* attempts allow for.                                                     *)
THEOREM Complete == Spec => []NothingMissed
<1>1. IInv => NothingMissed
  <2> SUFFICES ASSUME IInv, base > Archetypes, NEW b \in 1 .. Archetypes,
                      NEW accepts \in [Keys -> (SUBSET WidthSet) \ {{}}],
                      Decodes(b, accepts), lift = NoLift
               PROVE  Cardinality(NarrowKeys(accepts)) >= MaxAttempts
    BY DEF NothingMissed
  <2>1. b < base
    BY BoundsAssumption DEF IInv, TypeOK
  <2> QED BY <2>1 DEF IInv, MissInv, Deserializers
<1> QED BY <1>1, Invariant, PTL
=============================================================================
