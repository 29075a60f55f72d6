------------------------ MODULE PlanSynthesisProofs ------------------------
(***************************************************************************)
(* Theorems about PlanSynthesis, for every document, contract, set of      *)
(* candidates and number of trials.                                        *)
(***************************************************************************)
EXTENDS PlanSynthesis, TLAPS

(* Which generator each stage works for. *)
StageInv ==
  /\ pc = "list" => gen = "list"
  /\ pc = "discover" => gen = "discover"
  /\ pc = "fit" => gen \in {"Integer", "Stringy"}
  /\ pc = "lift" => gen = "lifted"
  /\ pc = "verify" => gen # "discover"

(* While a method is treated it is one that waits for a plan; plans that   *)
(* the analysis attached lie behind it.                                    *)
DocInv ==
  /\ pc \in {"list", "discover", "fit", "lift", "verify"} =>
       cur \in Methods /\ Pending(cur)
  /\ pc = "start" => cur = 1
  /\ \A m \in Methods : Planned(m) => m < cur

(* What the running trial loop has established about its candidate. *)
LoopInv ==
  pc = "verify" =>
    /\ cand \in Exprs
    /\ Len(compared) = checked
    /\ \A i \in 1 .. checked : Agrees(cand, cur, compared[i])
    /\ \A w \in tried : Succeeds(cur, w) => cand[w] = wasm[cur][w]
    /\ (\A w \in tried : Succeeds(cur, w)) => attempts = checked

(* Methods that discovery rejected lie behind, without a plan. *)
GateInv ==
  \A m \in Methods : "discover" \in sawDisq[m] => m < cur /\ ~Planned(m)

IInv ==
  /\ TypeOK /\ StageInv /\ DocInv /\ LoopInv /\ GateInv
  /\ PlanBacked /\ NoMismatchShipped

----------------------------------------------------------------------------
(* The budget of attempts is a number, its 32-bit sum included.            *)
LEMMA MaxAttemptsNat == MaxAttempts \in Nat
<1>1. (Trials + Slack) % (U32Max + 1) \in Nat
  BY TrialsAssumption
<1>2. Factor * Trials \in Nat
  BY TrialsAssumption
<1>3. QED
  BY <1>1, <1>2, TrialsAssumption DEF MaxAttempts

(* The helpers that move on to the next source of candidates. *)
LEMMA FallThroughTypes ==
  ASSUME TypeOK, cur \in Methods, FallThrough
  PROVE  cur' \in 1 .. N + 1 /\ pc' \in Stages /\ gen' \in Generators
BY NAssumption DEF TypeOK, FallThrough, NextMethod, Methods, Stages, Generators

(* Noting disqualified runs keeps sawDisq a record of generators.          *)
LEMMA NoteDisqTypes ==
  ASSUME TypeOK, NEW D, NoteDisq(D)
  PROVE  sawDisq' \in [Methods -> SUBSET Generators]
BY DEF TypeOK, NoteDisq

(* The strengthened invariant holds before the prober is built.            *)
LEMMA InitInv == Init => IInv
<1> SUFFICES ASSUME Init PROVE IInv
  OBVIOUS
<1>1. TypeOK
  BY MaxAttemptsNat, NAssumption, TrialsAssumption, PlanAssumption
  DEF Init, TypeOK, Plans, PriorPlan, Stages, Generators
<1>2. \A m \in Methods : ~Planned(m)
  BY DEF Init, Planned
<1>3. StageInv /\ DocInv /\ LoopInv /\ GateInv
  BY <1>2 DEF Init, StageInv, DocInv, LoopInv, GateInv
<1>4. PlanBacked /\ NoMismatchShipped
  BY <1>2 DEF PlanBacked, NoMismatchShipped
<1>5. QED
  BY <1>1, <1>3, <1>4 DEF IInv

(* Every action keeps the types: the counters within their bounds, the     *)
(* method under treatment within the document or just past it.             *)
LEMMA TypeStep ==
  ASSUME TypeOK, DocInv, LoopInv, [Next]_vars
  PROVE  TypeOK'
<1> USE DEF rigid, loop, history
<1>1. CASE BuildProber
  BY <1>1 DEF BuildProber, TypeOK, Stages
<1>2. ASSUME SkipMethod \/ BeginMethod \/ Finish
      PROVE  TypeOK'
  <2>1. CASE SkipMethod
    BY <2>1, NAssumption
    DEF SkipMethod, NextMethod, TypeOK, Stages, Generators, Methods
  <2>2. CASE BeginMethod
    BY <2>2 DEF BeginMethod, TypeOK, Stages, Generators
  <2>3. CASE Finish
    BY <2>3 DEF Finish, TypeOK, Stages
  <2>4. QED
    BY <1>2, <2>1, <2>2, <2>3
<1>3. ASSUME NEW w \in Worlds, NotAList(w)
      PROVE  TypeOK'
  <2>1. cur \in Methods
    BY <1>3 DEF NotAList, DocInv
  <2>2. QED
    BY <1>3, <2>1, FallThroughTypes, NoteDisqTypes DEF NotAList, TypeOK
<1>4. ASSUME NEW w \in Worlds, NEW e \in Exprs, ProposeList(w, e)
      PROVE  TypeOK'
  BY <1>4, MaxAttemptsNat, TrialsAssumption
  DEF ProposeList, BeginVerify, TypeOK, Stages
<1>5. ASSUME NEW D \in SUBSET DrawnBy["discover"], GiveUp(D)
      PROVE  TypeOK'
  <2>1. cur \in Methods
    BY <1>5 DEF GiveUp, DocInv
  <2>2. QED
    BY <1>5, <2>1, NoteDisqTypes, NAssumption
    DEF GiveUp, NextMethod, TypeOK, Stages, Generators, Methods
<1>6. ASSUME NEW D \in SUBSET DrawnBy["discover"], KeysFound(D)
      PROVE  TypeOK'
  BY <1>6, NoteDisqTypes DEF KeysFound, TypeOK, Stages, Generators
<1>7. ASSUME NEW S \in SUBSET DrawnBy[gen], NEW e \in Exprs, ProposeFit(S, e)
      PROVE  TypeOK'
  BY <1>7, MaxAttemptsNat, TrialsAssumption
  DEF ProposeFit, BeginVerify, TypeOK, Stages
<1>8. ASSUME NoFit \/ NoLift
      PROVE  TypeOK'
  <2>1. cur \in Methods
    BY <1>8 DEF NoFit, NoLift, DocInv
  <2>2. QED
    BY <1>8, <2>1, FallThroughTypes DEF NoFit, NoLift, TypeOK
<1>9. ASSUME NEW e \in Exprs, ProposeLift(e)
      PROVE  TypeOK'
  BY <1>9, MaxAttemptsNat, TrialsAssumption
  DEF ProposeLift, BeginVerify, TypeOK, Stages
<1>10. ASSUME NEW w \in Worlds, TrialAgrees(w)
       PROVE  TypeOK'
  BY <1>10, MaxAttemptsNat, TrialsAssumption
  DEF TrialAgrees, Draw, Trialling, TypeOK
<1>11. ASSUME NEW w \in Worlds, TrialDisagrees(w)
       PROVE  TypeOK'
  <2>1. cur \in Methods /\ cand \in Exprs
    BY <1>11 DEF TrialDisagrees, Draw, Trialling, DocInv, LoopInv
  <2>2. refuted' \in [Methods -> SUBSET Exprs]
    BY <1>11, <2>1 DEF TrialDisagrees, Reject, TypeOK
  <2>3. QED
    BY <1>11, <2>1, <2>2, FallThroughTypes, MaxAttemptsNat, TrialsAssumption
    DEF TrialDisagrees, Reject, ClearLoop, Draw, TypeOK
<1>12. ASSUME NEW w \in Worlds, TrialSkipped(w)
       PROVE  TypeOK'
  BY <1>12, NoteDisqTypes, MaxAttemptsNat, TrialsAssumption
  DEF TrialSkipped, Draw, Trialling, TypeOK
<1>13. ASSUME NEW w \in Worlds, TrialErrs(w) \/ PreProbeFails(w)
       PROVE  TypeOK'
  <2>1. cur \in Methods
    BY <1>13 DEF TrialErrs, PreProbeFails, Draw, Trialling, DocInv
  <2>2. CASE TrialErrs(w)
    BY <2>1, <2>2, FallThroughTypes, MaxAttemptsNat, TrialsAssumption
    DEF TrialErrs, ClearLoop, Draw, TypeOK
  <2>3. CASE PreProbeFails(w)
    BY <2>1, <2>3, FallThroughTypes, NoteDisqTypes, MaxAttemptsNat,
       TrialsAssumption
    DEF PreProbeFails, ClearLoop, TypeOK
  <2>4. QED
    BY <1>13, <2>2, <2>3
<1>14. CASE OutOfAttempts
  <2>1. cur \in Methods
    BY <1>14 DEF OutOfAttempts, DocInv
  <2>2. QED
    BY <1>14, <2>1, FallThroughTypes, MaxAttemptsNat, TrialsAssumption
    DEF OutOfAttempts, ClearLoop, TypeOK
<1>15. CASE Ship
  <2>1. cur \in Methods
    BY <1>15 DEF Ship, DocInv
  <2>2. [expr |-> cand, trials |-> checked] \in Plans
    BY TrialsAssumption DEF Plans, TypeOK
  <2>3. plan' \in [Methods -> Plans \cup {NoPlan}]
    BY <1>15, <2>2 DEF Ship, TypeOK
  <2>4. evidence' \in
          [Methods -> [compared : Seq(Worlds), tried : SUBSET Worlds]]
    BY <1>15 DEF Ship, TypeOK
  <2>5. QED
    BY <1>15, <2>1, <2>3, <2>4, MaxAttemptsNat, TrialsAssumption, NAssumption
    DEF Ship, ClearLoop, NextMethod, TypeOK, Stages, Generators, Methods
<1>16. CASE UNCHANGED vars
  BY <1>16 DEF vars, TypeOK
<1>17. QED
  BY <1>1, <1>2, <1>3, <1>4, <1>5, <1>6, <1>7, <1>8, <1>9, <1>10, <1>11,
     <1>12, <1>13, <1>14, <1>15, <1>16
  DEF Next, AttachPlans, Propose, Verify

(* A stage other than the trial loop draws for the generator it stands     *)
(* for, and leaves no candidate behind.                                    *)
LEMMA StageStep ==
  ASSUME StageInv, [Next]_vars
  PROVE  StageInv'
<1> USE DEF rigid, loop, history, StageInv
<1>1. CASE AttachPlans
  BY <1>1
  DEF AttachPlans, BuildProber, SkipMethod, BeginMethod, Finish, NextMethod
<1>2. CASE Propose
  BY <1>2
  DEF Propose, NotAList, ProposeList, GiveUp, KeysFound, ProposeFit, NoFit,
      ProposeLift, NoLift, BeginVerify, FallThrough, NextMethod
<1>3. CASE Verify
  BY <1>3
  DEF Verify, TrialAgrees, TrialDisagrees, TrialSkipped, TrialErrs,
      PreProbeFails, OutOfAttempts, Ship, Reject, Draw, FallThrough, NextMethod
<1>4. QED
  BY <1>1, <1>2, <1>3 DEF Next, vars

Working == {"list", "discover", "fit", "lift", "verify"}

(* Every step but Ship leaves the document alone, and either stays with    *)
(* its method or goes on to the next.                                      *)
LEMMA QuietStep ==
  ASSUME StageInv, Next, ~Ship
  PROVE  /\ UNCHANGED <<rigid, plan, evidence>>
         /\ \/ cur' = cur /\ pc' \notin Working /\ pc' # "start"
            \/ cur' = cur /\ pc \in Working /\ pc' # "start"
            \/ cur' = cur /\ cur \in Methods /\ Pending(cur) /\ pc' # "start"
            \/ cur' = cur + 1 /\ pc' = "pick"
<1> USE DEF rigid, loop, history, Working
<1>1. CASE AttachPlans
  BY <1>1
  DEF AttachPlans, BuildProber, SkipMethod, BeginMethod, Finish, NextMethod
<1>2. CASE Propose
  BY <1>2
  DEF Propose, NotAList, ProposeList, GiveUp, KeysFound, ProposeFit, NoFit,
      ProposeLift, NoLift, BeginVerify, FallThrough, NextMethod
<1>3. CASE Verify
  BY <1>3
  DEF Verify, TrialAgrees, TrialDisagrees, TrialSkipped, TrialErrs,
      PreProbeFails, OutOfAttempts, Reject, Draw, Trialling, FallThrough,
      NextMethod
<1>4. QED
  BY <1>1, <1>2, <1>3 DEF Next

(* What Ship writes, and for which method.                                 *)
LEMMA ShipStep ==
  ASSUME TypeOK, Ship
  PROVE  /\ UNCHANGED rigid
         /\ cur' = cur + 1 /\ pc' = "pick"
         /\ \A m \in Methods : m # cur => plan'[m] = plan[m]
         /\ \A m \in Methods : m # cur => evidence'[m] = evidence[m]
BY DEF Ship, TypeOK, NextMethod, rigid

(* The method under treatment is a view without a plan, and the methods    *)
(* beyond it are as they came.                                             *)
LEMMA DocStep ==
  ASSUME TypeOK, StageInv, DocInv, [Next]_vars
  PROVE  DocInv'
<1> USE DEF Pending, Planned, Working, rigid
<1>1. CASE Next /\ ~Ship
  <2>1. cur \in Int
    BY DEF TypeOK
  <2>2. \A m \in Methods : Planned(m)' => m < cur'
    BY <1>1, <2>1, QuietStep, NAssumption DEF DocInv, Methods
  <2>3. pc' \in Working => (cur \in Methods /\ Pending(cur))'
    BY <1>1, QuietStep DEF DocInv, Methods
  <2>4. pc' # "start"
    BY <1>1, QuietStep
  <2>5. QED
    BY <2>2, <2>3, <2>4 DEF DocInv
<1>2. CASE Ship
  BY <1>2, ShipStep DEF DocInv, TypeOK, Methods
<1>3. QED
  BY <1>1, <1>2 DEF vars, DocInv

(* In the trial loop every counted run is one that was compared and        *)
(* agreed, and every run made succeeded only with the bytes of the         *)
(* candidate.                                                              *)
LEMMA LoopStep ==
  ASSUME TypeOK, StageInv, LoopInv, [Next]_vars
  PROVE  LoopInv'
<1> USE DEF rigid, loop, history
<1>1. CASE AttachPlans
  BY <1>1
  DEF AttachPlans, BuildProber, SkipMethod, BeginMethod, Finish, NextMethod,
      LoopInv
<1>2. ASSUME NEW e \in Exprs, BeginVerify(e)
      PROVE  LoopInv'
  BY <1>2 DEF BeginVerify, LoopInv
<1>3. CASE Propose
  BY <1>2, <1>3
  DEF Propose, NotAList, ProposeList, GiveUp, KeysFound, ProposeFit, NoFit,
      ProposeLift, NoLift, FallThrough, NextMethod, LoopInv
<1>4. ASSUME NEW w \in Worlds, TrialAgrees(w)
      PROVE  LoopInv'
  <2> USE DEF TrialAgrees, Draw, Trialling
  <2>1. cand' \in Exprs /\ UNCHANGED <<wasm, cur, cand>>
    BY <1>4 DEF LoopInv
  <2>2. Len(compared') = checked'
    BY <1>4 DEF LoopInv, TypeOK
  <2>3. ASSUME NEW i \in 1 .. checked'
        PROVE  Agrees(cand, cur, compared'[i])
    BY <1>4, <2>3, TrialsAssumption DEF LoopInv, TypeOK
  <2>4. \A v \in tried' : Succeeds(cur, v) => cand[v] = wasm[cur][v]
    BY <1>4 DEF LoopInv, Agrees
  <2>5. (\A v \in tried' : Succeeds(cur, v)) => attempts' = checked'
    BY <1>4 DEF LoopInv
  <2>6. QED
    BY <1>4, <2>1, <2>2, <2>3, <2>4, <2>5 DEF LoopInv, Agrees, Succeeds
<1>5. ASSUME NEW w \in Worlds, TrialSkipped(w)
      PROVE  LoopInv'
  <2>1. ~Succeeds(cur, w)
    BY <1>5, OutcomeAssumption DEF TrialSkipped, Succeeds
  <2>2. \A v \in tried' : Succeeds(cur, v) => cand[v] = wasm[cur][v]
    BY <1>5, <2>1 DEF TrialSkipped, LoopInv, Draw, Trialling
  <2>3. ~(\A v \in tried' : Succeeds(cur, v))
    BY <1>5, <2>1 DEF TrialSkipped
  <2>4. QED
    BY <1>5, <2>2, <2>3
    DEF TrialSkipped, Draw, Trialling, LoopInv, Agrees, Succeeds
<1>6. ASSUME NEW w \in Worlds,
             TrialDisagrees(w) \/ TrialErrs(w) \/ PreProbeFails(w)
      PROVE  LoopInv'
  BY <1>6
  DEF TrialDisagrees, TrialErrs, PreProbeFails, Reject, FallThrough,
      NextMethod, LoopInv
<1>7. CASE OutOfAttempts \/ Ship
  BY <1>7 DEF OutOfAttempts, Ship, FallThrough, NextMethod, LoopInv
<1>8. CASE UNCHANGED vars
  BY <1>8 DEF vars, LoopInv, Agrees, Succeeds
<1>9. QED
  BY <1>1, <1>3, <1>4, <1>5, <1>6, <1>7, <1>8 DEF Next, Verify

(* Only a rejection by discover_keys records a disqualified run of it. *)
LEMMA DiscoverNoted ==
  ASSUME TypeOK, StageInv, DocInv, Next,
         NEW m \in Methods, "discover" \in sawDisq'[m]
  PROVE  \/ "discover" \in sawDisq[m]
         \/ /\ m = cur /\ cur' = cur + 1
            /\ UNCHANGED <<given, plan>> /\ Pending(m)
<1> USE DEF rigid, loop, history
<1>1. ASSUME NEW D, NoteDisq(D), gen # "discover"
      PROVE  "discover" \in sawDisq[m]
  BY <1>1 DEF NoteDisq, TypeOK
<1>2. CASE AttachPlans
  BY <1>2 DEF AttachPlans, BuildProber, SkipMethod, BeginMethod, Finish
<1>3. ASSUME NEW D \in SUBSET DrawnBy["discover"], GiveUp(D)
      PROVE  \/ "discover" \in sawDisq[m]
             \/ /\ m = cur /\ cur' = cur + 1
                /\ UNCHANGED <<given, plan>> /\ Pending(m)
  <2>1. CASE m = cur
    BY <1>3, <2>1 DEF GiveUp, NextMethod, DocInv
  <2>2. CASE m # cur
    BY <1>3, <2>2 DEF GiveUp, NoteDisq, TypeOK
  <2>3. QED
    BY <2>1, <2>2
<1>4. ASSUME NEW D \in SUBSET DrawnBy["discover"], KeysFound(D)
      PROVE  "discover" \in sawDisq[m]
  <2>1. ~(\E w \in D : wasm[cur][w] = Disqualified)
    BY <1>4 DEF KeysFound
  <2>2. {g \in {gen} : \E w \in D : wasm[cur][w] = Disqualified} = {}
    BY <2>1
  <2>3. sawDisq' = [sawDisq EXCEPT ![cur] = @ \cup {}]
    BY <1>4, <2>2 DEF KeysFound, NoteDisq
  <2>4. QED
    BY <2>3 DEF TypeOK
<1>5. ASSUME NEW w \in Worlds,
             NotAList(w) \/ TrialSkipped(w) \/ PreProbeFails(w)
      PROVE  "discover" \in sawDisq[m]
  BY <1>1, <1>5
  DEF NotAList, TrialSkipped, PreProbeFails, Draw, Trialling, StageInv
<1>6. CASE Propose
  BY <1>3, <1>4, <1>5, <1>6
  DEF Propose, ProposeList, ProposeFit, NoFit, ProposeLift, NoLift
<1>7. CASE Verify
  BY <1>5, <1>7
  DEF Verify, TrialAgrees, TrialDisagrees, TrialErrs, OutOfAttempts, Ship
<1>8. QED
  BY <1>2, <1>6, <1>7 DEF Next

(* Past discovery, no run of discovery was disqualified.                   *)
LEMMA GateStep ==
  ASSUME TypeOK, StageInv, DocInv, GateInv, [Next]_vars
  PROVE  GateInv'
<1>1. CASE Next /\ ~Ship
  <2> SUFFICES ASSUME NEW m \in Methods, "discover" \in sawDisq'[m]
               PROVE  m < cur' /\ ~Planned(m)'
    BY DEF GateInv
  <2>1. UNCHANGED <<given, plan>> /\ cur' \in {cur, cur + 1}
    BY <1>1, QuietStep DEF rigid
  <2>2. CASE "discover" \in sawDisq[m]
    BY <2>1, <2>2 DEF GateInv, Planned, TypeOK, Methods
  <2>3. CASE m = cur /\ cur' = cur + 1 /\ Pending(m)
    BY <2>1, <2>3 DEF Planned, Pending, TypeOK, Methods
  <2>4. QED
    BY <1>1, <2>2, <2>3, DiscoverNoted
<1>2. CASE Ship
  <2>1. UNCHANGED sawDisq
    BY <1>2 DEF Ship
  <2>2. QED
    BY <1>2, <2>1, ShipStep DEF GateInv, Planned, TypeOK, Methods, rigid
<1>3. CASE UNCHANGED vars
  BY <1>3 DEF vars, rigid, history, GateInv, Planned
<1>4. QED
  BY <1>1, <1>2, <1>3

(* What the trial loop established is what the attached plan carries. *)
LEMMA ShipBacked ==
  ASSUME TypeOK, DocInv, LoopInv, Ship
  PROVE  /\ plan'[cur] = [expr |-> cand, trials |-> Trials]
         /\ evidence'[cur] = [compared |-> compared, tried |-> tried]
         /\ Len(compared) = Trials
         /\ \A i \in 1 .. Trials : Agrees(cand, cur, compared[i])
         /\ \A w \in tried : Succeeds(cur, w) => cand[w] = wasm[cur][w]
<1>1. checked = Trials
  BY TrialsAssumption DEF Ship, TypeOK
<1>2. cur \in Methods
  BY DEF Ship, DocInv
<1>3. QED
  BY <1>1, <1>2 DEF Ship, TypeOK, LoopInv

(* An attached plan stays as it was attached, and so does its evidence; a  *)
(* new one carries what the trial loop established.                        *)
LEMMA BackedStep ==
  ASSUME IInv, [Next]_vars
  PROVE  PlanBacked' /\ NoMismatchShipped'
<1> USE DEF IInv
<1>1. CASE UNCHANGED <<rigid, plan, evidence>>
  BY <1>1
  DEF PlanBacked, NoMismatchShipped, Planned, Agrees, Succeeds, rigid
<1>2. CASE Ship
  <2> SUFFICES ASSUME NEW m \in Methods, Planned(m)'
               PROVE  /\ plan'[m].trials = Trials
                      /\ Len(evidence'[m].compared) = Trials
                      /\ \A i \in 1 .. Trials :
                           Agrees(plan'[m].expr, m, evidence'[m].compared[i])
                      /\ \A w \in evidence'[m].tried :
                           Succeeds(m, w) => plan'[m].expr[w] = wasm[m][w]
    BY <1>2, ShipStep DEF PlanBacked, NoMismatchShipped, Agrees, Succeeds, rigid
  <2>1. CASE m = cur
    BY <1>2, <2>1, ShipBacked
  <2>2. CASE m # cur
    BY <1>2, <2>2, ShipStep DEF PlanBacked, NoMismatchShipped, Planned, rigid
  <2>3. QED
    BY <2>1, <2>2
<1>3. QED
  BY <1>1, <1>2, QuietStep DEF vars, history

----------------------------------------------------------------------------
(* The inductive invariant. Of its parts, LoopInv ties the counter of the  *)
(* trial loop to the worlds it stands for, DocInv says which methods are   *)
(* still untouched, StageInv and GateInv what each stage may rely on; with *)
(* them PlanBacked and NoMismatchShipped are preserved by Ship.            *)
THEOREM Invariance == Spec => []IInv
<1>1. IInv /\ [Next]_vars => IInv'
  BY TypeStep, StageStep, DocStep, LoopStep, GateStep, BackedStep DEF IInv
<1>2. QED
  BY <1>1, InitInv, PTL DEF Spec

(* Every state of the analysis is well typed (TypeOK): no counter of a     *)
(* trial loop passes its limit, no method outside the document is treated. *)
THEOREM TypeCorrect == Spec => []TypeOK
BY Invariance, PTL DEF IInv

(* Whatever the contract and the candidates, a plan the analysis attaches  *)
(* was reproduced by exactly Trials runs, and contradicted by none of its  *)
(* verification.                                                           *)
THEOREM PlansAreBacked == Spec => []PlanBacked
BY Invariance, PTL DEF IInv

(* No shipped plan was contradicted by a run of its verification           *)
(* (NoMismatchShipped), counted or not.                                    *)
THEOREM NoMismatch == Spec => []NoMismatchShipped
BY Invariance, PTL DEF IInv

(* A method whose discovery was disqualified stays without a plan.         *)
THEOREM GateHolds == Spec => []DiscoveryGate
<1>1. IInv => DiscoveryGate
  BY DEF IInv, GateInv, DiscoveryGate
<1>2. QED
  BY <1>1, Invariance, PTL

(* The attempts allowed are never fewer than the trials, whatever the sum  *)
(* with the slack wraps to.                                                *)
LEMMA EnoughAttempts == MaxAttempts >= Trials
<1> DEFINE padded == (Trials + Slack) % (U32Max + 1)
<1>1. padded \in Nat
  BY TrialsAssumption
<1>2. PICK k : k = Factor * Trials
  OBVIOUS
<1>3. k \in Nat /\ k >= Trials
  BY <1>2, TrialsAssumption
<1>4. (IF k > U32Max THEN U32Max ELSE k) >= Trials
  BY <1>3, TrialsAssumption
<1>5. QED
  BY <1>1, <1>2, <1>3, <1>4, TrialsAssumption DEF MaxAttempts

(* The loop of trials stops short of a verdict only for runs it had to     *)
(* skip.                                                                   *)
THEOREM SkipsExhaust == Spec => []GivenUpForSkips
<1>1. ASSUME IInv  PROVE GivenUpForSkips
  <2>1. SUFFICES ASSUME pc = "verify", checked < Trials, attempts >= MaxAttempts
                 PROVE  \E w \in tried : ~Succeeds(cur, w)
    BY DEF GivenUpForSkips
  <2>2. attempts # checked
    BY <1>1, <2>1, EnoughAttempts, MaxAttemptsNat, TrialsAssumption DEF IInv, TypeOK
  <2>3. QED
    BY <1>1, <2>1, <2>2 DEF IInv, LoopInv
<1>2. QED
  BY <1>1, Invariance, PTL

(* Steps of the analysis add a plan to the view under treatment or none.   *)
THEOREM OnlyPending == Spec => OnlyPendingViews
<1>1. ASSUME IInv, [Next]_vars
      PROVE  [\A m \in Methods : plan'[m] # plan[m] =>
                m = cur /\ kind[m] = "View" /\ plan[m] = NoPlan]_vars
  <2> USE DEF IInv
  <2>1. CASE UNCHANGED plan
    BY <2>1
  <2>2. CASE Ship
    <3>1. Pending(cur)
      BY <1>1, <2>2 DEF Ship, DocInv
    <3>2. QED
      BY <1>1, <2>2, <3>1, ShipStep DEF Pending
  <2>3. QED
    BY <1>1, <2>1, <2>2, QuietStep DEF vars
<1>2. QED
  BY <1>1, Invariance, PTL DEF Spec, OnlyPendingViews

----------------------------------------------------------------------------
(* The steps between the first and the last, except Ship.                  *)
LEMMA RunningStep ==
  ASSUME StageInv, DocInv, Next, ~Ship, ~BuildProber, ~Finish
  PROVE  /\ Phase = "running" /\ Phase' = "running"
         /\ cur' = cur \/ (cur' = cur + 1 /\ cur \in Methods)
         /\ UNCHANGED <<wasm, kind, plan>>
<1> USE DEF rigid, loop, history, Phase
<1>1. CASE AttachPlans
  BY <1>1 DEF AttachPlans, SkipMethod, BeginMethod, NextMethod
<1>2. CASE Propose
  BY <1>2
  DEF Propose, NotAList, ProposeList, GiveUp, KeysFound, ProposeFit, NoFit,
      ProposeLift, NoLift, BeginVerify, FallThrough, NextMethod, DocInv
<1>3. CASE Verify
  BY <1>3
  DEF Verify, TrialAgrees, TrialDisagrees, TrialSkipped, TrialErrs,
      PreProbeFails, OutOfAttempts, Reject, Draw, Trialling, FallThrough,
      NextMethod, DocInv
<1>4. QED
  BY <1>1, <1>2, <1>3 DEF Next

(* Shipping a plan is a step of the abstract specification: it settles the *)
(* method under treatment, with the compared worlds as the witness.        *)
LEMMA ShipSettles ==
  ASSUME IInv, Ship
  PROVE  Contract!Settle
<1> USE DEF IInv
<1> DEFINE ws == [i \in 1 .. Trials |-> compared[i]]
<1>1. cur \in Methods /\ Pending(cur)
  BY DEF Ship, DocInv
<1>2. /\ Len(compared) = Trials
      /\ \A i \in 1 .. Trials : Agrees(cand, cur, compared[i])
  BY ShipBacked
<1>3. ws \in [1 .. Trials -> Worlds]
  BY <1>2, TrialsAssumption DEF TypeOK
<1>4. Contract!Witness(cur, cand, ws)
  BY <1>2 DEF Contract!Witness, Agrees, Succeeds
<1>5. plan' = [plan EXCEPT ![cur] = [expr |-> cand, trials |-> Trials]]
  <2>1. checked = Trials
    BY TrialsAssumption DEF Ship, TypeOK
  <2>2. QED
    BY <2>1 DEF Ship
<1>6. Contract!Attach(cur, cand)
  BY <1>1, <1>3, <1>4, <1>5 DEF Contract!Attach, Pending
<1>7. cand \in Exprs
  BY DEF Ship, LoopInv
<1>8. Phase = "running" /\ Phase' = "running"
  BY DEF Ship, NextMethod, Phase
<1>9. /\ cur - 1 < N /\ cur' - 1 = (cur - 1) + 1 /\ (cur - 1) + 1 = cur
      /\ UNCHANGED <<wasm, kind>>
  BY <1>1, ShipStep, NAssumption DEF Methods, rigid
<1>10. \E e \in Exprs : Contract!Attach((cur - 1) + 1, e)
  BY <1>6, <1>7, <1>9
<1>11. QED
  BY <1>8, <1>9, <1>10 DEF Contract!Settle, Contract!fixed

(* The analysis implements what attach_plans promises: each method settled *)
(* once, in document order, with no plan or with one that Trials runs of   *)
(* the bytecode agreed with.                                               *)
THEOREM Refinement == Spec => Contract!Spec
<1>1. Init => Contract!Init
  BY DEF Init, Contract!Init, Phase
<1>2. IInv /\ [Next]_vars => [Contract!Next]_(Contract!vars)
  <2> SUFFICES ASSUME IInv, [Next]_vars
               PROVE  [Contract!Next]_(Contract!vars)
    OBVIOUS
  <2> USE DEF IInv
  <2>1. CASE UNCHANGED vars
    BY <2>1 DEF vars, rigid, Contract!vars, Contract!fixed, Phase
  <2>2. CASE Ship
    BY <2>2, ShipSettles DEF Contract!Next
  <2>3. CASE BuildProber
    BY <2>3
    DEF BuildProber, rigid, Contract!Next, Contract!Open, Contract!fixed, Phase
  <2>4. CASE Finish
    <3>1. cur - 1 = N
      BY <2>4, NAssumption DEF Finish, TypeOK, Methods
    <3>2. QED
      BY <2>4, <3>1
      DEF Finish, rigid, Contract!Next, Contract!Close, Contract!fixed, Phase
  <2>5. CASE Next /\ ~Ship /\ ~BuildProber /\ ~Finish
    <3>1. /\ Phase = "running" /\ Phase' = "running"
          /\ cur' = cur \/ (cur' = cur + 1 /\ cur \in Methods)
          /\ UNCHANGED <<wasm, kind, plan>>
      BY <2>5, RunningStep
    <3>2. CASE cur' = cur
      BY <3>1, <3>2 DEF Contract!vars, Contract!fixed
    <3>3. CASE cur' = cur + 1 /\ cur \in Methods
      <4>1. cur - 1 < N /\ cur' - 1 = (cur - 1) + 1
        BY <3>3, NAssumption DEF Methods
      <4>2. QED
        BY <3>1, <4>1 DEF Contract!Next, Contract!Settle, Contract!fixed
    <3>4. QED
      BY <3>1, <3>2, <3>3
  <2>6. QED
    BY <2>1, <2>2, <2>3, <2>4, <2>5
<1>3. QED
  BY <1>1, <1>2, Invariance, PTL DEF Spec, Contract!Spec
=============================================================================
