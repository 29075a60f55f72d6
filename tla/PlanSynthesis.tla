--------------------------- MODULE PlanSynthesis ---------------------------
(***************************************************************************)
(* How alkabi decides which view methods of a document get a client-side   *)
(* read plan: attach_plans walks the methods, synthesize_one tries the     *)
(* list reader, the fitted expressions of each value distribution and the  *)
(* symbolic lift, and every candidate faces a loop of randomized           *)
(* differential trials against the bytecode before it is attached.         *)
(*                                                                         *)
(* A world is everything one probe run depends on: storage, height,        *)
(* calldata.  The contract is, per method, a function from worlds to an    *)
(* outcome; a candidate expression is, up to the equality that the trials  *)
(* observe, a function from worlds to the bytes it evaluates to.           *)
(***************************************************************************)
EXTENDS Integers, Sequences

CONSTANTS
  N,            \* number of methods of the document
  Worlds,       \* the inputs of one probe run
  Emptied,      \* Emptied[w]: w with no storage, same height and calldata
  DrawnBy,      \* DrawnBy[g]: the worlds that generator g can produce
  Data,         \* response payloads
  Trap, Disqualified, RunError, \* the other ends of Prober::run
  EvalError,    \* evaluating an expression fails
  Behaviours,   \* the functions a method may be (Worlds to outcomes)
  Exprs,        \* the functions a candidate may be (Worlds to results)
  ProposedBy,   \* ProposedBy[g]: those that candidates of g may be
  NoExpr, NoPlan,
  Trials,       \* AnalysisConfig.verify_trials
  Factor, Slack,\* attempts allowed: 8 per trial, or 32 more than the trials
  U32Max        \* largest u32

Methods    == 1 .. N
Outcomes   == Data \cup {Trap, Disqualified, RunError}
Results    == Data \cup {EvalError}
Generators == {"discover", "list", "Integer", "Stringy", "lifted"}
Stages     == {"start", "pick", "list", "discover", "fit", "lift", "verify",
               "done", "failed"}

ASSUME NAssumption == N \in Nat
ASSUME WorldAssumption ==
  /\ Emptied \in [Worlds -> Worlds]
  /\ DrawnBy \in [Generators -> SUBSET Worlds]
ASSUME OutcomeAssumption ==
  /\ Trap \notin Data /\ Disqualified \notin Data /\ RunError \notin Data
  /\ EvalError \notin Data
  /\ Trap # Disqualified /\ Trap # RunError /\ Disqualified # RunError
ASSUME FunctionAssumption ==
  /\ Behaviours \subseteq [Worlds -> Outcomes]
  /\ Exprs \subseteq [Worlds -> Results]
  /\ NoExpr \notin Exprs
  /\ ProposedBy \in [Generators -> SUBSET Exprs]
ASSUME TrialsAssumption ==
  /\ U32Max \in Nat
  /\ Trials \in 0 .. U32Max
  /\ Factor \in Nat \ {0} /\ Slack \in Nat

Plans == [expr : Exprs \cup {NoExpr}, trials : 0 .. U32Max]
ASSUME PlanAssumption == NoPlan \notin Plans

(* A plan the document carried before attach_plans ran. *)
PriorPlan == [expr |-> NoExpr, trials |-> U32Max]

VARIABLES
  \* the contract and the document as they come in; no step changes them
  wasm,      \* wasm[m][w]: what the bytecode of view m does in world w
  kind,      \* "View" or "Execute", per method
  given,     \* methods that came with a plan
  lifter,    \* the module could be parsed for the lifter
  \* the document being completed, and the program's own state
  plan,      \* plan[m], or NoPlan
  cur,       \* the method under treatment
  pc, gen,   \* stage, and the generator whose worlds it draws
  cand,      \* the candidate expression under verification
  checked, attempts,
  \* history, read by the properties only
  compared,  \* worlds in which cand was compared and agreed, in order
  tried,     \* worlds run by the verification of cand
  evidence,  \* per method: compared and tried of the candidate that shipped
  refuted,   \* per method: expressions a comparison rejected
  sawDisq    \* per method: generators one of whose runs was disqualified

rigid   == <<wasm, kind, given, lifter>>
loop    == <<cand, checked, attempts, compared, tried>>
history == <<evidence, refuted, sawDisq>>
vars    == <<rigid, plan, cur, pc, gen, loop, history>>

SlackAlone == (Trials + Slack) % (U32Max + 1)

(* min(8 * trials, u32::MAX) or trials + 32 in 32 bits, the larger. *)
MaxAttempts ==
  LET scaled == IF Factor * Trials > U32Max THEN U32Max ELSE Factor * Trials
      padded == (Trials + Slack) % (U32Max + 1)
  IN  IF scaled > padded THEN scaled ELSE padded

Succeeds(m, w)  == wasm[m][w] \in Data
Agrees(e, m, w) == Succeeds(m, w) /\ e[w] = wasm[m][w]

Init ==
  /\ wasm \in [Methods -> Behaviours]
  /\ kind \in [Methods -> {"View", "Execute"}]
  /\ given \in SUBSET Methods
  /\ lifter \in BOOLEAN
  /\ plan = [m \in Methods |-> IF m \in given THEN PriorPlan ELSE NoPlan]
  /\ cur = 1
  /\ pc = "start" /\ gen = "list"
  /\ cand = NoExpr /\ checked = 0 /\ attempts = 0
  /\ compared = <<>> /\ tried = {}
  /\ evidence = [m \in Methods |-> [compared |-> <<>>, tried |-> {}]]
  /\ refuted = [m \in Methods |-> {}]
  /\ sawDisq = [m \in Methods |-> {}]

ClearLoop ==
  /\ cand' = NoExpr /\ checked' = 0 /\ attempts' = 0
  /\ compared' = <<>> /\ tried' = {}

BeginVerify(e) ==
  /\ pc' = "verify" /\ cand' = e
  /\ checked' = 0 /\ attempts' = 0
  /\ compared' = <<>> /\ tried' = {}

NextMethod == cur' = cur + 1 /\ pc' = "pick" /\ gen' = "list"

(* Where a candidate of generator gen, or the lack of one, leads. *)
FallThrough ==
  \/ /\ gen = "list"
     /\ pc' = "discover" /\ gen' = "discover" /\ UNCHANGED cur
  \/ /\ gen = "Integer"
     /\ pc' = "fit" /\ gen' = "Stringy" /\ UNCHANGED cur
  \/ /\ gen = "Stringy"
     /\ pc' = "lift" /\ gen' = "lifted" /\ UNCHANGED cur
  \/ gen = "lifted" /\ NextMethod

Reject(e) ==
  /\ refuted' = [refuted EXCEPT ![cur] = @ \cup {e}]
  /\ ClearLoop /\ FallThrough

NoteDisq(D) ==
  sawDisq' = [sawDisq EXCEPT ![cur] =
                @ \cup {g \in {gen} : \E w \in D : wasm[cur][w] = Disqualified}]

----------------------------------------------------------------------------
(* attach_plans: build the prober, then the methods in document order. *)

BuildProber ==
  /\ pc = "start"
  /\ pc' \in {"pick", "failed"}
  /\ UNCHANGED <<rigid, plan, cur, gen, loop, history>>

AnyView(m) == kind[m] = "View"

Pending(m) == kind[m] = "View" /\ plan[m] = NoPlan

SkipMethod ==
  /\ pc = "pick" /\ cur \in Methods
  /\ ~Pending(cur)
  /\ NextMethod
  /\ UNCHANGED <<rigid, plan, loop, history>>

BeginMethod ==
  /\ pc = "pick" /\ cur \in Methods
  /\ Pending(cur)
  /\ pc' = "list" /\ gen' = "list"
  /\ UNCHANGED <<rigid, plan, cur, loop, history>>

Finish ==
  /\ pc = "pick" /\ cur \notin Methods
  /\ pc' = "done"
  /\ UNCHANGED <<rigid, plan, cur, gen, loop, history>>

----------------------------------------------------------------------------
(* synthesize_one: the sources of candidates. *)

(* Neither probe of try_list_plan makes the method a list read: a probe    *)
(* errs or does not succeed, or the keys it reads are not those of a list. *)
NotAList(w) ==
  /\ pc = "list" /\ w \in DrawnBy["list"]
  /\ NoteDisq({Emptied[w]} \cup {v \in {w} : Succeeds(cur, Emptied[w])})
  /\ FallThrough
  /\ UNCHANGED <<rigid, plan, loop, evidence, refuted>>

(* Both probes succeed and read the keys of a list: the loop plan is built *)
(* from the base of the keys alone.                                        *)
ProposeList(w, e) ==
  /\ pc = "list" /\ w \in DrawnBy["list"] /\ e \in ProposedBy[gen]
  /\ Succeeds(cur, Emptied[w]) /\ Succeeds(cur, w)
  /\ BeginVerify(e)
  /\ UNCHANGED <<rigid, plan, cur, gen, history>>

(* discover_keys stopped at a run that erred or was disqualified, or saw a *)
(* key set it cannot describe: the whole method stays without a plan.      *)
GiveUp(D) ==
  /\ pc = "discover" /\ D # {}
  /\ NoteDisq(D)
  /\ NextMethod
  /\ UNCHANGED <<rigid, plan, loop, evidence, refuted>>

KeysFoundAnyway(D) ==
  /\ pc = "discover" /\ D # {}
  /\ \A w \in D : wasm[cur][w] # RunError
  /\ NoteDisq(D)
  /\ pc' = "fit" /\ gen' = "Integer"
  /\ UNCHANGED <<rigid, plan, cur, loop, evidence, refuted>>

KeysFound(D) ==
  /\ pc = "discover" /\ D # {}
  /\ \A w \in D : wasm[cur][w] \notin {RunError, Disqualified}
  /\ NoteDisq(D)
  /\ pc' = "fit" /\ gen' = "Integer"
  /\ UNCHANGED <<rigid, plan, cur, loop, evidence, refuted>>

(* fit_expr returns an expression that reproduces every sample it took;    *)
(* the samples are the runs that succeeded.                                *)
ProposeFit(S, e) ==
  /\ pc = "fit" /\ e \in ProposedBy[gen]
  /\ S # {} /\ \A w \in S : Agrees(e, cur, w)
  /\ BeginVerify(e)
  /\ UNCHANGED <<rigid, plan, cur, gen, history>>

NoFit ==
  /\ pc = "fit"
  /\ FallThrough
  /\ UNCHANGED <<rigid, plan, loop, history>>

ProposeLift(e) ==
  /\ pc = "lift" /\ lifter /\ e \in ProposedBy[gen]
  /\ BeginVerify(e)
  /\ UNCHANGED <<rigid, plan, cur, gen, history>>

NoLift ==
  /\ pc = "lift"
  /\ FallThrough
  /\ UNCHANGED <<rigid, plan, loop, history>>

----------------------------------------------------------------------------
(* verify, verify_list, verify_lifted: one randomized trial at a time. *)

OneTooMany == pc = "verify" /\ checked < Trials /\ attempts <= MaxAttempts

Trialling == pc = "verify" /\ checked < Trials /\ attempts < MaxAttempts

(* verify_lifted first probes the drawn world with its storage empty. *)
PreProbed(w) ==
  gen = "lifted" => wasm[cur][Emptied[w]] \notin {RunError, Disqualified}

Draw(w) ==
  /\ Trialling /\ w \in DrawnBy[gen] /\ PreProbed(w)
  /\ UNCHANGED <<rigid, plan, evidence>>

TrialAgrees(w) ==
  /\ Draw(w) /\ Agrees(cand, cur, w)
  /\ checked' = checked + 1 /\ attempts' = attempts + 1
  /\ compared' = Append(compared, w) /\ tried' = tried \cup {w}
  /\ UNCHANGED <<cur, pc, gen, cand, refuted, sawDisq>>

MismatchSkipped(w) ==
  /\ Draw(w) /\ Succeeds(cur, w) /\ ~Agrees(cand, cur, w)
  /\ attempts' = attempts + 1 /\ tried' = tried \cup {w}
  /\ UNCHANGED <<cur, pc, gen, cand, checked, compared, refuted, sawDisq>>

TrialDisagrees(w) ==
  /\ Draw(w) /\ Succeeds(cur, w) /\ ~Agrees(cand, cur, w)
  /\ Reject(cand)
  /\ UNCHANGED sawDisq

SkipCounted(w) ==
  /\ Draw(w) /\ wasm[cur][w] \in {Trap, Disqualified}
  /\ checked' = checked + 1
  /\ attempts' = attempts + 1 /\ tried' = tried \cup {w}
  /\ NoteDisq({w})
  /\ UNCHANGED <<cur, pc, gen, cand, compared, refuted>>

SkipIsFree(w) ==
  /\ Draw(w) /\ wasm[cur][w] \in {Trap, Disqualified}
  /\ tried' = tried \cup {w}
  /\ NoteDisq({w})
  /\ UNCHANGED <<cur, pc, gen, cand, checked, attempts, compared, refuted>>

TrialSkipped(w) ==
  /\ Draw(w) /\ wasm[cur][w] \in {Trap, Disqualified}
  /\ attempts' = attempts + 1 /\ tried' = tried \cup {w}
  /\ NoteDisq({w})
  /\ UNCHANGED <<cur, pc, gen, cand, checked, compared, refuted>>

TrialErrs(w) ==
  /\ Draw(w) /\ wasm[cur][w] = RunError
  /\ ClearLoop /\ FallThrough
  /\ UNCHANGED <<refuted, sawDisq>>

PreProbeFails(w) ==
  /\ Trialling /\ w \in DrawnBy[gen] /\ ~PreProbed(w)
  /\ NoteDisq({Emptied[w]})
  /\ ClearLoop /\ FallThrough
  /\ UNCHANGED <<rigid, plan, evidence, refuted>>

ShipWhatWasChecked ==
  /\ pc = "verify" /\ checked < Trials /\ attempts >= MaxAttempts
  /\ plan' = [plan EXCEPT ![cur] = [expr |-> cand, trials |-> checked]]
  /\ ClearLoop /\ NextMethod
  /\ UNCHANGED <<rigid, history>>

OutOfAttempts ==
  /\ pc = "verify" /\ checked < Trials /\ attempts >= MaxAttempts
  /\ ClearLoop /\ FallThrough
  /\ UNCHANGED <<rigid, plan, history>>

Ship ==
  /\ pc = "verify" /\ checked >= Trials
  /\ plan' = [plan EXCEPT ![cur] = [expr |-> cand, trials |-> checked]]
  /\ evidence' = [evidence EXCEPT ![cur] =
                    [compared |-> compared, tried |-> tried]]
  /\ ClearLoop /\ NextMethod
  /\ UNCHANGED <<rigid, refuted, sawDisq>>

----------------------------------------------------------------------------
AttachPlans == BuildProber \/ SkipMethod \/ BeginMethod \/ Finish

Propose ==
  \/ \E w \in Worlds : NotAList(w)
  \/ \E w \in Worlds, e \in Exprs : ProposeList(w, e)
  \/ \E D \in SUBSET DrawnBy["discover"] : GiveUp(D) \/ KeysFound(D)
  \/ \E S \in SUBSET DrawnBy[gen], e \in Exprs : ProposeFit(S, e)
  \/ NoFit
  \/ \E e \in Exprs : ProposeLift(e)
  \/ NoLift

Verify ==
  \/ \E w \in Worlds :
       \/ TrialAgrees(w) \/ TrialDisagrees(w)
       \/ TrialSkipped(w) \/ TrialErrs(w) \/ PreProbeFails(w)
  \/ OutOfAttempts
  \/ Ship

Next == AttachPlans \/ Propose \/ Verify

Spec == Init /\ [][Next]_vars

(* The analysis is one sequential loop whose probe runs are bounded by     *)
(* fuel: it keeps taking its next step.                                    *)
FairSpec == Spec /\ WF_vars(Next)

----------------------------------------------------------------------------
Planned(m) == m \notin given /\ plan[m] # NoPlan

TypeOK ==
  /\ wasm \in [Methods -> Behaviours]
  /\ kind \in [Methods -> {"View", "Execute"}]
  /\ given \in SUBSET Methods
  /\ lifter \in BOOLEAN
  /\ plan \in [Methods -> Plans \cup {NoPlan}]
  /\ cur \in 1 .. N + 1
  /\ pc \in Stages
  /\ gen \in Generators
  /\ cand \in Exprs \cup {NoExpr}
  /\ checked \in 0 .. Trials
  /\ attempts \in 0 .. MaxAttempts
  /\ compared \in Seq(Worlds)
  /\ tried \in SUBSET Worlds
  /\ evidence \in [Methods -> [compared : Seq(Worlds), tried : SUBSET Worlds]]
  /\ refuted \in [Methods -> SUBSET Exprs]
  /\ sawDisq \in [Methods -> SUBSET Generators]

(* A plan attached by the analysis records as its trials exactly as many   *)
(* runs as really succeeded and returned the bytes the plan computes, and  *)
(* that number is the one the configuration asked for (verify's counter,   *)
(* Plan.trials in synthesize_one).                                         *)
PlanBacked ==
  \A m \in Methods : Planned(m) =>
    /\ plan[m].trials = Trials
    /\ Len(evidence[m].compared) = Trials
    /\ \A i \in 1 .. Trials :
         Agrees(plan[m].expr, m, evidence[m].compared[i])

(* "A single mismatch rejects the plan": among the worlds run while the    *)
(* shipped candidate was verified, none succeeded with other bytes, not    *)
(* even one that was not counted.                                          *)
NoMismatchShipped ==
  \A m \in Methods : Planned(m) =>
    \A w \in evidence[m].tried : Succeeds(m, w) => plan[m].expr[w] = wasm[m][w]

(* Key discovery is the gate of everything but list reads: a method that   *)
(* discovery saw reaching for a disqualifying host call keeps no plan,     *)
(* neither from the fits nor from the lifter.                              *)
DiscoveryGate ==
  \A m \in Methods : "discover" \in sawDisq[m] => ~Planned(m)

(* A step of the analysis only ever adds a plan, to the view under         *)
(* treatment that had none: plans that came with the document and those    *)
(* already attached are not touched, and execute methods never get one.    *)
OnlyPendingViews ==
  [][\A m \in Methods : plan'[m] # plan[m] =>
       m = cur /\ kind[m] = "View" /\ plan[m] = NoPlan]_vars

(* The analysis ends whatever the contract does: traps and disqualified    *)
(* runs use up attempts, so no trial loop runs on for ever.                *)
Completes == <>(pc \in {"done", "failed"})

(* A candidate runs out of attempts only where runs were skipped: one that *)
(* every run so far has agreed with has attempts left, also where the sum  *)
(* of the trials and the slack wraps in 32 bits.                           *)
GivenUpForSkips ==
  pc = "verify" /\ checked < Trials /\ attempts >= MaxAttempts =>
    \E w \in tried : ~Succeeds(cur, w)

Phase == IF pc \in {"start", "done", "failed"} THEN pc ELSE "running"

Contract == INSTANCE PlanAttachment WITH settled <- cur - 1, phase <- Phase

(* Seen through the document alone, the stages, candidates and trial loops *)
(* do what attach_plans promises: each method is settled once, in order,   *)
(* with no plan or one backed by Trials agreeing runs, to the end.         *)
ImplementsContract == Contract!FairSpec

----------------------------------------------------------------------------
(* What DESIGN.md says, and the code does not do. *)

(* DESIGN: nothing survives that disagrees with the bytecode; an           *)
(* expression that a trial of this method refuted is not its plan.         *)
RefutedNeverShips ==
  \A m \in Methods : Planned(m) => plan[m].expr \notin refuted[m]
=============================================================================
