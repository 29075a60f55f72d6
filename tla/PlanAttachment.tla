--------------------------- MODULE PlanAttachment ---------------------------
(***************************************************************************)
(* What attach_plans promises its caller, without how candidates are found *)
(* or tried: methods are settled in document order; settling a view that   *)
(* has no plan either leaves it so, or attaches one expression that the    *)
(* bytecode agreed with in as many runs as the plan records.               *)
(***************************************************************************)
EXTENDS Integers

CONSTANTS N, Worlds, Data, Exprs, NoPlan, Trials

VARIABLES
  wasm, kind,   \* the contract and the kinds of its methods, fixed
  plan,         \* plan[m], or NoPlan
  settled,      \* the first settled methods of the document
  phase         \* "start", "running", "done" or "failed"

fixed == <<wasm, kind>>
vars  == <<fixed, plan, settled, phase>>

(* ws are worlds in which the bytecode of m succeeds as e says. *)
Witness(m, e, ws) ==
  \A i \in 1 .. Trials : wasm[m][ws[i]] \in Data /\ e[ws[i]] = wasm[m][ws[i]]

Attach(m, e) ==
  /\ kind[m] = "View" /\ plan[m] = NoPlan
  /\ \E ws \in [1 .. Trials -> Worlds] : Witness(m, e, ws)
  /\ plan' = [plan EXCEPT ![m] = [expr |-> e, trials |-> Trials]]

Init == settled = 0 /\ phase = "start"

(* The prober is built, or cannot be: then nothing is attached at all. *)
Open ==
  /\ phase = "start"
  /\ phase' \in {"running", "failed"}
  /\ UNCHANGED <<fixed, plan, settled>>

Settle ==
  /\ phase = "running" /\ settled < N
  /\ settled' = settled + 1
  /\ UNCHANGED plan \/ \E e \in Exprs : Attach(settled + 1, e)
  /\ UNCHANGED <<fixed, phase>>

Close ==
  /\ phase = "running" /\ settled = N
  /\ phase' = "done"
  /\ UNCHANGED <<fixed, plan, settled>>

Next == Open \/ Settle \/ Close

Spec == Init /\ [][Next]_vars

FairSpec == Spec /\ WF_vars(Next)
=============================================================================
