----------------------------- MODULE LiftControl -----------------------------
(***************************************************************************)
(* The control flow of the concolic interpreter: Interp::exec_body runs    *)
(* one wasm function body over a value stack vs and a control stack cs.    *)
(* Operands are reduced to truth values. An operator that computes and     *)
(* cannot fail (a constant, a local, most arithmetic) is as many "drop" as *)
(* it takes operands and a "push", whose value may be either; those that   *)
(* can fail are divisions and the accesses to memory.                      *)
(***************************************************************************)
EXTENDS Integers, Sequences, FiniteSets

CONSTANTS
  Functions,  \* function bodies: [code : sequence of operators, results : 0..1]
  MaxSteps    \* Interp.max_steps

(* An operator: its name, the arity of a block or the depth (the default   *)
(* depth) of a branch, and the target depths of a br_table.                *)
(* "div_u" is an unsigned division or remainder, "div_s" i32.div_s; "load" *)
(* is a load or memory.grow, "store" a store (a fill or copy, after one    *)
(* "drop").                                                                *)
Openers   == {"block", "loop", "if"}
Branchers == {"br", "br_if", "br_table"}
Dividers  == {"div_u", "div_s"}
Accesses  == {"load", "store"}
OpNames == Openers \cup Branchers \cup Dividers \cup Accesses \cup
  {"else", "end", "return", "push", "drop", "unreachable"}

Operators == [op : OpNames, n : Nat, ts : Seq(Nat)]

ASSUME StepsAssumption == MaxSteps \in Nat
ASSUME FunctionsAssumption ==
  \A f \in Functions : f.results \in {0, 1} /\ f.code \in Seq(Operators)

Top(s)   == s[Len(s)]
Pop(s)   == SubSeq(s, 1, Len(s) - 1)

(* block_structure: one pass over the body with a stack of open blocks,    *)
(* here after operator i.                                                  *)
ScanStep(code, i, s) ==
  LET op    == code[i].op
      top   == Top(s.open)
      on(o) == op = o /\ s.open # <<>>
  IN  [open  |-> IF op \in Openers THEN Append(s.open, i)
                 ELSE IF on("end") THEN Pop(s.open) ELSE s.open,
       ends  |-> s.ends \cup IF on("end") THEN {<<top, i>>} ELSE {},
       elses |-> IF on("else") THEN {p \in s.elses : p[1] # top} \cup {<<top, i>>}
                 ELSE s.elses]

Scanned(code) ==
  LET scan[i \in 0 .. Len(code)] ==
        IF i = 0 THEN [open |-> <<>>, ends |-> {}, elses |-> {}]
        ELSE ScanStep(code, i, scan[i - 1])
  IN  scan

Scan(code) == Scanned(code)[Len(code)]

VARIABLES
  fn,      \* the function that runs; never changes
  ends, elses, \* what block_structure found: pairs <<opener, operator>>
  pc, vs, cs, steps,
  status   \* "running", "returned", "trap" (an error) or "panic"

vars == <<fn, ends, elses, pc, vs, cs, steps, status>>

Code == fn.code
EndOf(o) == (CHOOSE p \in ends : p[1] = o)[2]

Init ==
  /\ fn \in Functions
  /\ ends = Scan(fn.code).ends /\ elses = Scan(fn.code).elses
  /\ pc = 1 /\ vs = <<>> /\ cs = <<>> /\ steps = 0
  /\ status = "running"

BranchesAreFree(o) ==
  /\ status = "running" /\ pc \in 1 .. Len(Code)
  /\ steps < MaxSteps
  /\ Code[pc].op = o
  /\ steps' = IF o \in {"br", "br_if"} THEN 0 ELSE steps + 1
  /\ UNCHANGED <<fn, ends, elses>>

OneStepMore(o) ==
  /\ status = "running" /\ pc \in 1 .. Len(Code)
  /\ steps <= MaxSteps
  /\ Code[pc].op = o
  /\ steps' = steps + 1
  /\ UNCHANGED <<fn, ends, elses>>

(* One turn of the loop on operator o, within the step budget.             *)
Fetch(o) ==
  /\ status = "running" /\ pc \in 1 .. Len(Code)
  /\ steps < MaxSteps
  /\ Code[pc].op = o
  /\ steps' = steps + 1
  /\ UNCHANGED <<fn, ends, elses>>

Goto(p)  == pc' = p /\ UNCHANGED status
Stop(s)  == status' = s /\ UNCHANGED pc
Last(s, k) == SubSeq(s, Len(s) - k + 1, Len(s))

(* Popping an empty value stack is an error of the run.                    *)
Fail(s)   == Stop(s) /\ UNCHANGED <<vs, cs>>
Underflow == vs = <<>> /\ Fail("trap")

Ctrl(stack, k) ==
  [end |-> EndOf(pc), cont |-> IF k = "loop" THEN pc + 1 ELSE EndOf(pc) + 1,
   arity |-> IF k = "loop" THEN 0 ELSE Code[pc].n,
   height |-> Len(stack), loop |-> k = "loop"]

----------------------------------------------------------------------------
BlockOrLoop ==
  /\ \E k \in {"block", "loop"} : Fetch(k) /\ cs' = Append(cs, Ctrl(vs, k))
  /\ Goto(pc + 1) /\ UNCHANGED vs

(* Without an else the frame just pushed is popped, and the next turn is   *)
(* for the end operator itself.                                            *)
SkipThen(rest) == vs' = rest /\ UNCHANGED cs /\ Goto(EndOf(pc))

EnterIf(c, rest) ==
  LET other == {p[2] : p \in {q \in elses : q[1] = pc}} IN
  IF c = 0 /\ other = {}
  THEN SkipThen(rest)
  ELSE /\ vs' = rest /\ cs' = Append(cs, Ctrl(rest, "if"))
       /\ Goto((IF c = 0 THEN CHOOSE e \in other : TRUE ELSE pc) + 1)

If ==
  /\ Fetch("if")
  /\ Underflow \/ (vs # <<>> /\ EnterIf(Top(vs), Pop(vs)))

Else ==
  /\ Fetch("else") /\ UNCHANGED <<vs, cs>>
  /\ \/ cs # <<>> /\ Goto(Top(cs).end)
     \/ cs = <<>> /\ Stop("trap")

(* Results are popped off the value stack, and nothing else is looked at.  *)
Results ==
  IF Len(vs) < fn.results
  THEN Stop("trap") /\ UNCHANGED <<vs, cs>>
  ELSE Stop("returned") /\ vs' = Last(vs, fn.results) /\ UNCHANGED cs

End ==
  /\ Fetch("end")
  /\ \/ cs # <<>> /\ cs' = Pop(cs) /\ Goto(pc + 1) /\ UNCHANGED vs
     \/ cs = <<>> /\ Results

Return == Fetch("return") /\ Results

(* do_branch to the label d levels out, the innermost being 0: the kept    *)
(* values are carried over those dropped above the height of the label,    *)
(* and so many blocks are closed.                                          *)
Target(d) == cs[Len(cs) - d]

Branching(d, stack, kept, closed) ==
  IF d >= Len(cs) THEN Stop("panic") /\ UNCHANGED cs /\ vs' = stack
  ELSE LET keep == IF Len(stack) >= kept THEN Last(stack, kept) ELSE <<>>
           rest == SubSeq(stack, 1, Len(stack) - Len(keep))
           low  == IF Target(d).height < Len(rest) THEN Target(d).height ELSE Len(rest)
       IN  /\ vs' = SubSeq(rest, 1, low) \o keep
           /\ cs' = SubSeq(cs, 1, Len(cs) - closed)
           /\ Goto(Target(d).cont)

BranchDropsAll(d, stack) ==
  Branching(d, stack, 0, IF Target(d).loop THEN d ELSE d + 1)

BranchKeepsFrame(d, stack) == Branching(d, stack, Target(d).arity, d)

BranchClosesLoop(d, stack) == Branching(d, stack, Target(d).arity, d + 1)

(* The label of a loop stays open. *)
Branch(d, stack) ==
  Branching(d, stack, Target(d).arity, IF Target(d).loop THEN d ELSE d + 1)

Br == Fetch("br") /\ Branch(Code[pc].n, vs)

GoOn(rest) == vs' = rest /\ UNCHANGED cs /\ Goto(pc + 1)

BranchIf(c, rest) == IF c # 0 THEN Branch(Code[pc].n, rest) ELSE GoOn(rest)

BrIf ==
  /\ Fetch("br_if")
  /\ Underflow \/ (vs # <<>> /\ BranchIf(Top(vs), Pop(vs)))

(* The index picks a target, or the default when it is beyond them.        *)
BranchTable(c, rest) ==
  LET ts == Code[pc].ts
  IN  Branch(IF c < Len(ts) THEN ts[c + 1] ELSE Code[pc].n, rest)

BrTable ==
  /\ Fetch("br_table")
  /\ Underflow \/ (vs # <<>> /\ BranchTable(Top(vs), Pop(vs)))

Push == Fetch("push") /\ \E v \in {0, 1} : GoOn(Append(vs, v))

Drop == Fetch("drop") /\ (Underflow \/ (vs # <<>> /\ GoOn(Pop(vs))))

(* What is left of the value stack below k operands. *)
Below(k) == IF k = 1 THEN Pop(vs) ELSE Pop(Pop(vs))

(* A zero divisor is the guest's own trap, but for i32.div_s: the division *)
(* of the host is called with it as it is.                                 *)
DivideByZero == Fail(IF Code[pc].op = "div_s" THEN "panic" ELSE "trap")

Divide ==
  /\ \E o \in Dividers : Fetch(o)
  /\ \/ Len(vs) < 2 /\ Fail("trap")
     \/ Len(vs) >= 2 /\ Top(vs) = 0 /\ DivideByZero
     \/ /\ Len(vs) >= 2 /\ Top(vs) # 0
        /\ \E q \in {0, Top(Pop(vs))} : GoOn(Append(Below(2), q))

(* The address decides: in range, out of range, or so large (a load that   *)
(* extends the sign leaves 64 bits of it) that its sum with the offset or  *)
(* the width wraps and the slice panics, as does a memory grown too large. *)
Operands(o) == IF o = "load" THEN 1 ELSE 2

Access ==
  /\ \E o \in Accesses : Fetch(o)
  /\ \/ Len(vs) < Operands(Code[pc].op) /\ Fail("trap")
     \/ /\ Len(vs) >= Operands(Code[pc].op)
        /\ \/ Fail("trap") \/ Fail("panic")
           \/ Code[pc].op = "store" /\ GoOn(Below(2))
           \/ Code[pc].op = "load" /\ \E v \in {0, 1} : GoOn(Append(Below(1), v))

(* unreachable, and all that is not supported: floats, block parameters.   *)
Unreachable == Fetch("unreachable") /\ Fail("trap")

(* The budget is spent, or the body has no further operator.               *)
LeaveLoop ==
  /\ status = "running"
  /\ IF pc > Len(Code) THEN Results
     ELSE steps >= MaxSteps /\ Fail("trap")
  /\ UNCHANGED <<fn, ends, elses, steps>>

Next ==
  \/ BlockOrLoop \/ If \/ Else \/ End \/ Return
  \/ Br \/ BrIf \/ BrTable \/ Push \/ Drop \/ Divide \/ Access \/ Unreachable
  \/ LeaveLoop

(* The interpreter is a loop of its own thread. *)
Spec == Init /\ [][Next]_vars /\ WF_vars(Next)

----------------------------------------------------------------------------
Ctrls == [end : Nat, cont : Nat, arity : {0, 1}, height : Nat, loop : BOOLEAN]

TypeOK ==
  /\ fn \in Functions
  /\ pc \in Nat \ {0}
  /\ vs \in Seq({0, 1})
  /\ cs \in Seq(Ctrls)
  /\ steps \in 0 .. MaxSteps
  /\ status \in {"running", "returned", "trap", "panic"}

(* Between two operators the control stack holds exactly the blocks that   *)
(* enclose the next one, the innermost last: no jump, fall-through or end  *)
(* leaves a block behind or closes one too many.                           *)
NestingMirrored ==
  status = "running" =>
    /\ {cs[i].end : i \in 1 .. Len(cs)} =
         {p[2] : p \in {q \in ends : q[1] < pc /\ pc <= q[2]}}
    /\ \A i \in 1 .. Len(cs) - 1 : cs[i].end > cs[i + 1].end

(* What wasm validation computes in one pass: after operator i, the height *)
(* of the value stack where control falls through, or Dead where it cannot *)
(* arrive, and the blocks open there with the heights at their starts.     *)
Dead == -1
Block(at, h, n) == [at |-> at, h |-> h, n |-> n]

(* Blocks end with the height at their start and their results.            *)
Before(op, s) ==
  IF op.op = "end" /\ s.open # <<>> /\ Top(s.open).h # Dead
  THEN Top(s.open).h + Top(s.open).n ELSE s.h

After(op, h) ==
  IF h = Dead \/ op.op \in {"br", "br_table", "return", "unreachable"} THEN Dead
  ELSE IF op.op \in {"if", "br_if", "drop"} \cup Dividers THEN h - 1
  ELSE IF op.op = "store" THEN h - 2
  ELSE IF op.op = "push" THEN h + 1
  ELSE h

ValidStep(op, i, s) ==
  LET h == After(op, Before(op, s))
  IN  [h    |-> IF op.op = "else" /\ s.open # <<>> THEN Top(s.open).h ELSE h,
       open |-> IF op.op \in Openers THEN Append(s.open, Block(i, h, op.n))
                ELSE IF op.op = "end" THEN Pop(s.open) ELSE s.open]

Validation(code) ==
  LET valid[i \in 0 .. Len(code)] ==
        IF i = 0 THEN [h |-> 0, open |-> <<>>] ELSE ValidStep(code[i], i, valid[i - 1])
  IN  valid

StaticHeight(code) ==
  LET valid == Validation(code)
  IN  [i \in 1 .. Len(code) |-> Before(code[i], valid[i - 1])]

(* What validation demands of operator i where it finds the state s: that  *)
(* operands, results and labels are there, that every else belongs to an   *)
(* if, and that the last operator alone ends the body.                     *)
Labels(op) == {op.n} \cup {op.ts[k] : k \in DOMAIN op.ts}

ResultsThere(s) == s.h \in {Dead, Top(s.open).h + Top(s.open).n}

LabelsFit(code, s, op, h) ==
  \A d \in Labels(op) :
    /\ d <= Len(s.open)
    /\ d < Len(s.open) =>
         LET b == s.open[Len(s.open) - d]
         IN  h >= b.h + (IF code[b.at].op = "loop" THEN 0 ELSE b.n)

OperatorFits(code, results, i, s) ==
  LET op == code[i]
      h  == Before(op, s)
  IN  /\ op.op \in Openers => op.n \in {0, 1}
      /\ op.op \in {"if", "br_if", "br_table", "drop", "load"} => h # 0
      /\ op.op \in Dividers \cup {"store"} => h \notin {0, 1}
      /\ op.op = "else" =>
           s.open # <<>> /\ code[Top(s.open).at].op = "if" /\ ResultsThere(s)
      /\ op.op = "end" =>
           IF i = Len(code) THEN s.open = <<>> /\ h \in {Dead, results}
           ELSE s.open # <<>> /\ ResultsThere(s)
      /\ op.op = "return" /\ h # Dead => h >= results
      /\ op.op = "br" /\ h # Dead => LabelsFit(code, s, op, h)
      /\ op.op \in {"br_if", "br_table"} /\ h # Dead => LabelsFit(code, s, op, h - 1)

(* Operator i belongs to the block that operator o opens.                  *)
Belongs(code, i, name, o) ==
  LET open == Validation(code)[i - 1].open
  IN  code[i].op = name /\ open # <<>> /\ Top(open).at = o

Validated(f) ==
  LET valid == Validation(f.code) IN
  /\ f.code # <<>> /\ f.code[Len(f.code)].op = "end"
  /\ \A i \in 1 .. Len(f.code) : OperatorFits(f.code, f.results, i, valid[i - 1])
  /\ \A i, j \in 1 .. Len(f.code) : \A o \in 1 .. Len(f.code) :
       Belongs(f.code, i, "else", o) /\ Belongs(f.code, j, "else", o) => i = j

(* The ifs that the interpreter treats as wasm does: those with an else.   *)
NoBareIf(f) ==
  \A o \in 1 .. Len(f.code) :
    f.code[o].op = "if" => \E i \in 1 .. Len(f.code) : Belongs(f.code, i, "else", o)

Heights == [f \in Functions |-> StaticHeight(f.code)]

(* Every operator is reached with the height of the value stack that       *)
(* validation gave it, whichever way led there: branches keep the values   *)
(* of their label and drop exactly those above its height.                 *)
HeightIsStatic ==
  status = "running" /\ pc <= Len(Code) => Len(vs) = Heights[fn][pc]

(* The function is left by its return operators and its last end alone.    *)
LeftAtTheEnd ==
  [][status' = "returned" => Code[pc].op = "return" \/ pc = Len(Code)]_vars

(* Where wasm, too, may trap: unreachable code, a divisor that is zero and *)
(* an access to memory, each with its operands there.                      *)
GuestTraps ==
  \/ Code[pc].op = "unreachable"
  \/ Code[pc].op = "div_u" /\ Len(vs) >= 2 /\ Top(vs) = 0
  \/ Code[pc].op \in Accesses /\ Len(vs) >= Operands(Code[pc].op)

(* A body that the probe host could instantiate is type-checked: running   *)
(* it fails for a spent budget or where the guest may trap as well, never  *)
(* for an operand, a result or a frame that is not there.                  *)
OnlyHonestTraps == status = "trap" => steps = MaxSteps \/ GuestTraps

(* do_branch finds the frame of its label, whatever was branched out of    *)
(* before, for every label but the function's: one level out of every      *)
(* block, where it panics.                                                 *)
OnlyOutwardBranchesPanic ==
  LET enclosing == {p \in ends : p[1] < pc /\ pc < p[2]}
  IN  status = "panic" /\ Code[pc].op \in Branchers =>
        Cardinality(enclosing) \in Labels(Code[pc])

(* Every run comes to an end, loops that never exit included.              *)
Ends == <>(status # "running")
=============================================================================
