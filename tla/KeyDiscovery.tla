---------------------------- MODULE KeyDiscovery -----------------------------
(***************************************************************************)
(* How discover_keys learns which storage keys a view reads: it runs the   *)
(* method on empty storage and on filled storage, and describes every key  *)
(* of the first runs as a constant or as constant bytes around a run of    *)
(* the calldata.  Bytes are drawn from a small alphabet; what the contract *)
(* reads is arbitrary.                                                     *)
(***************************************************************************)
EXTENDS Integers, Sequences, FiniteSetsExt

CONSTANTS
  Byte,
  Calldata,  \* the flattened argument words a run may get: byte sequences
  KeyLists,  \* the sequences of keys a run may request
  Baseline, Confirming, \* how many runs on empty and on filled storage
  MaxKeys,   \* the most keys a method may read
  NoKey      \* none: a template that lies beyond the calldata

ASSUME CountAssumption ==
  Baseline \in Nat \ {0} /\ Confirming \in Nat \ {0} /\ MaxKeys \in Nat

ASSUME InputAssumption ==
  Calldata \subseteq Seq(Byte) /\ KeyLists \subseteq Seq(Seq(Byte)) /\ NoKey \notin Seq(Byte)

VARIABLES
  stage,     \* "baseline", "confirm" or "done"
  runs,      \* the runs on empty storage: [args, keys]
  confirmed, \* how many runs on filled storage are done
  result     \* what discover_keys returns

vars == <<stage, runs, confirmed, result>>

NotYet    == [kind |-> "none yet"]
Nothing   == [kind |-> "None"]
Failure   == [kind |-> "Err"]
Model(ks) == [kind |-> "Some", keys |-> ks]

Runs == [args : Calldata, keys : KeyLists]

Init ==
  /\ stage = "baseline" /\ runs = <<>> /\ confirmed = 0
  /\ result = NotYet

Return(r) == stage' = "done" /\ result' = r

----------------------------------------------------------------------------
(* Recovering a template. *)

Bytes(s, from, n) == SubSeq(s, from + 1, from + n)

Windows(haystack, needle) ==
  {s \in 0 .. Len(haystack) - Len(needle) :
     Bytes(haystack, s, Len(needle)) = needle}

Const(key) == [kind |-> "Const", key |-> key]

(* concrete_key: the key a shape stands for, unless it lies beyond the     *)
(* calldata.                                                               *)
ConcreteKey(shape, cd) ==
  IF shape.kind = "Const" THEN shape.key
  ELSE IF shape.start + shape.len > Len(cd) THEN NoKey
  ELSE shape.prefix \o Bytes(cd, shape.start, shape.len) \o shape.suffix

SlotKeys(i) == {runs[r].keys[i] : r \in 1 .. Len(runs)}

Explains(shape, i) ==
  \A r \in 1 .. Len(runs) : ConcreteKey(shape, runs[r].args) = runs[r].keys[i]

(* All keys of the slot have the byte of the first at position j.          *)
Shared(i, j) == \A k \in SlotKeys(i) : j <= Len(k) /\ k[j] = runs[1].keys[i][j]

SuffixForgotten(i) ==
  LET n   == Len(runs[1].keys[i])
      pre == Max({p \in 0 .. n : \A j \in 1 .. p : Shared(i, j)})
  IN  [pre |-> pre, len |-> n - pre]

(* The bytes between the longest common prefix and the then longest common *)
(* suffix of the keys of a slot.                                           *)
Region(i) ==
  LET n   == Len(runs[1].keys[i])
      pre == Max({p \in 0 .. n : \A j \in 1 .. p : Shared(i, j)})
      suf == Max({s \in 0 .. n - pre : \A j \in n - s + 1 .. n : Shared(i, j)})
  IN  [pre |-> pre, len |-> n - pre - suf]

TemplateAt(i, g, start) ==
  LET key0 == runs[1].keys[i]
  IN  [kind |-> "Templated", prefix |-> Bytes(key0, 0, g.pre),
       suffix |-> SubSeq(key0, g.pre + g.len + 1, Len(key0)),
       start |-> start, len |-> g.len]

One(S)   == CHOOSE s \in S : TRUE
First(S) == {s \in S : \A o \in S : s <= o}

SameLength(i) == \A k \in SlotKeys(i) : Len(k) = Len(runs[1].keys[i])

Found(i, g) == Windows(runs[1].args, Bytes(runs[1].keys[i], g.pre, g.len))

(* recover_template: the region is looked up in the calldata of the first  *)
(* run, where it occurs first; the shape must then explain every run.      *)
Unvalidated(i) ==
  {t \in {TemplateAt(i, Region(i), s) : s \in First(Found(i, Region(i)))} :
     SameLength(i)}

Recovered(i) ==
  {t \in {TemplateAt(i, Region(i), s) : s \in First(Found(i, Region(i)))} :
     SameLength(i) /\ Explains(t, i)}

AllSame(i) == \A k \in SlotKeys(i) : k = runs[1].keys[i]

(* A slot is constant when all runs read the same key there.               *)
Shapes(i) == IF AllSame(i) THEN {Const(runs[1].keys[i])} ELSE Recovered(i)

----------------------------------------------------------------------------
(* discover_keys *)

(* One more run on empty storage, where the keys depend on the arguments   *)
(* alone; a trap is as good as a response.                                 *)
BaselineRun(args, keys, outcome) ==
  /\ stage = "baseline" /\ Len(runs) < Baseline
  /\ outcome \in {"success", "trap"}
  /\ \A r \in 1 .. Len(runs) : runs[r].args = args => runs[r].keys = keys
  /\ runs' = Append(runs, [args |-> args, keys |-> keys])
  /\ UNCHANGED <<stage, confirmed, result>>

Stops(outcome) ==
  /\ outcome \in {"disqualified", "error"}
  /\ Return(IF outcome = "error" THEN Failure ELSE Nothing)
  /\ UNCHANGED <<runs, confirmed>>

BaselineStops(outcome) == stage = "baseline" /\ Len(runs) < Baseline /\ Stops(outcome)

KeyCount == Len(runs[1].keys)

(* Many keys, or not the same number in all runs: the method is left       *)
(* alone; without any there is nothing to describe.                        *)
CountKeys ==
  /\ stage = "baseline" /\ Len(runs) = Baseline
  /\ IF KeyCount > MaxKeys \/ \E r \in 1 .. Baseline : Len(runs[r].keys) # KeyCount
     THEN Return(Nothing)
     ELSE IF KeyCount = 0 THEN Return(Model(<<>>))
     ELSE stage' = "confirm" /\ UNCHANGED result
  /\ UNCHANGED <<runs, confirmed>>

(* A run with the keys seen so far filled: only their number is compared.  *)
ConfirmRun(keys, outcome) ==
  /\ stage = "confirm" /\ confirmed < Confirming
  /\ outcome \in {"success", "trap"}
  /\ IF Len(keys) = KeyCount
     THEN confirmed' = confirmed + 1 /\ UNCHANGED <<stage, result>>
     ELSE Return(Nothing) /\ UNCHANGED confirmed
  /\ UNCHANGED runs

ConfirmStops(outcome) == stage = "confirm" /\ confirmed < Confirming /\ Stops(outcome)

Classify ==
  /\ stage = "confirm" /\ confirmed = Confirming
  /\ IF \E i \in 1 .. KeyCount : Shapes(i) = {}
     THEN Return(Nothing)
     ELSE Return(Model([i \in 1 .. KeyCount |-> One(Shapes(i))]))
  /\ UNCHANGED <<runs, confirmed>>

Outcomes == {"success", "trap", "disqualified", "error"}

Next ==
  \/ \E cd \in Calldata, keys \in KeyLists, o \in Outcomes : BaselineRun(cd, keys, o)
  \/ \E o \in Outcomes : BaselineStops(o) \/ ConfirmStops(o)
  \/ CountKeys
  \/ \E keys \in KeyLists, o \in Outcomes : ConfirmRun(keys, o)
  \/ Classify

Spec == Init /\ [][Next]_vars

----------------------------------------------------------------------------
Kinds == {"none yet", "None", "Err", "Some"}

TypeOK ==
  /\ stage \in {"baseline", "confirm", "done"}
  /\ runs \in Seq(Runs) /\ Len(runs) <= Baseline
  /\ confirmed \in 0 .. Confirming
  /\ result.kind \in Kinds

(* A returned model rebuilds, from the arguments alone, every key that     *)
(* every run on empty storage requested, slot by slot, and describes no    *)
(* more keys than they requested (the validation in recover_template).     *)
Reproduces ==
  result.kind = "Some" =>
    \A r \in 1 .. Len(runs) :
      runs[r].keys =
        [i \in 1 .. Len(result.keys) |-> ConcreteKey(result.keys[i], runs[r].args)]

(* The templates that explain a slot and are tight, some two keys differ   *)
(* in their first and some two in their last variable byte, and whose      *)
(* variable bytes occur only once in the calldata of the first run.        *)
Splits(i) ==
  LET n == Len(runs[1].keys[i])
  IN  {g \in [pre : 0 .. n, len : 1 .. n] : g.pre + g.len <= n}

Clear(i, g) ==
  /\ \A s, o \in Found(i, g) : s = o
  /\ ~Shared(i, g.pre + 1) /\ ~Shared(i, g.pre + g.len)

Unmistakable(i) ==
  {t \in UNION {{TemplateAt(i, g, s) : s \in Found(i, g)} :
                 g \in {h \in Splits(i) : Clear(i, h)}} :
     Explains(t, i)}

Answers(i) == IF AllSame(i) THEN {Const(runs[1].keys[i])} ELSE Unmistakable(i)

(* What the runs leave no doubt about is found: a slot that reads one key  *)
(* throughout, or whose keys one unmistakable template explains, gets that *)
(* description, and the method a model when that goes for all its slots.   *)
Identifies ==
  stage = "done" /\ confirmed = Confirming =>
    /\ (\A i \in 1 .. KeyCount : Answers(i) # {}) => result.kind = "Some"
    /\ result.kind = "Some" =>
         \A i \in 1 .. KeyCount : Answers(i) \subseteq {result.keys[i]}
=============================================================================
