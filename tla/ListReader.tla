----------------------------- MODULE ListReader ------------------------------
(***************************************************************************)
(* How try_list_plan recognizes a view that concatenates a stored list:    *)
(* two probes show the keys of a list, the base of these keys is taken for *)
(* a constant or for the height between constant bytes, and randomized     *)
(* trials compare the loop plan with the contract.                         *)
(***************************************************************************)
EXTENDS ListBases, Functions

VARIABLES
  guest,    \* the view: a list read from some base, or anything
  step,     \* "empty", "count", "trials" or "done"
  template, \* the BaseTemplate recovered, NoTemplate before
  checked, attempts,
  plan,     \* what try_list_plan returns
  \* history
  elsewhere \* some trial with elements, at another height, agreed

listvars == <<guest, step, template, checked, attempts, plan, elsewhere>>

Anything == [reads |-> "anything"]
List(t)  == [reads |-> "list", base |-> t]
NoPlan   == [kind |-> "None"]
Unknown  == [kind |-> "none yet"]
Loop(t)  == [kind |-> "loop", base |-> t]

Start(g) ==
  /\ guest = g /\ step = "empty"
  /\ template = NoTemplate /\ checked = 0 /\ attempts = 0
  /\ plan = Unknown /\ elsewhere = FALSE

ReaderInit == \E g \in {Anything} \cup {List(t) : t \in Templates} : Start(g)

(* What is returned is all that remains of a call: its locals are gone,    *)
(* and which view it was does not matter any more.                         *)
ReturnNone ==
  /\ step' = "done" /\ plan' = NoPlan /\ guest' = Anything
  /\ template' = NoTemplate /\ checked' = 0 /\ attempts' = 0 /\ elsewhere' = FALSE

----------------------------------------------------------------------------
(* A run at height h, in storage that holds list under base and nothing    *)
(* else: a list read, of the guest or of a plan, finds it or no length.    *)
ReadList(t, h, base, list) == IF Concrete(t, h) = base THEN list ELSE <<>>

ListRun(t, h, base, list) ==
  LET own  == Concrete(t, h)
      data == ReadList(t, h, base, list)
  IN  [outcome |-> "success", data |-> data,
       keys |-> <<LengthKey(own)>> \o [i \in 1 .. Len(data) |-> ElementKey(own, i - 1)]]

Strays == [outcome : {"success", "other", "error"}, data : Lists, keys : StrayKeys]

RunsAt(h, base, list) ==
  IF guest = Anything THEN Strays ELSE {ListRun(guest.base, h, base, list)}

(* On empty storage exactly one key must be read, that of a length.        *)
EmptyProbe(run) ==
  /\ step = "empty" /\ run \in RunsAt(Default, <<>>, <<>>)
  /\ IF run.outcome = "success" /\ Len(run.keys) = 1 /\ run.keys[1].tail = "length"
     THEN /\ step' = "count" /\ template' = [NoTemplate EXCEPT !.prefix = run.keys[1].base]
          /\ UNCHANGED <<guest, checked, attempts, plan, elsewhere>>
     ELSE ReturnNone

(* With a length under that key the elements must be read as well; the     *)
(* base is then generalized (so far it is the prefix of the template).     *)
CountProbe(run) ==
  /\ step = "count"
  /\ run \in RunsAt(Default, template.prefix, [i \in 1 .. ProbeN |-> <<>>])
  /\ IF /\ run.outcome = "success"
        /\ \A i \in 0 .. ProbeN - 1 : ElementKey(template.prefix, i) \in Range(run.keys)
     THEN /\ step' = "trials" /\ template' = Templatize(template.prefix)
          /\ UNCHANGED <<guest, checked, attempts, plan, elsewhere>>
     ELSE ReturnNone

AtProbeHeight(h) == Concrete(template, Default)

(* Where a trial at that height stores its list.                           *)
ListBase(h) == Concrete(template, h)

(* verify_list: a run that does not succeed is skipped, one that succeeds  *)
(* must return what the plan computes from the same storage.               *)
Trial(h, list, run) ==
  /\ step = "trials" /\ checked < Trials /\ attempts < MaxAttempts
  /\ run \in RunsAt(h, ListBase(h), list)
  /\ IF \/ run.outcome = "error"
        \/ run.outcome = "success" /\ run.data # ReadList(template, h, ListBase(h), list)
     THEN ReturnNone
     ELSE /\ attempts' = attempts + 1
          /\ IF run.outcome = "success"
             THEN /\ checked' = checked + 1
                  /\ elsewhere' = (elsewhere \/ (list # <<>> /\ h # Default))
             ELSE UNCHANGED <<checked, elsewhere>>
          /\ UNCHANGED <<guest, step, template, plan>>

Conclude ==
  /\ step = "trials" /\ (checked = Trials \/ attempts = MaxAttempts)
  /\ IF checked = Trials
     THEN /\ step' = "done" /\ plan' = Loop(template)
          /\ UNCHANGED <<guest, template, checked, attempts, elsewhere>>
     ELSE ReturnNone

ReaderNext ==
  \/ \E run \in RunsAt(Default, <<>>, <<>>) : EmptyProbe(run)
  \/ \E run \in RunsAt(Default, template.prefix, [i \in 1 .. ProbeN |-> <<>>]) : CountProbe(run)
  \/ \E h \in Heights, list \in Lists : \E run \in RunsAt(h, ListBase(h), list) :
       Trial(h, list, run)
  \/ Conclude

ReaderSpec == ReaderInit /\ [][ReaderNext]_listvars

----------------------------------------------------------------------------
ReaderTypes ==
  /\ guest \in {Anything} \cup {List(t) : t \in Templates}
  /\ step \in {"empty", "count", "trials", "done"}
  /\ template \in Bases
  /\ checked \in 0 .. Trials /\ attempts \in 0 .. MaxAttempts /\ checked <= attempts
  /\ plan \in {Unknown, NoPlan, Loop(template)}
  /\ elsewhere \in BOOLEAN

(* A plan of a list, once a single trial with elements at a height other   *)
(* than the probes' agreed, reads the very list of the contract at every   *)
(* height: however the bytes of a height recur in the base, there is no    *)
(* second template through both points (templatize, verify_list).          *)
PinnedBase ==
  plan.kind = "loop" /\ guest # Anything /\ elsewhere =>
    \A h \in Heights : Concrete(plan.base, h) = Concrete(guest.base, h)

(* A list whose base holds the bytes of the probes' height only where the  *)
(* height is, if anywhere, is never given up.                              *)
Plain(t) ==
  Places(Concrete(t, Default), Default) = IF t.hasHeight THEN {Len(t.prefix)} ELSE {}

PlainListsKept ==
  [][plan' = NoPlan /\ plan # NoPlan => guest = Anything \/ ~Plain(guest.base)]_listvars
=============================================================================
