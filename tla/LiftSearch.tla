------------------------------ MODULE LiftSearch -------------------------------
(***************************************************************************)
(* lift_view: the search for a run of the interpreter that can be lifted.  *)
(* The values handed to the contract follow an archetype; the width of a   *)
(* key starts at 16 bytes and is narrowed when the run traps right after   *)
(* the key was read.  The widths under which a run was lifted then decide  *)
(* what verify_lifted stores in its trials.                                *)
(*                                                                         *)
(* The interpreter is deterministic: what it does depends on nothing but   *)
(* the method, the archetype and the width in which each key is served     *)
(* (RunOf), in an arbitrary way.                                           *)
(***************************************************************************)
EXTENDS Integers, Sequences, FiniteSets

CONSTANTS
  Keys,         \* storage keys
  Archetypes,   \* number of value archetypes
  MaxAttempts,  \* runs per archetype
  Methods,      \* the methods of an instance
  RunOf(_, _, _), \* the run of a method under an archetype and widths
  NoLift

(* WIDTH_CANDIDATES, most common first. *)
WidthCandidates == <<16, 8>>
WidthSet        == {16, 8}
AllWidths       == [Keys -> WidthSet]

(* data: the response was found and lowered; unlowered: found only;        *)
(* other: disqualified or unsupported.  read: the keys the oracle was      *)
(* asked for, in order.                                                    *)
Runs == [end : {"data", "unlowered", "trap", "other"}, read : Seq(Keys)]

PartialWidths   == UNION {[D -> WidthSet] : D \in SUBSET Keys}

(* What lift_view returns, with the archetype and keys it was found under. *)
Lifts == [base : 1 .. Archetypes, widths : PartialWidths, read : Seq(Keys)]

ASSUME BoundsAssumption ==
  Archetypes \in Nat /\ MaxAttempts \in Nat /\ IsFiniteSet(Keys)
ASSUME NoLiftAssumption == NoLift \notin Lifts
ASSUME MethodAssumption ==
  \A m \in Methods : \A b \in 1 .. Archetypes : \A f \in AllWidths :
    RunOf(m, b, f) \in Runs

VARIABLES
  method,    \* never changes
  base,      \* the archetype tried
  attempts,  \* runs made under it
  widths,    \* widths chosen for the keys narrowed, under this archetype
  cand_idx,  \* their positions in WidthCandidates, counted from 0
  order,     \* keys the last run asked for
  lift,      \* what lift_view returns, or NoLift
  drawn,     \* what a trial of verify_lifted stores: keys to widths
  seen       \* history: the runs made in order, as archetype and widths

vars == <<method, base, attempts, widths, cand_idx, order, lift, drawn, seen>>

Empty == [k \in {} |-> 0]

Init ==
  /\ method \in Methods
  /\ base = 1 /\ attempts = 0
  /\ widths = Empty /\ cand_idx = Empty
  /\ order = <<>>
  /\ lift = NoLift
  /\ drawn = Empty
  /\ seen = <<>>

WidthOf(ws, k) == IF k \in DOMAIN ws THEN ws[k] ELSE WidthCandidates[1]
Served(ws)     == [k \in Keys |-> WidthOf(ws, k)]
Run            == RunOf(method, base, Served(widths))
Put(f, k, v)   == [j \in DOMAIN f \cup {k} |-> IF j = k THEN v ELSE f[j]]

SameCandidate(k) == 1

(* The candidate after the one in use, as an index from 0. *)
NextCandidate(k) == IF k \in DOMAIN cand_idx THEN cand_idx[k] + 1 ELSE 1

LastKey == order'[Len(order')]

(* An attempt: order is cleared and filled by the run. *)
Attempt ==
  /\ lift = NoLift /\ base <= Archetypes /\ attempts < MaxAttempts
  /\ order' = Run.read
  /\ seen' = Append(seen, <<base, Served(widths)>>)
  /\ UNCHANGED <<method, drawn>>

KeepWidths ==
  /\ base' = base + 1 /\ attempts' = 0
  /\ UNCHANGED <<widths, cand_idx, lift>>

(* break: the next archetype starts from fresh widths. *)
NextArchetype ==
  /\ base' = base + 1 /\ attempts' = 0
  /\ widths' = Empty /\ cand_idx' = Empty
  /\ UNCHANGED lift

Lifted ==
  /\ Attempt /\ Run.end = "data"
  /\ lift' = [base |-> base, widths |-> widths, read |-> Run.read]
  /\ UNCHANGED <<base, attempts, widths, cand_idx>>

(* Lowering failed, or the run was disqualified or unsupported.            *)
Fruitless ==
  /\ Attempt /\ Run.end \in {"unlowered", "other"}
  /\ NextArchetype

TrapsUnread ==
  /\ Attempt /\ Run.end = "trap" /\ order' = <<>>
  /\ NextArchetype

Narrow ==
  /\ Attempt /\ Run.end = "trap" /\ order' # <<>>
  /\ LET next == NextCandidate(LastKey) IN
       /\ next < Len(WidthCandidates)
       /\ cand_idx' = Put(cand_idx, LastKey, next)
       /\ widths' = Put(widths, LastKey, WidthCandidates[next + 1])
  /\ attempts' = attempts + 1
  /\ UNCHANGED <<base, lift>>

Exhausted ==
  /\ Attempt /\ Run.end = "trap" /\ order' # <<>>
  /\ NextCandidate(LastKey) >= Len(WidthCandidates)
  /\ NextArchetype

OneMoreAttempt ==
  /\ lift = NoLift /\ base <= Archetypes /\ attempts > MaxAttempts
  /\ NextArchetype
  /\ UNCHANGED <<method, order, drawn, seen>>

OutOfAttempts ==
  /\ lift = NoLift /\ base <= Archetypes /\ attempts >= MaxAttempts
  /\ NextArchetype
  /\ UNCHANGED <<method, order, drawn, seen>>

NarrowByDefault(ws, k) ==
  IF k \in DOMAIN ws THEN ws[k] ELSE WidthCandidates[Len(WidthCandidates)]

(* The width of what verify_lifted stores under a key. *)
DrawWidth(ws, k) == IF k \in DOMAIN ws THEN ws[k] ELSE WidthCandidates[1]

(* A trial stores values for some of the keys that the method asks for on  *)
(* empty storage, whichever these are.                                     *)
DrawTrial(populated) ==
  /\ lift # NoLift
  /\ drawn' = [k \in populated |-> DrawWidth(lift.widths, k)]
  /\ UNCHANGED <<method, base, attempts, widths, cand_idx, order, lift, seen>>

Search ==
  Lifted \/ Fruitless \/ TrapsUnread \/ Narrow \/ Exhausted \/ OutOfAttempts

Next == Search \/ \E populated \in SUBSET Keys : DrawTrial(populated)

Spec == Init /\ [][Next]_vars

(* One sequential loop; a run is bounded by the interpreter's step budget. *)
FairSpec == Spec /\ WF_vars(Search)

----------------------------------------------------------------------------
Ended == lift # NoLift \/ base > Archetypes

TypeOK ==
  /\ base \in 1 .. Archetypes + 1
  /\ attempts \in 0 .. MaxAttempts
  /\ widths \in PartialWidths
  /\ cand_idx \in [DOMAIN widths -> {1}]
  /\ order \in Seq(Keys)
  /\ lift = NoLift \/ lift \in Lifts
  /\ drawn \in PartialWidths
  /\ seen \in Seq((1 .. Archetypes) \X AllWidths)

(* No run is made twice: every retry of a trapped lift is under widths not *)
(* tried yet.  The interpreter is deterministic, so a repetition would trap *)
(* again and use up the attempts.                                          *)
NoRunTwice ==
  \A i, j \in 1 .. Len(seen) : seen[i] = seen[j] => i = j

(* The verification runs the method under the conditions of the lift: the  *)
(* last run of the search is the one that was lifted, and what a trial     *)
(* stores under a key has the width in which that run was served it.       *)
TrialsLikeLift ==
  lift # NoLift =>
    LET last == seen[Len(seen)] IN
      /\ RunOf(method, last[1], last[2]).end = "data"
      /\ last[1] = lift.base
      /\ \A k \in DOMAIN drawn : drawn[k] = last[2][k]

(* A method whose only trouble under archetype b are widths: it goes       *)
(* through its keys, traps right after one that comes in a width it does   *)
(* not accept, and answers if there is none.                               *)
Decodes(b, accepts) ==
  \A f \in AllWidths :
    LET run  == RunOf(method, b, f)
        read == run.read
        Bad(i) == f[read[i]] \notin accepts[read[i]]
    IN  IF run.end = "trap"
        THEN /\ read # <<>> /\ Bad(Len(read))
             /\ \A i \in 1 .. Len(read) - 1 : ~Bad(i)
        ELSE run.end = "data" /\ \A i \in 1 .. Len(read) : ~Bad(i)

NarrowKeys(accepts) == {k \in Keys : 16 \notin accepts[k]}

(* Greedy narrowing finds the widths of any such method, as long as the    *)
(* attempts suffice for its narrow keys, whatever earlier archetypes did.  *)
NothingMissed ==
  lift = NoLift /\ base > Archetypes =>
    \A b \in 1 .. Archetypes :
      \A accepts \in [Keys -> (SUBSET WidthSet) \ {{}}] :
        Decodes(b, accepts) => Cardinality(NarrowKeys(accepts)) >= MaxAttempts

(* The search ends whatever the method does. *)
Ends == <>Ended
=============================================================================
