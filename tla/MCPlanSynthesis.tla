--------------------------- MODULE MCPlanSynthesis ---------------------------
(* Instances of PlanSynthesis for TLC. *)
EXTENDS PlanSynthesis

CONSTANTS w0, w1, w2, a, b

\* w0 has empty storage; w1 and w2 are populated, w1 with scalars (drawn by
\* the Integer distribution), w2 with strings (drawn by the Stringy one).
MCWorlds  == {w0, w1, w2}
MCEmptied == [w \in MCWorlds |-> w0]
MCDrawnBy ==
  [discover |-> {w0, w1}, list |-> {w0, w1}, Integer |-> {w0, w1},
   Stringy |-> {w0, w2}, lifted |-> {w0, w1, w2}]
MCData    == {a, b}

\* contracts that are constant, differ or fail in one world, or in all; list readers
\* that fail in one world (a length beyond the limit)
Always(o)      == [w \in MCWorlds |-> o]
But(f, w, o)   == [f EXCEPT ![w] = o]
FewBehaviours  ==
  {Always(a), But(Always(a), w1, b), But(Always(a), w2, b), But(Always(a), w1, Trap),
   Always(Trap), But(Always(a), w1, Disqualified), But(Always(a), w0, RunError)}
FewTotal       == {Always(a), But(Always(a), w1, b)}
FewLists       == {But(Always(a), w1, EvalError)}
FewExprs       == FewTotal \cup FewLists
FewProposed    ==
  [discover |-> {}, list |-> FewLists, Integer |-> FewTotal, Stringy |-> FewTotal,
   lifted |-> FewTotal]
=============================================================================
