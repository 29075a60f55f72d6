---------------------------- MODULE MCLiftSearch -----------------------------
(* Methods over three keys and two archetypes.  Under each archetype a     *)
(* method is either any function of the widths of two keys (a table), or a *)
(* reader of up to three keys that traps on the first whose width it does  *)
(* not accept.  A method is one of each, or fails under an archetype.      *)
EXTENDS LiftSearch

CONSTANTS k1, k2, k3

Ran(e, s) == [end |-> e, read |-> s]

AnyEnd ==
  {Ran("data", <<k1, k2>>), Ran("trap", <<>>), Ran("trap", <<k1>>),
   Ran("trap", <<k1, k2>>), Ran("trap", <<k2, k1>>)}
Tables == [WidthSet -> [WidthSet -> AnyEnd]]

Orders  == {<<k1>>, <<k1, k2, k3>>, <<k3, k1, k3, k2>>}
Readers == [order : Orders, accepts : [Keys -> {{16}, {8}, {8, 16}}]]

Failures == {Ran("unlowered", <<k1>>), Ran("other", <<k2>>),
             Ran("trap", <<>>), Ran("trap", <<k1>>)}

MCMethods ==
  {<<[table |-> g], [reader |-> r]>> : g \in Tables, r \in Readers}
    \cup {<<[fails |-> e], [reader |-> r]>> : e \in Failures, r \in Readers}
    \cup {<<[reader |-> r], [fails |-> e]>> : e \in Failures, r \in Readers}

ReaderRun(s, accepts, f) ==
  LET bad == {i \in 1 .. Len(s) : f[s[i]] \notin accepts[s[i]]}
  IN  IF bad = {} THEN Ran("data", s)
      ELSE Ran("trap", SubSeq(s, 1, CHOOSE i \in bad : \A j \in bad : i <= j))

MCRunOf(m, b, f) ==
  LET d == m[b] IN
    CASE DOMAIN d = {"table"}  -> d.table[f[k1]][f[k2]]
      [] DOMAIN d = {"reader"} -> ReaderRun(d.reader.order, d.reader.accepts, f)
      [] DOMAIN d = {"fails"}  -> d.fails
=============================================================================
