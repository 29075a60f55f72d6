-------------------------- MODULE RecognitionProofs --------------------------
(***************************************************************************)
(* That a model of discover_keys reproduces the runs it was made from and  *)
(* is found where these determine it, and that one trial at another height *)
(* pins the base of a list and no plain list is given up: for every        *)
(* alphabet, any calldata, keys, bases and width of heights, any number of *)
(* runs and trials, and for the two tried one after the other.             *)
(***************************************************************************)
EXTENDS Recognition, SequenceTheorems, WellFoundedInduction, TLAPS

----------------------------------------------------------------------------
(* Sequences. *)

(* A nonempty set of numbers has a least one, in place of induction.       *)
LEMMA Smallest ==
  ASSUME NEW T \in SUBSET Nat, T # {}
  PROVE  \E x \in T : \A y \in T : x <= y
<1>1. PICK R : R = {ss \in Nat \X Nat : ss[1] < ss[2]}
  OBVIOUS
<1>2. IsWellFoundedOn(R, Nat)
  BY <1>1, NatLessThanWellFounded DEF OpToRel
<1>3. PICK x \in T : \A y \in T : ~(<<y, x>> \in R)
  BY <1>2, WFMin
<1>4. \A y \in T : ~(y < x)
  BY <1>1, <1>3
<1> QED BY <1>4

(* The elements of a sequence between two positions.                       *)
LEMMA Slice ==
  ASSUME NEW S, NEW s \in Seq(S), NEW from \in Nat, NEW to \in Nat, from <= to, to <= Len(s)
  PROVE  /\ SubSeq(s, from + 1, to) \in Seq(S)
         /\ Len(SubSeq(s, from + 1, to)) = to - from
         /\ \A j \in 1 .. to - from : SubSeq(s, from + 1, to)[j] = s[j + from]
<1>1. PICK m \in Nat : m = from + 1
  OBVIOUS
<1>2. \A j \in m .. to : s[j] \in S
  BY <1>1
<1>3. /\ SubSeq(s, m, to) \in Seq(S)
      /\ Len(SubSeq(s, m, to)) = IF m <= to THEN to - m + 1 ELSE 0
      /\ \A j \in 1 .. to - m + 1 : SubSeq(s, m, to)[j] = s[m + j - 1]
  BY <1>2, SubSeqProperties
<1>4. Len(SubSeq(s, m, to)) = to - from
  BY <1>1, <1>3
<1>5. ASSUME NEW j \in 1 .. to - from  PROVE SubSeq(s, m, to)[j] = s[j + from]
  <2>1. j \in 1 .. to - m + 1 /\ m + j - 1 = j + from
    BY <1>1
  <2> QED BY <1>3, <2>1
<1> QED BY <1>1, <1>3, <1>4, <1>5

(* Three sequences in a row keep their elements.                           *)
InRow(p, m, s) ==
  /\ Len(p \o m \o s) = Len(p) + Len(m) + Len(s)
  /\ \A j \in 1 .. Len(p) : (p \o m \o s)[j] = p[j]
  /\ \A j \in 1 .. Len(m) : (p \o m \o s)[Len(p) + j] = m[j]
  /\ \A j \in 1 .. Len(s) : (p \o m \o s)[Len(p) + Len(m) + j] = s[j]

LEMMA TwoParts ==
  ASSUME NEW S, NEW p \in Seq(S), NEW m \in Seq(S)
  PROVE  /\ p \o m \in Seq(S) /\ Len(p \o m) = Len(p) + Len(m)
         /\ \A j \in 1 .. Len(p) : (p \o m)[j] = p[j]
         /\ \A j \in 1 .. Len(m) : (p \o m)[Len(p) + j] = m[j]
<1>1. p \o m \in Seq(S) /\ Len(p \o m) = Len(p) + Len(m)
  BY ConcatProperties
<1>2. \A j \in 1 .. Len(p) + Len(m) :
        (p \o m)[j] = IF j <= Len(p) THEN p[j] ELSE m[j - Len(p)]
  BY ConcatProperties
<1>3. Len(p) \in Nat /\ Len(m) \in Nat
  OBVIOUS
<1>4. ASSUME NEW j \in 1 .. Len(p)  PROVE (p \o m)[j] = p[j]
  BY ONLY <1>2, <1>3
<1>5. ASSUME NEW j \in 1 .. Len(m)  PROVE (p \o m)[Len(p) + j] = m[j]
  <2>1. PICK k : k = Len(p) + j
    OBVIOUS
  <2>2. k \in 1 .. Len(p) + Len(m) /\ ~(k <= Len(p)) /\ k - Len(p) = j
    BY <1>3, <2>1
  <2>3. (p \o m)[k] = m[k - Len(p)]
    BY ONLY <1>2, <2>2
  <2> QED BY <2>1, <2>2, <2>3
<1> QED BY <1>1, <1>4, <1>5

LEMMA ThreeParts ==
  ASSUME NEW S, NEW p \in Seq(S), NEW m \in Seq(S), NEW s \in Seq(S)
  PROVE  p \o m \o s \in Seq(S) /\ InRow(p, m, s)
<1>1. PICK q : q = p \o m
  OBVIOUS
<1>2. /\ q \in Seq(S) /\ Len(q) = Len(p) + Len(m)
      /\ \A j \in 1 .. Len(p) : q[j] = p[j]
      /\ \A j \in 1 .. Len(m) : q[Len(p) + j] = m[j]
  BY <1>1, TwoParts
<1>3. PICK w : w = q \o s
  OBVIOUS
<1>4. /\ w \in Seq(S) /\ Len(w) = Len(q) + Len(s)
      /\ \A j \in 1 .. Len(q) : w[j] = q[j]
      /\ \A j \in 1 .. Len(s) : w[Len(q) + j] = s[j]
  <2>1. q \in Seq(S) /\ s \in Seq(S)
    BY <1>2
  <2>2. /\ q \o s \in Seq(S) /\ Len(q \o s) = Len(q) + Len(s)
        /\ \A j \in 1 .. Len(q) : (q \o s)[j] = q[j]
        /\ \A j \in 1 .. Len(s) : (q \o s)[Len(q) + j] = s[j]
    BY ONLY <2>1, TwoParts
  <2> QED BY <1>3, <2>2
<1>5. Len(p) \in Nat /\ Len(m) \in Nat /\ Len(s) \in Nat
  OBVIOUS
<1>6. ASSUME NEW j \in 1 .. Len(p)  PROVE w[j] = p[j]
  BY ONLY <1>2, <1>4, <1>5
<1>7. ASSUME NEW j \in 1 .. Len(m)  PROVE w[Len(p) + j] = m[j]
  <2>1. PICK k : k = Len(p) + j
    OBVIOUS
  <2>2. k \in 1 .. Len(q) /\ q[k] = m[j]
    BY <1>2, <1>5, <2>1
  <2> QED BY <1>4, <2>1, <2>2
<1>8. ASSUME NEW j \in 1 .. Len(s)  PROVE w[Len(p) + Len(m) + j] = s[j]
  BY <1>2, <1>4
<1>9. w = p \o m \o s
  BY <1>1, <1>3
<1> QED BY <1>2, <1>4, <1>6, <1>7, <1>8, <1>9 DEF InRow

(* Equal elements make equal sequences.                                    *)
LEMMA SameElements ==
  ASSUME NEW S, NEW s \in Seq(S), NEW t \in Seq(S), Len(s) = Len(t),
         \A j \in 1 .. Len(s) : s[j] = t[j]
  PROVE  s = t
BY SeqEqual

----------------------------------------------------------------------------
(* What holds of a discovery at any time. *)

(* All runs request the same number of keys.                               *)
Uniform ==
  /\ Len(runs) = Baseline
  /\ \A r \in 1 .. Len(runs) : Len(runs[r].keys) = KeyCount

WaitingInv ==
  /\ stage # "done" => result = NotYet
  /\ stage = "baseline" => confirmed = 0
  /\ stage = "confirm" => Uniform

(* What Classify returns.                                                  *)
Classified ==
  result = IF \E i \in 1 .. KeyCount : Shapes(i) = {} THEN Nothing
           ELSE Model([i \in 1 .. KeyCount |-> One(Shapes(i))])

(* A discovery that made all of its runs ended with the classification,    *)
(* another one without a model, or without any keys to describe.           *)
EndInv ==
  stage = "done" =>
    IF confirmed = Confirming THEN Uniform /\ Classified
    ELSE \/ result = Nothing \/ result = Failure
         \/ result = Model(<<>>) /\ Uniform /\ KeyCount = 0

IInv == TypeOK /\ WaitingInv /\ EndInv

----------------------------------------------------------------------------
(* One slot: its keys are byte sequences, one per run. *)

LEMMA RunAt ==
  ASSUME TypeOK, NEW r \in 1 .. Len(runs)
  PROVE  runs[r] \in Runs
  BY DEF TypeOK

LEMMA SlotKey ==
  ASSUME TypeOK, Uniform, NEW i \in 1 .. KeyCount, NEW r \in 1 .. Len(runs)
  PROVE  /\ runs[r].keys[i] \in Seq(Byte)
         /\ runs[r].args \in Seq(Byte)
         /\ runs[r].keys[i] \in SlotKeys(i)
<1>1. runs[r].keys \in KeyLists /\ runs[r].args \in Calldata
  BY RunAt DEF Runs
<1>2. runs[r].keys \in Seq(Seq(Byte)) /\ runs[r].args \in Seq(Byte)
  BY <1>1, InputAssumption
<1>3. Len(runs[r].keys) = KeyCount
  BY DEF Uniform
<1>4. runs[r].keys[i] \in Seq(Byte)
  BY <1>2, <1>3
<1>5. runs[r].keys[i] \in SlotKeys(i)
  BY DEF SlotKeys
<1> QED BY <1>2, <1>4, <1>5

LEMMA FirstRun == ASSUME Uniform  PROVE 1 \in 1 .. Len(runs)
  BY CountAssumption DEF Uniform

(* Whatever describes a slot rebuilds its key in every run.                *)
LEMMA ShapesExplain ==
  ASSUME NEW i \in 1 .. KeyCount, NEW s \in Shapes(i)
  PROVE  Explains(s, i)
<1>1. CASE AllSame(i)
  <2>1. s = Const(runs[1].keys[i])
    BY <1>1 DEF Shapes
  <2>2. ASSUME NEW r \in 1 .. Len(runs)
        PROVE  ConcreteKey(s, runs[r].args) = runs[r].keys[i]
    BY <1>1, <2>1 DEF AllSame, SlotKeys, ConcreteKey, Const
  <2> QED BY <2>2 DEF Explains
<1>2. CASE ~AllSame(i)
  BY <1>2 DEF Shapes, Recovered
<1> QED BY <1>1, <1>2

----------------------------------------------------------------------------
(* What an unmistakable template fixes. *)

LEMMA MaxOf ==
  ASSUME NEW S \in SUBSET Int, NEW m \in S, \A y \in S : m >= y
  PROVE  Max(S) = m
<1>1. Max(S) \in S /\ \A y \in S : Max(S) >= y
  BY DEF Max
<1>2. Max(S) \in Int /\ m \in Int /\ Max(S) >= m /\ m >= Max(S)
  BY <1>1
<1> QED BY ONLY <1>2

(* All keys of a slot a template explains are as long as the first and     *)
(* have its bytes before and after the variable ones.                      *)
LEMMA ExplainedBytes ==
  ASSUME TypeOK, Uniform, NEW i \in 1 .. KeyCount,
         NEW g \in Splits(i), NEW s \in Nat, Explains(TemplateAt(i, g, s), i),
         NEW r \in 1 .. Len(runs)
  PROVE  /\ Len(runs[r].keys[i]) = Len(runs[1].keys[i])
         /\ \A j \in 1 .. g.pre : runs[r].keys[i][j] = runs[1].keys[i][j]
         /\ \A j \in g.pre + g.len + 1 .. Len(runs[1].keys[i]) :
              runs[r].keys[i][j] = runs[1].keys[i][j]
<1>1. /\ runs[1].keys[i] \in Seq(Byte) /\ runs[r].keys[i] \in Seq(Byte)
      /\ runs[r].args \in Seq(Byte)
  BY SlotKey, FirstRun
<1>2. PICK key0 \in Seq(Byte), key \in Seq(Byte), args \in Seq(Byte) :
        key0 = runs[1].keys[i] /\ key = runs[r].keys[i] /\ args = runs[r].args
  BY <1>1
<1>3. PICK from \in Nat, to \in Nat, end \in Nat :
        /\ from = g.pre /\ to = g.pre + g.len /\ end = s + g.len
        /\ from <= to /\ to <= Len(key0) /\ end - s = to - from
  <2>1. /\ Len(key0) \in Nat /\ s \in Nat
        /\ g.pre \in 0 .. Len(key0) /\ g.len \in 1 .. Len(key0)
        /\ g.pre + g.len <= Len(key0)
    BY <1>2 DEF Splits
  <2>2. /\ g.pre \in Nat /\ g.pre + g.len \in Nat /\ s + g.len \in Nat
        /\ g.pre <= g.pre + g.len /\ s + g.len - s = g.pre + g.len - g.pre
    BY ONLY <2>1
  <2> QED BY ONLY <2>1, <2>2
<1>4. ConcreteKey(TemplateAt(i, g, s), args) = key
  BY <1>2 DEF Explains
<1>5. TemplateAt(i, g, s) =
        [kind |-> "Templated", prefix |-> SubSeq(key0, 0 + 1, 0 + g.pre),
         suffix |-> SubSeq(key0, to + 1, Len(key0)), start |-> s, len |-> g.len]
  BY <1>2, <1>3 DEF TemplateAt, Bytes
<1>6. 0 + g.pre = from
  BY <1>3
<1>7. key # NoKey
  BY InputAssumption
<1>8. ~(s + g.len > Len(args))
  BY ONLY <1>4, <1>5, <1>7 DEF ConcreteKey
<1>9. PICK shape : shape = TemplateAt(i, g, s)
  OBVIOUS
<1>10. /\ shape.kind # "Const" /\ shape.prefix = SubSeq(key0, 0 + 1, from)
       /\ shape.suffix = SubSeq(key0, to + 1, Len(key0))
       /\ shape.start = s /\ shape.len = g.len
  BY ONLY <1>5, <1>6, <1>9
<1>11. key = shape.prefix \o SubSeq(args, shape.start + 1, shape.start + shape.len)
               \o shape.suffix
  BY ONLY <1>4, <1>8, <1>9, <1>10 DEF ConcreteKey, Bytes
<1>12. PICK pre, mid, suf, n :
        /\ pre = SubSeq(key0, 0 + 1, from) /\ mid = SubSeq(args, s + 1, end)
        /\ suf = SubSeq(key0, to + 1, Len(key0)) /\ n = Len(key0)
  OBVIOUS
<1>13. pre \in Seq(Byte) /\ Len(pre) = from /\ \A j \in 1 .. from : pre[j] = key0[j]
  <2>1. /\ pre \in Seq(Byte) /\ Len(pre) = from - 0
        /\ \A j \in 1 .. from - 0 : pre[j] = key0[j + 0]
    <3>1. 0 \in Nat /\ 0 <= from /\ from <= Len(key0)
      BY <1>3
    <3> QED BY ONLY <1>12, <3>1, Slice, key0 \in Seq(Byte), from \in Nat
  <2>2. \A j \in 1 .. from : j + 0 = j
    OBVIOUS
  <2> QED BY <2>1, <2>2
<1>14. mid \in Seq(Byte) /\ Len(mid) = to - from
  <2>1. s <= end /\ end <= Len(args)
    BY <1>3, <1>8
  <2>2. mid \in Seq(Byte) /\ Len(mid) = end - s
    BY ONLY <1>12, <2>1, Slice, args \in Seq(Byte), s \in Nat, end \in Nat
  <2> QED BY <1>3, <2>2
<1>15. /\ n \in Nat /\ suf \in Seq(Byte) /\ Len(suf) = n - to
       /\ \A j \in 1 .. n - to : suf[j] = key0[j + to]
  <2>1. n \in Nat /\ to <= n /\ n <= Len(key0)
    BY <1>3, <1>12
  <2> QED BY ONLY <1>12, <2>1, Slice, key0 \in Seq(Byte), to \in Nat
<1>16. /\ Len(pre \o mid \o suf) = n
       /\ \A j \in 1 .. from : (pre \o mid \o suf)[j] = pre[j]
       /\ \A j \in to + 1 .. n : (pre \o mid \o suf)[j] = suf[j - to]
  <2>1. /\ pre \in Seq(Byte) /\ mid \in Seq(Byte) /\ suf \in Seq(Byte)
        /\ from \in Nat /\ to \in Nat /\ n \in Nat /\ from <= to /\ to <= n
        /\ Len(pre) = from /\ Len(mid) = to - from /\ Len(suf) = n - to
    BY <1>3, <1>12, <1>13, <1>14, <1>15
  <2>2. /\ Len(pre \o mid \o suf) = Len(pre) + Len(mid) + Len(suf)
        /\ \A j \in 1 .. Len(pre) : (pre \o mid \o suf)[j] = pre[j]
        /\ \A j \in 1 .. Len(suf) : (pre \o mid \o suf)[Len(pre) + Len(mid) + j] = suf[j]
    <3>1. InRow(pre, mid, suf)
      BY ONLY <2>1, ThreeParts
    <3> QED BY ONLY <3>1 DEF InRow
  <2>3. ASSUME NEW j \in to + 1 .. n  PROVE (pre \o mid \o suf)[j] = suf[j - to]
    <3>1. j - to \in 1 .. Len(suf) /\ Len(pre) + Len(mid) + (j - to) = j
      BY <2>1
    <3>2. (pre \o mid \o suf)[Len(pre) + Len(mid) + (j - to)] = suf[j - to]
      BY ONLY <2>2, <3>1
    <3> QED BY ONLY <3>1, <3>2
  <2>4. Len(pre) + Len(mid) + Len(suf) = n
    BY ONLY <2>1
  <2> QED BY ONLY <2>1, <2>2, <2>3, <2>4
<1>17. ASSUME NEW j \in to + 1 .. n  PROVE suf[j - to] = key0[j]
  <2>1. j - to \in 1 .. n - to /\ (j - to) + to = j
    BY <1>15
  <2> QED BY <1>15, <2>1
<1>18. key = pre \o mid \o suf
  BY ONLY <1>3, <1>10, <1>11, <1>12
<1>19. Len(key) = n /\ \A j \in 1 .. from : key[j] = key0[j]
  BY ONLY <1>13, <1>16, <1>18
<1>20. ASSUME NEW j \in to + 1 .. n  PROVE key[j] = key0[j]
  <2>1. (pre \o mid \o suf)[j] = suf[j - to]
    BY <1>16
  <2> QED BY <1>17, <1>18, <2>1
<1> QED BY ONLY <1>2, <1>3, <1>12, <1>19, <1>20

(* The region of a slot that a tight template explains is that template's. *)
LEMMA Tight ==
  ASSUME TypeOK, Uniform, NEW i \in 1 .. KeyCount,
         NEW g \in Splits(i), NEW s \in Nat, Explains(TemplateAt(i, g, s), i),
         Clear(i, g)
  PROVE  SameLength(i) /\ Region(i) = g
<1>1. PICK n \in Nat : n = Len(runs[1].keys[i])
  BY SlotKey, FirstRun
<1>2. g = [pre |-> g.pre, len |-> g.len] /\ g.pre \in 0 .. n /\ g.len \in 1 .. n
      /\ g.pre + g.len <= n
  BY <1>1 DEF Splits
<1>3. PICK from \in Nat, len \in Nat : from = g.pre /\ len = g.len
  BY <1>2
<1>4. from + len <= n /\ len >= 1
  BY <1>2, <1>3
<1>5. \A k \in SlotKeys(i) :
        /\ Len(k) = n
        /\ \A j \in 1 .. from : k[j] = runs[1].keys[i][j]
        /\ \A j \in from + len + 1 .. n : k[j] = runs[1].keys[i][j]
  <2>1. ASSUME NEW r \in 1 .. Len(runs)
        PROVE  /\ Len(runs[r].keys[i]) = n
               /\ \A j \in 1 .. from : runs[r].keys[i][j] = runs[1].keys[i][j]
               /\ \A j \in from + len + 1 .. n : runs[r].keys[i][j] = runs[1].keys[i][j]
    BY <1>1, <1>3, ExplainedBytes
  <2> QED BY <2>1 DEF SlotKeys
<1>6. ASSUME NEW j \in 1 .. from  PROVE Shared(i, j)
  <2>1. j <= n
    BY <1>4
  <2>2. \A k \in SlotKeys(i) : Len(k) = n /\ k[j] = runs[1].keys[i][j]
    BY <1>5
  <2> QED BY ONLY <2>1, <2>2 DEF Shared
<1>7. ASSUME NEW j \in from + len + 1 .. n  PROVE Shared(i, j)
  <2>1. j <= n
    OBVIOUS
  <2>2. \A k \in SlotKeys(i) : Len(k) = n /\ k[j] = runs[1].keys[i][j]
    BY <1>5
  <2> QED BY ONLY <2>1, <2>2 DEF Shared
<1>8. ~Shared(i, from + 1) /\ ~Shared(i, from + len)
  BY <1>3 DEF Clear
<1>9. Max({p \in 0 .. n : \A j \in 1 .. p : Shared(i, j)}) = from
  <2>1. from \in {p \in 0 .. n : \A j \in 1 .. p : Shared(i, j)}
    BY <1>4, <1>6
  <2>2. ASSUME NEW p \in 0 .. n, \A j \in 1 .. p : Shared(i, j)  PROVE from >= p
    <3>1. SUFFICES ASSUME p > from  PROVE FALSE
      OBVIOUS
    <3>2. from + 1 \in 1 .. p
      BY <3>1
    <3> QED BY <1>8, <2>2, <3>2
  <2> DEFINE P == {p \in 0 .. n : \A j \in 1 .. p : Shared(i, j)}
  <2>3. P \in SUBSET Int /\ from \in P /\ \A p \in P : from >= p
    BY <2>1, <2>2
  <2> HIDE DEF P
  <2>4. Max(P) = from
    BY ONLY <2>3, MaxOf
  <2> QED BY <2>4 DEF P
<1>10. Max({q \in 0 .. n - from : \A j \in n - q + 1 .. n : Shared(i, j)}) = n - from - len
  <2>1. n - from - len \in {q \in 0 .. n - from : \A j \in n - q + 1 .. n : Shared(i, j)}
    BY <1>4, <1>7
  <2>2. ASSUME NEW q \in 0 .. n - from, \A j \in n - q + 1 .. n : Shared(i, j)
        PROVE  n - from - len >= q
    <3>1. SUFFICES ASSUME q > n - from - len  PROVE FALSE
      OBVIOUS
    <3>2. from + len \in n - q + 1 .. n
      BY <1>4, <3>1
    <3> QED BY <1>8, <2>2, <3>2
  <2> DEFINE Q == {q \in 0 .. n - from : \A j \in n - q + 1 .. n : Shared(i, j)}
  <2>3. PICK m \in Nat : m = n - from - len
    BY <1>4
  <2>4. Q \in SUBSET Int /\ m \in Q /\ \A q \in Q : m >= q
    BY <2>1, <2>2, <2>3
  <2> HIDE DEF Q
  <2>5. Max(Q) = m
    BY ONLY <2>4, MaxOf
  <2> QED BY <2>3, <2>5 DEF Q
<1>11. n - from - (n - from - len) = len
  OBVIOUS
<1>12. Region(i) = [pre |-> from, len |-> len]
  BY <1>1, <1>9, <1>10, <1>11 DEF Region
<1> QED BY <1>1, <1>2, <1>3, <1>5, <1>12 DEF SameLength

(* What the runs leave no doubt about is all that a slot is described as.  *)
LEMMA AnswersFound ==
  ASSUME TypeOK, Uniform, NEW i \in 1 .. KeyCount, NEW t \in Answers(i)
  PROVE  Shapes(i) = {t}
<1>1. CASE AllSame(i)
  BY <1>1 DEF Answers, Shapes
<1>2. CASE ~AllSame(i)
  <2>1. t \in Unmistakable(i)
    BY <1>2 DEF Answers
  <2>2. PICK g \in Splits(i) :
          Clear(i, g) /\ Explains(t, i) /\ \E o \in Found(i, g) : t = TemplateAt(i, g, o)
    BY <2>1 DEF Unmistakable
  <2>3. PICK s \in Found(i, g) : t = TemplateAt(i, g, s)
    BY <2>2
  <2>4. s \in Nat
    BY DEF Found, Windows
  <2>5. SameLength(i) /\ Region(i) = g
    BY <2>2, <2>3, <2>4, Tight
  <2>6. Found(i, g) = {s}
    BY <2>2 DEF Clear
  <2>7. First(Found(i, g)) = {s}
    BY <2>4, <2>6 DEF First
  <2>8. Recovered(i) = {t}
    BY <2>2, <2>3, <2>5, <2>7 DEF Recovered
  <2> QED BY <1>2, <2>8 DEF Shapes
<1> QED BY <1>1, <1>2

----------------------------------------------------------------------------
(* The discovery *)

LEMMA ReturnKinds ==
  ASSUME NEW r, r = NotYet \/ r = Nothing \/ r = Failure \/ \E ks : r = Model(ks)
  PROVE  r.kind \in Kinds
<1>1. NotYet.kind \in Kinds /\ Nothing.kind \in Kinds /\ Failure.kind \in Kinds
  BY DEF NotYet, Nothing, Failure, Kinds
<1>2. ASSUME NEW ks  PROVE Model(ks).kind \in Kinds
  BY DEF Model, Kinds
<1> QED BY <1>1, <1>2

LEMMA TypeInit == Init => TypeOK
<1>1. Init => result.kind \in Kinds
  BY ReturnKinds DEF Init
<1>2. Init => runs \in Seq(Runs) /\ Len(runs) = 0
  BY DEF Init
<1> QED BY <1>1, <1>2, CountAssumption DEF Init, TypeOK

LEMMA TypeStep ==
  ASSUME TypeOK, [Next]_vars
  PROVE  TypeOK'
<1>1. ASSUME NEW cd \in Calldata, NEW keys \in KeyLists, NEW o \in Outcomes,
             BaselineRun(cd, keys, o)
      PROVE  TypeOK'
  <2>1. PICK run \in Runs : runs' = Append(runs, run)
    BY <1>1 DEF BaselineRun, Runs
  <2>2. /\ runs \in Seq(Runs) /\ Len(runs) < Baseline
        /\ UNCHANGED <<stage, confirmed, result>> /\ Baseline \in Nat
    BY <1>1, CountAssumption DEF BaselineRun, TypeOK
  <2>3. /\ runs' \in Seq(Runs)
        /\ Len(runs') = Len(runs) + 1 /\ Len(runs) \in Nat
    BY ONLY <2>1, <2>2
  <2>4. Len(runs') <= Baseline
    BY ONLY <2>2, <2>3
  <2> QED BY <2>2, <2>3, <2>4 DEF TypeOK
<1>2. ASSUME NEW o \in Outcomes, BaselineStops(o) \/ ConfirmStops(o)
      PROVE  TypeOK'
  <2>1. result' = Nothing \/ result' = Failure
    BY <1>2 DEF BaselineStops, ConfirmStops, Stops, Return
  <2>2. stage' = "done" /\ UNCHANGED <<runs, confirmed>>
    BY <1>2 DEF BaselineStops, ConfirmStops, Stops, Return
  <2> QED BY <2>1, <2>2, ReturnKinds DEF TypeOK
<1>3. CASE CountKeys
  <2>1. result' = result \/ result' = Nothing \/ \E ks : result' = Model(ks)
    BY <1>3 DEF CountKeys, Return
  <2>2. stage' \in {"confirm", "done"} /\ UNCHANGED <<runs, confirmed>>
    BY <1>3 DEF CountKeys, Return
  <2> QED BY <2>1, <2>2, ReturnKinds DEF TypeOK
<1>4. ASSUME NEW keys \in KeyLists, NEW o \in Outcomes, ConfirmRun(keys, o)
      PROVE  TypeOK'
  <2>1. result' = result \/ result' = Nothing
    BY <1>4 DEF ConfirmRun, Return
  <2>2. /\ stage' \in {"confirm", "done"} /\ UNCHANGED runs
        /\ confirmed < Confirming /\ (confirmed' = confirmed + 1 \/ confirmed' = confirmed)
    BY <1>4 DEF ConfirmRun, Return
  <2>3. confirmed' \in 0 .. Confirming
    BY <2>2, CountAssumption DEF TypeOK
  <2> QED BY <2>1, <2>2, <2>3, ReturnKinds DEF TypeOK
<1>5. CASE Classify
  <2>1. result' = Nothing \/ \E ks : result' = Model(ks)
    BY <1>5 DEF Classify, Return
  <2>2. stage' = "done" /\ UNCHANGED <<runs, confirmed>>
    BY <1>5 DEF Classify, Return
  <2> QED BY <2>1, <2>2, ReturnKinds DEF TypeOK
<1>6. CASE UNCHANGED vars
  BY <1>6 DEF vars, TypeOK
<1> QED BY <1>1, <1>2, <1>3, <1>4, <1>5, <1>6 DEF Next

(* What discover_keys returns and counts is well typed: it makes no more   *)
(* runs of either kind than it is told to.                                 *)
THEOREM TypeCorrect == Spec => []TypeOK
<1>1. TypeOK /\ [Next]_vars => TypeOK'
  BY TypeStep
<1> QED BY TypeInit, <1>1, PTL DEF Spec

(* What is said of a slot depends on the runs alone.                       *)
LEMMA ShapesStay ==
  ASSUME UNCHANGED runs, NEW i
  PROVE  KeyCount' = KeyCount /\ Shapes(i)' = Shapes(i)
<1>1. SlotKeys(i)' = SlotKeys(i)
  BY DEF SlotKeys
<1>2. \A j : Shared(i, j)' <=> Shared(i, j)
  BY <1>1 DEF Shared
<1>3. Region(i)' = Region(i)
  <2> DEFINE n == Len(runs[1].keys[i])
             P == {p \in 0 .. n : \A j \in 1 .. p : Shared(i, j)}
             Q(m) == {q \in 0 .. n - m : \A j \in n - q + 1 .. n : Shared(i, j)}
  <2>1. n' = n
    OBVIOUS
  <2>2. P' = P
    BY <1>2, <2>1
  <2>3. \A m : Q(m)' = Q(m)
    BY <1>2, <2>1
  <2>4. Region(i) = [pre |-> Max(P), len |-> n - Max(P) - Max(Q(Max(P)))]
    BY DEF Region
  <2>5. Region(i)' = [pre |-> Max(P'), len |-> n' - Max(P') - Max(Q(Max(P))')]
    BY DEF Region
  <2> QED BY <2>1, <2>2, <2>3, <2>4, <2>5
<1>4. \A g, s : TemplateAt(i, g, s)' = TemplateAt(i, g, s)
  BY DEF TemplateAt
<1>5. \A t : Explains(t, i)' <=> Explains(t, i)
  BY DEF Explains
<1>6. \A g : Found(i, g)' = Found(i, g)
  BY DEF Found
<1>7. SameLength(i)' <=> SameLength(i)
  BY <1>1 DEF SameLength
<1>8. Recovered(i)' = Recovered(i)
  BY <1>3, <1>4, <1>5, <1>6, <1>7 DEF Recovered
<1> QED BY <1>1, <1>8 DEF KeyCount, Shapes, AllSame

LEMMA ClassifiedStays ==
  ASSUME UNCHANGED runs
  PROVE  Classified' <=>
           result' = IF \E i \in 1 .. KeyCount : Shapes(i) = {} THEN Nothing
                     ELSE Model([i \in 1 .. KeyCount |-> One(Shapes(i))])
<1>1. KeyCount' = KeyCount /\ \A i : Shapes(i)' = Shapes(i)
  BY ShapesStay
<1>2. (\E i \in 1 .. KeyCount : Shapes(i) = {})' <=> \E i \in 1 .. KeyCount : Shapes(i) = {}
  BY <1>1
<1>3. [i \in 1 .. KeyCount |-> One(Shapes(i))]' = [i \in 1 .. KeyCount |-> One(Shapes(i))]
  BY <1>1
<1> QED BY <1>2, <1>3 DEF Classified, Model, Nothing

(* Nothing more is learnt once the keys have been counted.                 *)
LEMMA InvStep ==
  ASSUME TypeOK, WaitingInv, EndInv, [Next]_vars
  PROVE  WaitingInv' /\ EndInv'
<1> USE DEF Return
<1>1. ASSUME NEW cd \in Calldata, NEW keys \in KeyLists, NEW o \in Outcomes,
             BaselineRun(cd, keys, o)
      PROVE  WaitingInv' /\ EndInv'
  BY <1>1 DEF BaselineRun, WaitingInv, EndInv
<1>2. ASSUME NEW o \in Outcomes, BaselineStops(o) \/ ConfirmStops(o)
      PROVE  WaitingInv' /\ EndInv'
  <2>1. Confirming # 0 /\ Confirming \in Nat /\ confirmed \in Nat
    BY CountAssumption DEF TypeOK
  <2>2. /\ stage' = "done" /\ UNCHANGED confirmed /\ (stage = "baseline" \/ confirmed < Confirming)
        /\ result' = Nothing \/ result' = Failure
    BY <1>2 DEF BaselineStops, ConfirmStops, Stops
  <2> QED BY <2>1, <2>2 DEF WaitingInv, EndInv
<1>3. CASE CountKeys
  <2>1. confirmed' = 0 /\ Confirming # 0 /\ stage' # "baseline" /\ UNCHANGED runs
    BY <1>3, CountAssumption DEF CountKeys, WaitingInv
  <2>2. stage' = "confirm" => Uniform /\ result' = NotYet
    BY <1>3 DEF CountKeys, Uniform, WaitingInv
  <2>3. \/ stage' = "confirm"
        \/ stage' = "done" /\ result' = Nothing
        \/ stage' = "done" /\ result' = Model(<<>>) /\ Uniform /\ KeyCount = 0
    BY <1>3 DEF CountKeys, Uniform
  <2> QED BY <2>1, <2>2, <2>3 DEF WaitingInv, EndInv, Uniform, KeyCount
<1>4. ASSUME NEW keys \in KeyLists, NEW o \in Outcomes, ConfirmRun(keys, o)
      PROVE  WaitingInv' /\ EndInv'
  <2>1. Confirming \in Nat /\ confirmed \in Nat
    BY CountAssumption DEF TypeOK
  <2>2. /\ stage = "confirm" /\ UNCHANGED runs
        /\ \/ stage' = "confirm" /\ UNCHANGED result
           \/ stage' = "done" /\ UNCHANGED confirmed /\ confirmed < Confirming /\ result' = Nothing
    BY <1>4 DEF ConfirmRun
  <2> QED BY <2>1, <2>2 DEF WaitingInv, EndInv, Uniform, KeyCount
<1>5. CASE Classify
  <2>1. stage = "confirm" /\ stage' = "done" /\ UNCHANGED runs
    BY <1>5 DEF Classify
  <2>2. Uniform'
    BY <2>1 DEF WaitingInv, Uniform, KeyCount
  <2>3. Classified'
    BY <1>5, <2>1, ClassifiedStays DEF Classify, Return
  <2>4. UNCHANGED confirmed /\ confirmed = Confirming
    BY <1>5 DEF Classify
  <2> QED BY <2>1, <2>2, <2>3, <2>4 DEF WaitingInv, EndInv
<1>6. CASE UNCHANGED vars
  <2>1. /\ UNCHANGED <<stage, runs, confirmed, result>> /\ KeyCount' = KeyCount
    BY <1>6 DEF vars, KeyCount
  <2>2. Classified' <=> Classified
    BY <2>1, ClassifiedStays DEF Classified
  <2>3. Uniform' <=> Uniform
    BY <2>1 DEF Uniform
  <2>4. WaitingInv'
    BY <2>1, <2>3 DEF WaitingInv
  <2>5. EndInv'
    BY <2>1, <2>2, <2>3 DEF EndInv
  <2> QED BY <2>4, <2>5
<1> QED BY <1>1, <1>2, <1>3, <1>4, <1>5, <1>6 DEF Next

(* Every reachable state of the discovery satisfies the inductive          *)
(* invariant (discover_keys).                                              *)
THEOREM Invariant == Spec => []IInv
<1>1. Init => IInv
  <2>1. Init => WaitingInv /\ EndInv
    BY DEF Init, WaitingInv, EndInv
  <2> QED BY <2>1, TypeInit DEF IInv
<1>2. IInv /\ [Next]_vars => IInv'
  BY TypeStep, InvStep DEF IInv
<1> QED BY <1>1, <1>2, PTL DEF Spec

(* A model rebuilds every key of every run on empty storage, and has as    *)
(* many keys (the validation in recover_template).                         *)
THEOREM Reproduced == Spec => []Reproduces
<1>1. IInv => Reproduces
  <2>1. SUFFICES ASSUME IInv, result.kind = "Some", NEW r \in 1 .. Len(runs)
                 PROVE  runs[r].keys = [i \in 1 .. Len(result.keys) |->
                                          ConcreteKey(result.keys[i], runs[r].args)]
    BY DEF Reproduces
  <2>2. Nothing.kind # "Some" /\ Failure.kind # "Some" /\ NotYet.kind # "Some"
    BY DEF Nothing, Failure, NotYet
  <2>3. stage = "done" /\ Uniform
    BY <2>1, <2>2 DEF IInv, WaitingInv, EndInv
  <2>4. runs[r].keys \in Seq(Seq(Byte)) /\ Len(runs[r].keys) = KeyCount
    BY <2>1, <2>3, RunAt, InputAssumption DEF IInv, Uniform, Runs
  <2>5. CASE confirmed = Confirming
    <3>1. \A i \in 1 .. KeyCount : Shapes(i) # {}
      BY <2>1, <2>2, <2>3, <2>5 DEF IInv, EndInv, Classified
    <3>2. result.keys = [i \in 1 .. KeyCount |-> One(Shapes(i))]
      <4>1. Classified
        BY <2>1, <2>3, <2>5 DEF IInv, EndInv
      <4>2. result = Model([i \in 1 .. KeyCount |-> One(Shapes(i))])
        BY <3>1, <4>1 DEF Classified
      <4> QED BY <4>2 DEF Model
    <3>3. ASSUME NEW i \in 1 .. KeyCount
          PROVE  ConcreteKey(result.keys[i], runs[r].args) = runs[r].keys[i]
      <4>1. One(Shapes(i)) \in Shapes(i)
        BY <3>1 DEF One
      <4> QED BY <3>2, <4>1, ShapesExplain DEF Explains
    <3>4. KeyCount \in Nat /\ Len(result.keys) = KeyCount
      BY <2>4, <3>2
    <3> QED BY <2>4, <3>3, <3>4
  <2>6. CASE confirmed # Confirming
    <3>1. result = Model(<<>>) /\ KeyCount = 0
      BY <2>1, <2>2, <2>3, <2>6 DEF IInv, EndInv
    <3>2. Len(result.keys) = 0
      BY <3>1 DEF Model
    <3> QED BY <2>4, <3>1, <3>2
  <2> QED BY <2>5, <2>6
<1> QED BY <1>1, Invariant, PTL

(* What the runs leave no doubt about is found, for every alphabet and     *)
(* length of keys and calldata (recover_template, find_subslice).          *)
THEOREM Identified == Spec => []Identifies
<1>1. IInv => Identifies
  <2>1. SUFFICES ASSUME IInv, stage = "done", confirmed = Confirming
                 PROVE  /\ (\A i \in 1 .. KeyCount : Answers(i) # {}) => result.kind = "Some"
                        /\ result.kind = "Some" =>
                             \A i \in 1 .. KeyCount : Answers(i) \subseteq {result.keys[i]}
    BY DEF Identifies
  <2>2. TypeOK /\ Uniform /\ Classified
    BY <2>1 DEF IInv, EndInv
  <2>3. \A i \in 1 .. KeyCount : \A t \in Answers(i) : Shapes(i) = {t}
    BY <2>2, AnswersFound
  <2>4. ASSUME \A i \in 1 .. KeyCount : Answers(i) # {}  PROVE result.kind = "Some"
    <3>1. \A i \in 1 .. KeyCount : Shapes(i) # {}
      BY <2>3, <2>4
    <3> QED BY <2>2, <3>1 DEF Classified, Model
  <2>5. ASSUME result.kind = "Some", NEW i \in 1 .. KeyCount, NEW t \in Answers(i)
        PROVE  t = result.keys[i]
    <3>1. result.keys[i] = One(Shapes(i))
      BY <2>2, <2>5 DEF Classified, Model, Nothing
    <3>2. One({t}) = t
      BY DEF One
    <3> QED BY <2>3, <3>1, <3>2
  <2> QED BY <2>4, <2>5
<1> QED BY <1>1, Invariant, PTL

----------------------------------------------------------------------------
(* Bases with a height in them. *)

LEMMA HeightBytes ==
  ASSUME NEW h \in Heights
  PROVE  h \in Seq(Octet) /\ Len(h) = Width
BY HeightAssumption

(* What stands where in the base of a template at a height.                *)
Reads(c, t, h) ==
  /\ c \in Seq(Octet) /\ Len(c) = Len(t.prefix) + Width + Len(t.suffix)
  /\ \A j \in 1 .. Len(t.prefix) : c[j] = t.prefix[j]
  /\ \A j \in 1 .. Width : c[Len(t.prefix) + j] = h[j]
  /\ \A j \in 1 .. Len(t.suffix) : c[Len(t.prefix) + Width + j] = t.suffix[j]

LEMMA ConcreteReads ==
  ASSUME NEW t \in Bases, t.hasHeight, NEW h \in Heights
  PROVE  Reads(Concrete(t, h), t, h)
<1>1. t.prefix \in Seq(Octet) /\ t.suffix \in Seq(Octet)
  BY DEF Bases
<1>2. h \in Seq(Octet) /\ Len(h) = Width
  BY HeightBytes
<1>3. PICK p, s : p = t.prefix /\ s = t.suffix
  OBVIOUS
<1>4. p \o h \o s \in Seq(Octet) /\ InRow(p, h, s)
  BY ONLY <1>1, <1>2, <1>3, ThreeParts
<1>5. PICK c : c = p \o h \o s
  OBVIOUS
<1>6. c = Concrete(t, h)
  BY <1>3, <1>5 DEF Concrete
<1>7. /\ c \in Seq(Octet) /\ Len(c) = Len(p) + Width + Len(s)
      /\ \A j \in 1 .. Len(p) : c[j] = p[j]
      /\ \A j \in 1 .. Width : c[Len(p) + j] = h[j]
      /\ \A j \in 1 .. Len(s) : c[Len(p) + Width + j] = s[j]
  BY ONLY <1>2, <1>4, <1>5 DEF InRow
<1> QED BY ONLY <1>3, <1>6, <1>7 DEF Reads

LEMMA ConcreteBytes ==
  ASSUME NEW t \in Bases, NEW h \in Heights
  PROVE  Concrete(t, h) \in Seq(Octet)
<1>1. CASE t.hasHeight
  BY <1>1, ConcreteReads DEF Reads
<1>2. CASE ~t.hasHeight
  BY <1>2 DEF Concrete, Bases
<1> QED BY <1>1, <1>2

(* Places are within the base, and leave room for the height.              *)
LEMMA PlaceRange ==
  ASSUME NEW base \in Seq(Octet), NEW p \in Places(base, Default)
  PROVE  /\ p \in Nat /\ p + Width <= Len(base) /\ Len(base) \in Nat
         /\ \A j \in 1 .. Width : base[p + j] = Default[j]
BY HeightAssumption DEF Places

(* What a base is spliced into.                                            *)
LEMMA Spliced ==
  ASSUME NEW base \in Seq(Octet), NEW p \in Places(base, Default)
  PROVE  LET t == Splice(base, p)
         IN  /\ t \in Bases /\ t.hasHeight
             /\ Len(t.prefix) = p /\ Len(t.suffix) = Len(base) - (p + Width)
             /\ \A j \in 1 .. p : t.prefix[j] = base[j]
             /\ \A j \in 1 .. Len(base) - (p + Width) : t.suffix[j] = base[j + (p + Width)]
<1>1. /\ p \in Nat /\ p + Width <= Len(base) /\ Len(base) \in Nat
      /\ Width \in Nat /\ 0 \in Nat /\ 0 <= p /\ p <= Len(base)
  BY PlaceRange, HeightAssumption
<1>2. PICK n \in Nat, k \in Nat : n = Len(base) /\ k = p + Width
  BY <1>1
<1>3. PICK pre, suf : pre = SubSeq(base, 0 + 1, p) /\ suf = SubSeq(base, k + 1, n)
  OBVIOUS
<1>4. /\ pre \in Seq(Octet) /\ Len(pre) = p - 0
      /\ \A j \in 1 .. p - 0 : pre[j] = base[j + 0]
  BY ONLY <1>1, <1>3, Slice, base \in Seq(Octet)
<1>5. \A j \in 1 .. p : pre[j] = base[j]
  <2>1. p - 0 = p /\ \A j \in 1 .. p : j + 0 = j
    BY <1>1
  <2> QED BY <1>4, <2>1
<1>6. /\ suf \in Seq(Octet) /\ Len(suf) = n - k
      /\ \A j \in 1 .. n - k : suf[j] = base[j + k]
  <2>1. k <= n /\ n <= Len(base)
    BY <1>1, <1>2
  <2>2. /\ SubSeq(base, k + 1, n) \in Seq(Octet)
        /\ Len(SubSeq(base, k + 1, n)) = n - k
        /\ \A j \in 1 .. n - k : SubSeq(base, k + 1, n)[j] = base[j + k]
    BY ONLY <2>1, Slice, base \in Seq(Octet), n \in Nat, k \in Nat
  <2> QED BY <1>3, <2>2
<1>7. PICK t : t = Splice(base, p)
  OBVIOUS
<1>8. t = [prefix |-> pre, hasHeight |-> TRUE, suffix |-> suf]
  BY <1>1, <1>2, <1>3, <1>7 DEF Splice
<1>9. t \in Bases /\ t.hasHeight /\ t.prefix = pre /\ t.suffix = suf
  BY <1>4, <1>6, <1>8 DEF Bases
<1>10. /\ Len(t.prefix) = p /\ \A j \in 1 .. p : t.prefix[j] = base[j]
  BY ONLY <1>1, <1>4, <1>5, <1>9
<1>11. /\ Len(t.suffix) = Len(base) - (p + Width)
       /\ \A j \in 1 .. Len(base) - (p + Width) : t.suffix[j] = base[j + (p + Width)]
  BY ONLY <1>2, <1>6, <1>9
<1> QED BY ONLY <1>7, <1>9, <1>10, <1>11

(* At the height of the probes it is the base again.                       *)
LEMMA SplicedBack ==
  ASSUME NEW base \in Seq(Octet), NEW p \in Places(base, Default)
  PROVE  Concrete(Splice(base, p), Default) = base
<1>1. PICK t : t = Splice(base, p)
  OBVIOUS
<1>2. /\ t \in Bases /\ t.hasHeight
      /\ Len(t.prefix) = p /\ Len(t.suffix) = Len(base) - (p + Width)
      /\ \A j \in 1 .. p : t.prefix[j] = base[j]
      /\ \A j \in 1 .. Len(base) - (p + Width) : t.suffix[j] = base[j + (p + Width)]
  BY <1>1, Spliced
<1>3. PICK c : c = Concrete(t, Default)
  OBVIOUS
<1>4. Reads(c, t, Default)
  BY <1>2, <1>3, ConcreteReads, HeightAssumption
<1>5. /\ p \in Nat /\ p + Width <= Len(base) /\ Len(base) \in Nat /\ Width \in Nat
      /\ \A j \in 1 .. Width : base[p + j] = Default[j]
  BY PlaceRange, HeightAssumption
<1>6. PICK n \in Nat, k \in Nat : n = Len(base) /\ k = p + Width /\ k <= n
  BY <1>5
<1>7. /\ c \in Seq(Octet) /\ Len(c) = n
      /\ \A j \in 1 .. p : c[j] = base[j]
      /\ \A j \in 1 .. Width : c[p + j] = base[p + j]
      /\ \A j \in 1 .. n - k : c[p + Width + j] = base[j + k]
  <2>1. PICK pre, suf : pre = t.prefix /\ suf = t.suffix
    OBVIOUS
  <2>2. /\ c \in Seq(Octet) /\ Len(c) = Len(pre) + Width + Len(suf)
        /\ \A j \in 1 .. Len(pre) : c[j] = pre[j]
        /\ \A j \in 1 .. Width : c[Len(pre) + j] = Default[j]
        /\ \A j \in 1 .. Len(suf) : c[Len(pre) + Width + j] = suf[j]
    BY ONLY <1>4, <2>1 DEF Reads
  <2>3. /\ Len(pre) = p /\ Len(suf) = n - k
        /\ \A j \in 1 .. p : pre[j] = base[j]
        /\ \A j \in 1 .. n - k : suf[j] = base[j + k]
    BY ONLY <1>2, <1>6, <2>1
  <2>4. Len(c) = n
    BY ONLY <1>5, <1>6, <2>2, <2>3
  <2>5. \A j \in 1 .. Width : c[p + j] = base[p + j]
    BY ONLY <1>5, <2>2, <2>3
  <2>6. \A j \in 1 .. n - k : c[p + Width + j] = base[j + k]
    BY ONLY <2>2, <2>3
  <2> QED BY ONLY <2>2, <2>3, <2>4, <2>5, <2>6
<1>8. ASSUME NEW j \in 1 .. n  PROVE c[j] = base[j]
  <2>1. CASE j <= p
    BY <1>5, <1>7, <2>1
  <2>2. CASE j > p /\ j <= k
    <3>1. PICK i : i = j - p
      OBVIOUS
    <3>2. i \in 1 .. Width /\ p + i = j
      BY <1>5, <1>6, <2>2, <3>1
    <3>3. c[p + i] = base[p + i]
      BY ONLY <1>7, <3>2
    <3> QED BY <3>2, <3>3
  <2>3. CASE j > k
    <3>1. PICK i : i = j - k
      OBVIOUS
    <3>2. i \in 1 .. n - k /\ i + k = j /\ p + Width + i = j
      BY <1>5, <1>6, <2>3, <3>1
    <3>3. c[p + Width + i] = base[i + k]
      BY ONLY <1>7, <3>2
    <3> QED BY <3>2, <3>3
  <2> QED BY <1>5, <1>6, <2>1, <2>2, <2>3
<1>9. c = base
  BY <1>6, <1>7, <1>8, SameElements
<1> QED BY <1>1, <1>3, <1>9

(* Two templates with a height each that agree at the probes' height and   *)
(* at another one have it at the same place: otherwise every byte of the   *)
(* other height would equal an earlier one, or a constant, hence the byte  *)
(* of the probes' height.                                                  *)
LEMMA OnePlace ==
  ASSUME NEW t \in Bases, t.hasHeight, NEW m \in Bases, m.hasHeight,
         NEW h \in Heights, h # Default,
         Concrete(t, Default) = Concrete(m, Default), Concrete(t, h) = Concrete(m, h),
         Len(t.prefix) <= Len(m.prefix)
  PROVE  Len(t.prefix) = Len(m.prefix)
<1> DEFINE T == {j \in 1 .. Width : h[j] # Default[j]}
<1>1. h \in Seq(Octet) /\ Default \in Seq(Octet) /\ Len(h) = Width /\ Len(Default) = Width
  BY HeightBytes, HeightAssumption
<1>2. T # {}
  BY <1>1, SameElements
<1>3. PICK k \in T : \A y \in T : k <= y
  <2>1. T \in SUBSET Nat
    OBVIOUS
  <2> HIDE DEF T
  <2> QED BY <1>2, <2>1, Smallest
<1>4. k \in 1 .. Width /\ h[k] # Default[k] /\ \A j \in 1 .. k - 1 : h[j] = Default[j]
  BY <1>3, HeightAssumption
<1> HIDE DEF T
<1>5. PICK p \in Nat, q \in Nat : p = Len(t.prefix) /\ q = Len(m.prefix)
  BY DEF Bases
<1>6. PICK b, c : b = Concrete(t, Default) /\ c = Concrete(t, h)
  OBVIOUS
<1>7. Reads(b, t, Default) /\ Reads(c, t, h) /\ Reads(b, m, Default) /\ Reads(c, m, h)
  BY <1>6, ConcreteReads, HeightAssumption
<1>8. /\ \A j \in 1 .. Width : b[p + j] = Default[j] /\ c[p + j] = h[j]
      /\ \A j \in 1 .. Width : b[q + j] = Default[j] /\ c[q + j] = h[j]
      /\ \A j \in 1 .. q : b[j] = m.prefix[j] /\ c[j] = m.prefix[j]
  BY ONLY <1>5, <1>7 DEF Reads
<1>9. SUFFICES ASSUME p < q  PROVE FALSE
  BY <1>5
<1>10. PICK i : i = p + k
  OBVIOUS
<1>11. b[i] = Default[k] /\ c[i] = h[k]
  BY <1>4, <1>8, <1>10
<1>12. CASE i <= q
  <2>1. i \in 1 .. q
    BY <1>4, <1>10, <1>12
  <2>2. b[i] = c[i]
    BY ONLY <1>8, <2>1
  <2> QED BY <1>4, <1>11, <2>2
<1>13. CASE i > q
  <2>1. PICK j : j = i - q
    OBVIOUS
  <2>2. j \in 1 .. k - 1 /\ j \in 1 .. Width /\ q + j = i
    BY <1>4, <1>9, <1>10, <1>13, <2>1, HeightAssumption
  <2>3. b[q + j] = Default[j] /\ c[q + j] = h[j]
    BY ONLY <1>8, <2>2
  <2>4. h[j] = Default[j]
    BY <1>4, <2>2
  <2> QED BY <1>4, <1>11, <2>2, <2>3, <2>4
<1> QED BY <1>10, <1>12, <1>13

(* With the height at the same place, two templates of one base are one.   *)
LEMMA SameTemplate ==
  ASSUME NEW t \in Bases, t.hasHeight, NEW m \in Bases, m.hasHeight,
         Concrete(t, Default) = Concrete(m, Default), Len(t.prefix) = Len(m.prefix),
         NEW h \in Heights
  PROVE  Concrete(t, h) = Concrete(m, h)
<1>1. PICK b : b = Concrete(t, Default)
  OBVIOUS
<1>2. Reads(b, t, Default) /\ Reads(b, m, Default)
  BY <1>1, ConcreteReads, HeightAssumption
<1>3. PICK tp, ts, mp, ms : tp = t.prefix /\ ts = t.suffix /\ mp = m.prefix /\ ms = m.suffix
  OBVIOUS
<1>4. tp \in Seq(Octet) /\ ts \in Seq(Octet) /\ mp \in Seq(Octet) /\ ms \in Seq(Octet)
  BY <1>3 DEF Bases
<1>5. PICK p \in Nat, w \in Nat : p = Len(tp) /\ w = Width
  BY <1>4, HeightAssumption
<1>6. /\ Len(b) = p + w + Len(ts) /\ Len(b) = p + w + Len(ms) /\ Len(mp) = p
      /\ \A j \in 1 .. p : b[j] = tp[j] /\ b[j] = mp[j]
      /\ \A j \in 1 .. Len(ts) : b[p + w + j] = ts[j]
      /\ \A j \in 1 .. Len(ms) : b[p + w + j] = ms[j]
  BY ONLY <1>2, <1>3, <1>5, Len(t.prefix) = Len(m.prefix) DEF Reads
<1>7. tp = mp
  BY <1>4, <1>5, <1>6, SameElements
<1>8. Len(ts) \in Nat /\ Len(ms) \in Nat
  BY <1>4
<1>9. Len(ts) = Len(ms)
  BY ONLY <1>5, <1>6, <1>8
<1>10. \A j \in 1 .. Len(ts) : ts[j] = ms[j]
  BY ONLY <1>6, <1>9
<1>11. ts = ms
  BY <1>4, <1>9, <1>10, SameElements
<1> QED BY <1>3, <1>7, <1>11 DEF Concrete

(* templatize: a base without the height is left as it is, another one is  *)
(* spliced at the first place.                                             *)
LEMMA Templatized ==
  ASSUME NEW base \in Seq(Octet)
  PROVE  /\ Templatize(base) \in Bases
         /\ Concrete(Templatize(base), Default) = base
         /\ ~Templatize(base).hasHeight => Places(base, Default) = {}
         /\ Templatize(base).hasHeight =>
              /\ Len(Templatize(base).prefix) \in Places(base, Default)
              /\ \A q \in Places(base, Default) : Len(Templatize(base).prefix) <= q
<1> DEFINE S == Places(base, Default)
<1>1. CASE S = {}
  <2>1. Templatize(base) = [prefix |-> base, hasHeight |-> FALSE, suffix |-> <<>>]
    BY <1>1 DEF Templatize
  <2> QED BY <1>1, <2>1 DEF Bases, Concrete
<1>2. CASE S # {}
  <2>1. S \in SUBSET Nat
    BY DEF Places
  <2>2. \E x \in S : \A y \in S : x <= y
    BY <1>2, <2>1, Smallest
  <2>3. PICK p \in S : /\ p = (CHOOSE x \in S : \A y \in S : x <= y)
                       /\ \A y \in S : p <= y
    BY <2>2
  <2>4. Templatize(base) = Splice(base, p)
    BY <1>2, <2>3 DEF Templatize
  <2>5. /\ Splice(base, p) \in Bases /\ Splice(base, p).hasHeight
        /\ Len(Splice(base, p).prefix) = p
    BY <2>3, Spliced
  <2>6. Concrete(Splice(base, p), Default) = base
    BY <2>3, SplicedBack
  <2> QED BY <2>3, <2>4, <2>5, <2>6
<1> QED BY <1>1, <1>2

(* Where a template has its height, it is found.                           *)
LEMMA OwnPlace ==
  ASSUME NEW m \in Bases, m.hasHeight
  PROVE  Len(m.prefix) \in Places(Concrete(m, Default), Default)
<1>1. PICK b, p, s : b = Concrete(m, Default) /\ p = Len(m.prefix) /\ s = Len(m.suffix)
  OBVIOUS
<1>2. Reads(b, m, Default)
  BY <1>1, ConcreteReads, HeightAssumption
<1>3. p \in Nat /\ s \in Nat /\ Width \in Nat
  BY <1>1, HeightAssumption DEF Bases
<1>4. Len(b) = p + Width + s /\ \A j \in 1 .. Width : b[p + j] = Default[j]
  BY ONLY <1>1, <1>2 DEF Reads
<1>5. p \in 0 .. Len(b) - Width
  BY <1>3, <1>4
<1> QED BY <1>1, <1>4, <1>5 DEF Places

(* One other height at which the recovered template agrees suffices.       *)
LEMMA Pins ==
  ASSUME NEW m \in Bases, NEW t, t = Templatize(Concrete(m, Default)),
         NEW h \in Heights, h # Default, Concrete(t, h) = Concrete(m, h),
         NEW k \in Heights
  PROVE  Concrete(t, k) = Concrete(m, k)
<1>1. PICK b \in Seq(Octet) : b = Concrete(m, Default)
  BY ConcreteBytes, HeightAssumption
<1>2. /\ t \in Bases /\ Concrete(t, Default) = b
      /\ ~t.hasHeight => Places(b, Default) = {}
      /\ t.hasHeight => /\ Len(t.prefix) \in Places(b, Default)
                        /\ \A q \in Places(b, Default) : Len(t.prefix) <= q
  BY <1>1, Templatized
<1>3. CASE ~t.hasHeight /\ ~m.hasHeight
  BY <1>1, <1>2, <1>3 DEF Concrete
<1>4. CASE ~t.hasHeight /\ m.hasHeight
  BY <1>1, <1>2, <1>4, OwnPlace
<1>5. CASE t.hasHeight /\ ~m.hasHeight
  <2>1. Concrete(t, h) = b
    BY <1>1, <1>5 DEF Concrete
  <2>2. Reads(b, t, h) /\ Reads(b, t, Default)
    BY <1>2, <1>5, <2>1, ConcreteReads, HeightAssumption
  <2>3. \A j \in 1 .. Width : h[j] = Default[j]
    BY ONLY <2>2 DEF Reads
  <2>4. h = Default
    BY <2>3, HeightBytes, HeightAssumption, SameElements
  <2> QED BY <2>4
<1>6. CASE t.hasHeight /\ m.hasHeight
  <2>1. Len(t.prefix) <= Len(m.prefix)
    BY <1>1, <1>2, <1>6, OwnPlace
  <2>2. Len(t.prefix) = Len(m.prefix)
    BY <1>1, <1>2, <1>6, <2>1, OnePlace
  <2> QED BY <1>1, <1>2, <1>6, <2>2, SameTemplate
<1> QED BY <1>3, <1>4, <1>5, <1>6, <1>2 DEF Bases

(* The template of a plain list is recovered.                              *)
LEMMA PlainRecovered ==
  ASSUME NEW m \in Bases, Plain(m), NEW h \in Heights
  PROVE  Concrete(Templatize(Concrete(m, Default)), h) = Concrete(m, h)
<1>1. PICK b \in Seq(Octet) : b = Concrete(m, Default)
  BY ConcreteBytes, HeightAssumption
<1>2. PICK t : t = Templatize(b)
  OBVIOUS
<1>3. /\ t \in Bases /\ Concrete(t, Default) = b
      /\ ~t.hasHeight => Places(b, Default) = {}
      /\ t.hasHeight => Len(t.prefix) \in Places(b, Default)
  BY <1>2, Templatized
<1>4. Places(b, Default) = IF m.hasHeight THEN {Len(m.prefix)} ELSE {}
  BY <1>1 DEF Plain
<1>5. CASE m.hasHeight
  <2>1. t.hasHeight /\ Len(t.prefix) = Len(m.prefix)
    BY <1>3, <1>4, <1>5 DEF Bases
  <2> QED BY <1>1, <1>2, <1>3, <1>5, <2>1, SameTemplate
<1>6. CASE ~m.hasHeight
  <2>1. ~t.hasHeight
    BY <1>3, <1>4, <1>6
  <2> QED BY <1>1, <1>2, <1>3, <1>6, <2>1 DEF Concrete
<1> QED BY <1>5, <1>6

----------------------------------------------------------------------------
(* What a run of a list shows. *)

LEMMA ListRuns ==
  ASSUME guest # Anything, NEW h, NEW base, NEW list, NEW run \in RunsAt(h, base, list)
  PROVE  /\ run.outcome = "success"
         /\ run.data = ReadList(guest.base, h, base, list)
<1>1. run = ListRun(guest.base, h, base, list)
  BY DEF RunsAt
<1> QED BY <1>1 DEF ListRun

(* On empty storage, its length.                                           *)
LEMMA EmptyRun ==
  ASSUME guest # Anything, NEW run \in RunsAt(Default, <<>>, <<>>)
  PROVE  /\ run.outcome = "success" /\ Len(run.keys) = 1
         /\ run.keys[1] = LengthKey(Concrete(guest.base, Default))
<1>1. PICK k : k = LengthKey(Concrete(guest.base, Default))
  OBVIOUS
<1>2. run.data = <<>>
  BY ListRuns DEF ReadList
<1>3. run = ListRun(guest.base, Default, <<>>, <<>>)
  BY DEF RunsAt
<1>4. run.keys = <<k>> \o [i \in 1 .. Len(run.data) |-> ElementKey(Concrete(guest.base, Default), i - 1)]
  BY <1>1, <1>3 DEF ListRun
<1>5. run.keys = <<k>>
  <2>1. Len(run.data) = 0
    BY <1>2
  <2>2. 1 .. Len(run.data) = {}
    BY <2>1
  <2>3. [i \in 1 .. Len(run.data) |-> ElementKey(Concrete(guest.base, Default), i - 1)] = <<>>
    BY <2>2
  <2>4. run.keys = <<k>> \o <<>>
    BY <1>4, <2>3
  <2>5. <<k>> \in Seq({k})
    OBVIOUS
  <2> QED BY <2>4, <2>5, ConcatEmptySeq
<1> QED BY <1>1, <1>5, ListRuns

(* With a length, its elements too.                                        *)
LEMMA CountRun ==
  ASSUME guest # Anything, NEW own, own = Concrete(guest.base, Default),
         NEW run \in RunsAt(Default, own, [i \in 1 .. ProbeN |-> <<>>])
  PROVE  /\ run.outcome = "success"
         /\ \A i \in 0 .. ProbeN - 1 : ElementKey(own, i) \in Range(run.keys)
<1>1. run.outcome = "success"
  BY ListRuns
<1>2. ProbeN \in Nat
  BY TrialsAssumption
<1>3. run.data = [i \in 1 .. ProbeN |-> <<>>]
  <2>1. PICK list : list = [i \in 1 .. ProbeN |-> <<>>]
    OBVIOUS
  <2>2. run \in RunsAt(Default, own, list)
    BY <2>1
  <2>3. run.data = ReadList(guest.base, Default, own, list)
    BY <2>2, ListRuns
  <2> QED BY <2>1, <2>3 DEF ReadList
<1>4. Len(run.data) = ProbeN
  BY <1>2, <1>3
<1>5. PICK elements : elements = [i \in 1 .. ProbeN |-> ElementKey(own, i - 1)]
  OBVIOUS
<1>6. run.keys = <<LengthKey(own)>> \o elements
  <2>1. PICK list : list = [i \in 1 .. ProbeN |-> <<>>]
    OBVIOUS
  <2>2. run = ListRun(guest.base, Default, own, list)
    BY <2>1 DEF RunsAt
  <2>3. run.data = ReadList(guest.base, Default, own, list)
    BY <2>2 DEF ListRun
  <2>4. run.keys = <<LengthKey(own)>> \o [i \in 1 .. Len(run.data) |-> ElementKey(own, i - 1)]
    BY <2>2, <2>3 DEF ListRun
  <2> QED BY <1>4, <1>5, <2>4
<1>7. PICK K : K = {LengthKey(own)} \cup {ElementKey(own, i - 1) : i \in 1 .. ProbeN}
  OBVIOUS
<1>8. <<LengthKey(own)>> \in Seq(K) /\ Len(<<LengthKey(own)>>) = 1
  BY <1>7
<1>9. elements \in Seq(K) /\ Len(elements) = ProbeN
  BY <1>2, <1>5, <1>7
<1>10. /\ Len(run.keys) = 1 + ProbeN
       /\ \A j \in 1 .. 1 + ProbeN : j > 1 => run.keys[j] = elements[j - 1]
  BY <1>2, <1>6, <1>8, <1>9, ConcatProperties
<1>11. ASSUME NEW i \in 0 .. ProbeN - 1  PROVE ElementKey(own, i) \in Range(run.keys)
  <2>1. PICK j : j = i + 2
    OBVIOUS
  <2>2. j \in 1 .. 1 + ProbeN /\ j > 1 /\ j - 1 \in 1 .. ProbeN /\ j - 1 - 1 = i
    BY <1>2, <2>1
  <2>3. run.keys[j] = ElementKey(own, i)
    BY <1>5, <1>10, <2>2
  <2> QED BY <1>10, <2>2, <2>3 DEF Range
<1> QED BY <1>1, <1>11

----------------------------------------------------------------------------
(* The invariant: a list's probes hold its base, a trial with elements     *)
(* agrees where the bases do, and every trial of a list counts.            *)

OfList(m) ==
  /\ step = "count" => template.prefix = Concrete(m, Default)
  /\ step \in {"trials", "done"} => template = Templatize(Concrete(m, Default))
  /\ elsewhere => /\ step \in {"trials", "done"}
                  /\ \E h \in Heights : /\ h # Default
                                        /\ Concrete(template, h) = Concrete(m, h)
  /\ checked = attempts

ReaderInv ==
  /\ ReaderTypes
  /\ plan = Unknown <=> step # "done"
  /\ guest # Anything => OfList(guest.base)

LEMMA GuestBase ==
  ASSUME ReaderTypes, guest # Anything
  PROVE  guest.base \in Bases
BY TemplateAssumption DEF ReaderTypes, List

(* What is returned is not what is still unknown.                          *)
LEMMA PlansDiffer ==
  /\ Unknown # NoPlan /\ Unknown.kind # "loop" /\ NoPlan.kind # "loop"
  /\ \A t \in Bases : /\ Loop(t) # Unknown /\ Loop(t) # NoPlan
                      /\ Loop(t).kind = "loop" /\ Loop(t).base = t
<1>1. Unknown.kind = "none yet" /\ NoPlan.kind = "None"
  BY DEF Unknown, NoPlan
<1>2. \A t \in Bases : Loop(t).kind = "loop" /\ Loop(t).base = t
  BY DEF Loop
<1>3. "none yet" # "None" /\ "none yet" # "loop" /\ "None" # "loop"
  OBVIOUS
<1> QED BY <1>1, <1>2, <1>3

LEMMA Empty == NoTemplate \in Bases
BY DEF NoTemplate, Bases

LEMMA InitInv == ReaderInit => ReaderInv
<1> SUFFICES ASSUME NEW g \in {Anything} \cup {List(t) : t \in Templates}, Start(g)
             PROVE  ReaderInv
  BY DEF ReaderInit
<1>1. ReaderTypes
  <2>1. checked \in 0 .. Trials /\ attempts \in 0 .. MaxAttempts /\ checked <= attempts
    BY TrialsAssumption DEF Start
  <2>2. elsewhere \in BOOLEAN /\ step \in {"empty", "count", "trials", "done"}
    BY DEF Start
  <2> QED BY <2>1, <2>2, Empty DEF Start, ReaderTypes
<1> QED BY <1>1 DEF Start, ReaderInv, OfList

LEMMA NoneInv == ASSUME ReturnNone  PROVE ReaderInv'
<1>1. ReaderTypes'
  <2>1. checked' \in 0 .. Trials /\ attempts' \in 0 .. MaxAttempts /\ checked' <= attempts'
    BY TrialsAssumption DEF ReturnNone
  <2>2. elsewhere' \in BOOLEAN /\ step' \in {"empty", "count", "trials", "done"}
    BY DEF ReturnNone
  <2> QED BY <2>1, <2>2, Empty DEF ReturnNone, ReaderTypes
<1> QED BY <1>1, PlansDiffer DEF ReturnNone, ReaderInv

LEMMA EmptyProbeInv ==
  ASSUME ReaderInv, NEW run \in RunsAt(Default, <<>>, <<>>), EmptyProbe(run)
  PROVE  ReaderInv'
<1>1. CASE ReturnNone
  BY <1>1, NoneInv
<1>2. CASE ~ReturnNone
  <2>1. /\ run.outcome = "success" /\ Len(run.keys) = 1 /\ run.keys[1].tail = "length"
        /\ step = "empty" /\ step' = "count"
        /\ template' = [NoTemplate EXCEPT !.prefix = run.keys[1].base]
        /\ UNCHANGED <<guest, checked, attempts, plan, elsewhere>>
    BY <1>2 DEF EmptyProbe
  <2>2. guest # Anything => run.keys[1].base = Concrete(guest.base, Default)
    BY EmptyRun DEF LengthKey
  <2>3. run.keys[1].base \in Seq(Octet)
    <3>1. CASE guest = Anything
      <4>1. run.keys \in Seq([base : Seq(Octet), tail : STRING])
        BY <3>1, TemplateAssumption DEF RunsAt, Strays
      <4>2. PICK K, ks : K = [base : Seq(Octet), tail : STRING] /\ ks = run.keys
        OBVIOUS
      <4>3. ks \in Seq(K) /\ Len(ks) = 1
        BY <2>1, <4>1, <4>2
      <4>4. ks[1] \in K
        BY ONLY <4>3
      <4> QED BY <4>2, <4>4
    <3>2. CASE guest # Anything
      BY <2>2, <3>2, GuestBase, ConcreteBytes, HeightAssumption DEF ReaderInv
    <3> QED BY <3>1, <3>2
  <2>4. template' \in Bases /\ template'.prefix = run.keys[1].base
    <3>1. template' = [prefix |-> run.keys[1].base, hasHeight |-> FALSE, suffix |-> <<>>]
      BY <2>1 DEF NoTemplate
    <3>2. <<>> \in Seq(Octet)
      OBVIOUS
    <3> QED BY <2>3, <3>1, <3>2 DEF Bases
  <2>5. plan = Unknown
    BY <2>1 DEF ReaderInv
  <2>6. ReaderTypes'
    BY <2>1, <2>4, <2>5 DEF ReaderInv, ReaderTypes
  <2>7. guest # Anything => ~elsewhere
    BY <2>1 DEF ReaderInv, OfList
  <2> QED BY <2>1, <2>2, <2>4, <2>5, <2>6, <2>7 DEF ReaderInv, OfList
<1> QED BY <1>1, <1>2

LEMMA CountProbeInv ==
  ASSUME ReaderInv,
         NEW run \in RunsAt(Default, template.prefix, [i \in 1 .. ProbeN |-> <<>>]),
         CountProbe(run)
  PROVE  ReaderInv'
<1>1. CASE ReturnNone
  BY <1>1, NoneInv
<1>2. CASE ~ReturnNone
  <2>1. /\ step = "count" /\ step' = "trials" /\ template' = Templatize(template.prefix)
        /\ UNCHANGED <<guest, checked, attempts, plan, elsewhere>>
    BY <1>2 DEF CountProbe
  <2>2. template' \in Bases
    <3>1. template.prefix \in Seq(Octet)
      BY DEF ReaderInv, ReaderTypes, Bases
    <3> QED BY <2>1, <3>1, Templatized
  <2>3. plan = Unknown
    BY <2>1 DEF ReaderInv
  <2>4. ReaderTypes'
    BY <2>1, <2>2, <2>3 DEF ReaderInv, ReaderTypes
  <2>5. guest # Anything => template.prefix = Concrete(guest.base, Default) /\ ~elsewhere
    BY <2>1 DEF ReaderInv, OfList
  <2> QED BY <2>1, <2>3, <2>4, <2>5 DEF ReaderInv, OfList
<1> QED BY <1>1, <1>2

LEMMA TrialInv ==
  ASSUME ReaderInv, NEW h \in Heights, NEW list \in Lists,
         NEW run \in RunsAt(h, ListBase(h), list), Trial(h, list, run)
  PROVE  ReaderInv'
<1>1. CASE ReturnNone
  BY <1>1, NoneInv
<1>2. CASE ~ReturnNone
  <2>1. /\ step = "trials" /\ checked < Trials /\ attempts < MaxAttempts
        /\ ~(run.outcome = "success" /\ run.data # ReadList(template, h, ListBase(h), list))
        /\ attempts' = attempts + 1
        /\ IF run.outcome = "success"
           THEN /\ checked' = checked + 1
                /\ elsewhere' = (elsewhere \/ (list # <<>> /\ h # Default))
           ELSE UNCHANGED <<checked, elsewhere>>
        /\ UNCHANGED <<guest, step, template, plan>>
    BY <1>2 DEF Trial
  <2>2. ReaderTypes
    BY DEF ReaderInv
  <2>3. /\ checked' \in 0 .. Trials /\ attempts' \in 0 .. MaxAttempts /\ checked' <= attempts'
        /\ elsewhere' \in BOOLEAN
    <3>1. /\ checked \in 0 .. Trials /\ attempts \in 0 .. MaxAttempts /\ checked <= attempts
          /\ elsewhere \in BOOLEAN
      BY <2>2 DEF ReaderTypes
    <3>2. Trials \in Nat /\ MaxAttempts \in Nat
      BY TrialsAssumption
    <3>3. checked' \in {checked, checked + 1}
      BY <2>1
    <3>4. elsewhere' \in BOOLEAN
      BY <2>1, <3>1
    <3>5. checked' \in 0 .. Trials /\ attempts' \in 0 .. MaxAttempts /\ checked' <= attempts'
      BY <2>1, <3>1, <3>2, <3>3
    <3> QED BY <3>4, <3>5
  <2>4. ReaderTypes'
    BY <2>1, <2>2, <2>3 DEF ReaderTypes
  <2>5. ASSUME guest # Anything  PROVE OfList(guest.base)'
    <3>1. OfList(guest.base) /\ run.outcome = "success"
      BY <2>5, ListRuns DEF ReaderInv
    <3>2. checked' = attempts'
      BY <2>1, <3>1 DEF OfList
    <3>3. template' = Templatize(Concrete(guest.base, Default)) /\ guest' = guest
      BY <2>1, <3>1 DEF OfList
    <3>4. ASSUME list # <<>>  PROVE Concrete(template, h) = Concrete(guest.base, h)
      <4>1. ReadList(guest.base, h, ListBase(h), list) = ReadList(template, h, ListBase(h), list)
        BY <2>1, <2>5, <3>1, ListRuns
      <4>2. ReadList(template, h, ListBase(h), list) = list
        BY DEF ReadList, ListBase
      <4> QED BY <3>4, <4>1, <4>2 DEF ReadList, ListBase
    <3>5. elsewhere' => \E k \in Heights : /\ k # Default
                                           /\ Concrete(template, k) = Concrete(guest.base, k)
      BY <2>1, <3>1, <3>4 DEF OfList
    <3> QED BY <2>1, <3>2, <3>3, <3>5 DEF OfList
  <2> QED BY <2>1, <2>4, <2>5 DEF ReaderInv
<1> QED BY <1>1, <1>2

LEMMA ConcludeInv == ASSUME ReaderInv, Conclude  PROVE ReaderInv'
<1>1. CASE ReturnNone
  BY <1>1, NoneInv
<1>2. CASE ~ReturnNone
  <2>1. /\ step = "trials" /\ step' = "done" /\ plan' = Loop(template)
        /\ UNCHANGED <<guest, template, checked, attempts, elsewhere>>
    BY <1>2 DEF Conclude
  <2>2. ReaderTypes /\ template \in Bases
    BY DEF ReaderInv, ReaderTypes
  <2>3. ReaderTypes'
    BY <2>1, <2>2 DEF ReaderTypes
  <2>4. plan' # Unknown
    BY <2>1, <2>2, PlansDiffer
  <2> QED BY <2>1, <2>3, <2>4 DEF ReaderInv, OfList
<1> QED BY <1>1, <1>2

LEMMA StepInv == ReaderInv /\ [ReaderNext]_listvars => ReaderInv'
<1> SUFFICES ASSUME ReaderInv, [ReaderNext]_listvars  PROVE ReaderInv'
  OBVIOUS
<1>1. ASSUME NEW run \in RunsAt(Default, <<>>, <<>>), EmptyProbe(run)  PROVE ReaderInv'
  BY <1>1, EmptyProbeInv
<1>2. ASSUME NEW run \in RunsAt(Default, template.prefix, [i \in 1 .. ProbeN |-> <<>>]),
             CountProbe(run)
      PROVE  ReaderInv'
  BY <1>2, CountProbeInv
<1>3. ASSUME NEW h \in Heights, NEW list \in Lists,
             NEW run \in RunsAt(h, ListBase(h), list), Trial(h, list, run)
      PROVE  ReaderInv'
  BY <1>3, TrialInv
<1>4. CASE Conclude
  BY <1>4, ConcludeInv
<1>5. CASE UNCHANGED listvars
  BY <1>5 DEF listvars, ReaderInv, ReaderTypes, OfList
<1> QED BY <1>1, <1>2, <1>3, <1>4, <1>5 DEF ReaderNext

(* The list reader's state: a template of bytes, no more trials than the   *)
(* limit, and a plan, if any, of the template recovered (try_list_plan).   *)
THEOREM ReaderTypeCorrect == ReaderSpec => []ReaderTypes
<1>1. ReaderInv => ReaderTypes
  BY DEF ReaderInv
<1> QED BY <1>1, InitInv, StepInv, PTL DEF ReaderSpec

(* A plan of a list that agreed with the contract in one trial with        *)
(* elements, at a height other than the probes', reads the same list at    *)
(* every height (templatize, verify_list).                                 *)
THEOREM Pinned == ReaderSpec => []PinnedBase
<1>1. ReaderInv => PinnedBase
  <2> SUFFICES ASSUME ReaderInv, plan.kind = "loop", guest # Anything, elsewhere,
                      NEW k \in Heights
               PROVE  Concrete(plan.base, k) = Concrete(guest.base, k)
    BY DEF PinnedBase
  <2>1. template \in Bases /\ plan \in {Unknown, NoPlan, Loop(template)} /\ guest.base \in Bases
    BY GuestBase DEF ReaderInv, ReaderTypes
  <2>2. plan.base = template
    BY <2>1, PlansDiffer
  <2>3. OfList(guest.base)
    BY DEF ReaderInv
  <2>4. template = Templatize(Concrete(guest.base, Default))
    BY <2>3 DEF OfList
  <2>5. PICK h \in Heights : h # Default /\ Concrete(template, h) = Concrete(guest.base, h)
    BY <2>3 DEF OfList
  <2> QED BY <2>1, <2>2, <2>4, <2>5, Pins
<1> QED BY <1>1, InitInv, StepInv, PTL DEF ReaderSpec

(* A list whose base has the bytes of the probes' height only where the    *)
(* height stands is never given up: both probes find its keys, and in      *)
(* every trial the template reads what the contract reads.                 *)
THEOREM KeepsPlain == ReaderSpec => PlainListsKept
<1>1. ASSUME ReaderInv, [ReaderNext]_listvars, plan' = NoPlan, plan # NoPlan,
             guest # Anything, Plain(guest.base)
      PROVE  FALSE
  <2>1. /\ ReaderTypes /\ template \in Bases /\ guest.base \in Bases
        /\ plan \in {Unknown, NoPlan, Loop(template)} /\ OfList(guest.base)
    BY <1>1, GuestBase DEF ReaderInv, ReaderTypes
  <2>2. ASSUME NEW run \in RunsAt(Default, <<>>, <<>>), EmptyProbe(run)  PROVE FALSE
    <3>1. run.outcome = "success" /\ Len(run.keys) = 1 /\ run.keys[1].tail = "length"
      BY <1>1, EmptyRun DEF LengthKey
    <3> QED BY <1>1, <2>2, <3>1 DEF EmptyProbe
  <2>3. ASSUME NEW run \in RunsAt(Default, template.prefix, [i \in 1 .. ProbeN |-> <<>>]),
               CountProbe(run)
        PROVE  FALSE
    <3>1. template.prefix = Concrete(guest.base, Default)
      BY <2>1, <2>3 DEF CountProbe, OfList
    <3>2. /\ run.outcome = "success"
          /\ \A i \in 0 .. ProbeN - 1 : ElementKey(template.prefix, i) \in Range(run.keys)
      BY <1>1, <3>1, CountRun
    <3> QED BY <1>1, <2>3, <3>2 DEF CountProbe
  <2>4. ASSUME NEW h \in Heights, NEW list \in Lists,
               NEW run \in RunsAt(h, ListBase(h), list), Trial(h, list, run)
        PROVE  FALSE
    <3>1. template = Templatize(Concrete(guest.base, Default))
      BY <2>1, <2>4 DEF Trial, OfList
    <3>2. Concrete(template, h) = Concrete(guest.base, h)
      BY <1>1, <2>1, <3>1, PlainRecovered
    <3>3. run.outcome = "success" /\ run.data = ReadList(template, h, ListBase(h), list)
      BY <1>1, <3>2, ListRuns DEF ReadList
    <3> QED BY <1>1, <2>4, <3>3 DEF Trial
  <2>5. CASE Conclude
    <3>1. checked = attempts /\ attempts \in Nat /\ checked \in 0 .. Trials
      BY <2>1 DEF OfList, ReaderTypes
    <3>2. checked = Trials
      BY <2>5, <3>1, TrialsAssumption DEF Conclude
    <3>3. plan' = Loop(template)
      BY <2>5, <3>2 DEF Conclude
    <3> QED BY <1>1, <2>1, <3>3, PlansDiffer
  <2>6. CASE UNCHANGED listvars
    BY <1>1, <2>6 DEF listvars
  <2> QED BY <1>1, <2>2, <2>3, <2>4, <2>5, <2>6 DEF ReaderNext
<1>2. ReaderInv /\ [ReaderNext]_listvars =>
        [plan' = NoPlan /\ plan # NoPlan => guest = Anything \/ ~Plain(guest.base)]_listvars
  BY <1>1
<1> QED BY <1>2, InitInv, StepInv, PTL DEF ReaderSpec, PlainListsKept

----------------------------------------------------------------------------
(* The two in sequence *)

(* Trying a view as a list and then discovering its keys is a run of each: *)
(* neither disturbs the other (synthesize_one).                            *)
THEOREM BothRun == Recognize => Spec /\ ReaderSpec
<1>1. RecognizeInit => Init /\ ReaderInit
  BY DEF RecognizeInit
<1>2. [RecognizeNext]_<<vars, listvars>> => [Next]_vars /\ [ReaderNext]_listvars
  BY DEF RecognizeNext, TryList, DiscoverKeys
<1> QED BY <1>1, <1>2, PTL DEF Recognize, Spec, ReaderSpec

(* What both promise holds when a view is tried as a list first and its    *)
(* keys are discovered if it is none (synthesize_one).                     *)
THEOREM Recognized ==
  Recognize => [](Reproduces /\ Identifies /\ PinnedBase) /\ PlainListsKept
BY BothRun, Reproduced, Identified, Pinned, KeepsPlain, PTL
=============================================================================
