-------------------------- MODULE LiftControlProofs --------------------------
(***************************************************************************)
(* That the interpreter follows the block structure of every validated     *)
(* body, whatever its length, nesting and budget.                          *)
(***************************************************************************)
EXTENDS LiftControl, FiniteSetTheorems, SequenceTheorems, WellFoundedInduction, TLAPS

----------------------------------------------------------------------------
(* Induction along a body, and what a recursion along it computes. *)

LEMMA Smallest ==
  ASSUME NEW T \in SUBSET Nat, T # {}
  PROVE  \E x \in T : \A y \in T : x <= y
<1>1. PICK R : R = {ss \in Nat \X Nat : ss[1] < ss[2]}
  OBVIOUS
<1>2. IsWellFoundedOn(R, Nat)
  BY <1>1, NatLessThanWellFounded DEF OpToRel
<1>3. PICK x \in T : \A y \in T : ~(<<y, x>> \in R)
  BY <1>2, WFMin
<1>4. \A y \in T : ~(y < x)
  BY <1>1, <1>3
<1> QED BY <1>4

LEMMA Upward ==
  ASSUME NEW m \in Nat, NEW n \in Nat, NEW T, m \in T,
         \A i \in m .. n : m < i /\ i - 1 \in T => i \in T
  PROVE  \A i \in m .. n : i \in T
<1>1. SUFFICES ASSUME NEW i \in m .. n, i \notin T  PROVE FALSE
  OBVIOUS
<1>2. PICK Gaps : Gaps = {j \in m .. n : j \notin T}
  OBVIOUS
<1>3. Gaps \in SUBSET Nat /\ Gaps # {}
  BY <1>1, <1>2
<1>4. PICK x \in Gaps : \A y \in Gaps : x <= y
  BY <1>3, Smallest
<1>5. x \in m .. n /\ m < x /\ x \notin T
  BY <1>2, <1>4
<1>6. x - 1 \in m .. n /\ ~(x <= x - 1)
  BY <1>5
<1>7. x - 1 \in T
  BY <1>2, <1>4, <1>6
<1> QED BY <1>5, <1>7

(* f is computed from s0 by one application of step per number. *)
Recurs(f, n, S, s0, step) ==
  /\ f \in [0 .. n -> S] /\ f[0] = s0
  /\ \A i \in 1 .. n : f[i] = step[i][f[i - 1]]

LEMMA Recursion ==
  ASSUME NEW n \in Nat, NEW S, NEW s0 \in S, NEW step \in [1 .. n -> [S -> S]]
  PROVE  \E f : Recurs(f, n, S, s0, step)
<1>1. PICK T : T = {m \in 0 .. n : \E f : Recurs(f, m, S, s0, step)}
  OBVIOUS
<1>2. 0 \in T
  <2>1. PICK f : f = [i \in 0 .. 0 |-> s0]
    OBVIOUS
  <2>2. f \in [0 .. 0 -> S] /\ f[0] = s0
    BY <2>1
  <2> QED BY <1>1, <2>2 DEF Recurs
<1>3. ASSUME NEW m \in 0 .. n, 0 < m, m - 1 \in T  PROVE m \in T
  <2>1. PICK f : /\ f \in [0 .. m - 1 -> S] /\ f[0] = s0
                 /\ \A i \in 1 .. m - 1 : f[i] = step[i][f[i - 1]]
    BY <1>1, <1>3 DEF Recurs
  <2> m \in 1 .. n /\ m - 1 \in 0 .. n
    BY <1>3
  <2>2. PICK g : g = [i \in 0 .. m |-> IF i = m THEN step[m][f[m - 1]] ELSE f[i]]
    OBVIOUS
  <2>3. f[m - 1] \in S /\ step[m][f[m - 1]] \in S
    BY <2>1
  <2>4. g \in [0 .. m -> S] /\ g[0] = s0
    BY <2>1, <2>2, <2>3
  <2>5. ASSUME NEW i \in 1 .. m  PROVE g[i] = step[i][g[i - 1]]
    <3>1. i - 1 \in 0 .. m - 1 /\ i - 1 # m
      OBVIOUS
    <3>2. g[i - 1] = f[i - 1]
      BY <2>2, <3>1
    <3>3. CASE i = m
      BY <2>2, <3>2, <3>3
    <3>4. CASE i # m
      <4>1. i \in 1 .. m - 1
        BY <3>4
      <4>2. g[i] = f[i]
        BY <2>2, <3>4
      <4> QED BY <2>1, <3>2, <4>1, <4>2
    <3> QED BY <3>3, <3>4
  <2>6. Recurs(g, m, S, s0, step)
    BY <2>4, <2>5 DEF Recurs
  <2> QED BY <1>1, <2>6
<1>4. \A m \in 0 .. n : m \in T
  BY <1>2, <1>3, Upward
<1> QED BY <1>1, <1>4

----------------------------------------------------------------------------
(* The two passes over a body, operator by operator. *)

LEMMA Stacks ==
  ASSUME NEW S, NEW s \in Seq(S), s # <<>>
  PROVE  /\ Top(s) \in S /\ Len(s) \in Nat \ {0}
         /\ Pop(s) \in Seq(S) /\ Len(Pop(s)) = Len(s) - 1
         /\ \A k \in 1 .. Len(s) - 1 : Pop(s)[k] = s[k]
<1>1. Len(s) \in Nat \ {0}
  BY EmptySeq
<1>2. Top(s) \in S
  BY <1>1, ElementOfSeq DEF Top
<1>3. PICK m \in Nat : m = Len(s) - 1
  BY <1>1
<1>4. \A j \in 1 .. m : s[j] \in S
  BY <1>1, <1>3, ElementOfSeq
<1>5. /\ SubSeq(s, 1, m) \in Seq(S)
      /\ Len(SubSeq(s, 1, m)) = IF 1 <= m THEN m - 1 + 1 ELSE 0
      /\ \A j \in 1 .. m - 1 + 1 : SubSeq(s, 1, m)[j] = s[1 + j - 1]
  BY <1>3, <1>4, SubSeqProperties
<1>6. Len(SubSeq(s, 1, m)) = m
  BY <1>3, <1>5
<1>7. ASSUME NEW k \in 1 .. m  PROVE SubSeq(s, 1, m)[k] = s[k]
  <2>1. k \in 1 .. m - 1 + 1 /\ 1 + k - 1 = k
    BY <1>3
  <2> QED BY <1>5, <2>1
<1> QED BY <1>1, <1>2, <1>3, <1>5, <1>6, <1>7 DEF Pop

ScanStates == [open : Seq(Nat), ends : SUBSET (Nat \X Nat), elses : SUBSET (Nat \X Nat)]

LEMMA ScanTyped ==
  ASSUME NEW code \in Seq(Operators), NEW i \in 1 .. Len(code), NEW s \in ScanStates
  PROVE  ScanStep(code, i, s) \in ScanStates
<1>1. i \in Nat
  OBVIOUS
<1>2. s.open # <<>> => Top(s.open) \in Nat /\ Pop(s.open) \in Seq(Nat)
  BY Stacks DEF ScanStates
<1> QED BY <1>1, <1>2 DEF ScanStep, ScanStates

LEMMA ScanUnfolds ==
  ASSUME NEW code \in Seq(Operators)
  PROVE  /\ Scanned(code) \in [0 .. Len(code) -> ScanStates]
         /\ Scanned(code)[0] = [open |-> <<>>, ends |-> {}, elses |-> {}]
         /\ \A i \in 1 .. Len(code) :
              Scanned(code)[i] = ScanStep(code, i, Scanned(code)[i - 1])
<1>1. PICK s0 : s0 = [open |-> <<>>, ends |-> {}, elses |-> {}]
  OBVIOUS
<1>2. PICK n \in Nat : n = Len(code)
  OBVIOUS
<1>3. s0 \in ScanStates
  BY <1>1 DEF ScanStates
<1>4. PICK step : step = [i \in 1 .. n |-> [s \in ScanStates |-> ScanStep(code, i, s)]]
  OBVIOUS
<1>5. step \in [1 .. n -> [ScanStates -> ScanStates]]
  BY <1>2, <1>4, ScanTyped
<1>6. PICK f : Recurs(f, n, ScanStates, s0, step)
  BY <1>2, <1>3, <1>5, Recursion
<1>7. ASSUME NEW i \in 1 .. n  PROVE f[i] = ScanStep(code, i, f[i - 1])
  <2>1. i - 1 \in 0 .. n
    BY <1>2
  <2>2. f[i - 1] \in ScanStates
    BY <1>6, <2>1 DEF Recurs
  <2> QED BY <1>4, <1>6, <2>2 DEF Recurs
<1>8. f = [i \in 0 .. n |->
             IF i = 0 THEN [open |-> <<>>, ends |-> {}, elses |-> {}]
             ELSE ScanStep(code, i, f[i - 1])]
  <2>1. \A i \in 0 .. n : i # 0 => i \in 1 .. n
    OBVIOUS
  <2> QED BY <1>1, <1>6, <1>7, <2>1 DEF Recurs
<1>9. PICK g : g = Scanned(code)
  OBVIOUS
<1>10. g = [i \in 0 .. n |->
             IF i = 0 THEN [open |-> <<>>, ends |-> {}, elses |-> {}]
             ELSE ScanStep(code, i, g[i - 1])]
  BY <1>2, <1>8, <1>9 DEF Scanned
<1>11. g[0] = s0
  BY <1>1, <1>10
<1>12. ASSUME NEW i \in 1 .. n  PROVE g[i] = ScanStep(code, i, g[i - 1])
  <2>1. i \in 0 .. n /\ i # 0
    OBVIOUS
  <2> QED BY <1>10, <2>1
<1>13. PICK T : T = {i \in 0 .. n : g[i] \in ScanStates}
  OBVIOUS
<1>14. ASSUME NEW i \in 0 .. n, 0 < i, i - 1 \in T  PROVE i \in T
  <2>1. i \in 1 .. n
    BY <1>2, <1>14
  <2> QED BY <1>2, <1>12, <1>13, <1>14, <2>1, ScanTyped
<1>15. 0 \in T
  BY <1>3, <1>11, <1>13
<1>16. \A i \in 0 .. n : i \in T
  BY <1>2, <1>14, <1>15, Upward
<1>17. g \in [0 .. n -> ScanStates]
  BY <1>10, <1>13, <1>16
<1> QED BY <1>1, <1>2, <1>9, <1>11, <1>12, <1>17

Blocks      == [at : Nat, h : Int, n : Nat]
ValidStates == [h : Int, open : Seq(Blocks)]

LEMMA OperatorType ==
  ASSUME NEW code \in Seq(Operators), NEW i \in 1 .. Len(code)
  PROVE  code[i].op \in OpNames /\ code[i].n \in Nat /\ code[i].ts \in Seq(Nat)
<1>1. code[i] \in Operators
  BY ElementOfSeq
<1> QED BY <1>1 DEF Operators

LEMMA ValidTyped ==
  ASSUME NEW code \in Seq(Operators), NEW i \in 1 .. Len(code), NEW s \in ValidStates
  PROVE  ValidStep(code[i], i, s) \in ValidStates
<1>1. i \in Nat /\ code[i].n \in Nat
  BY OperatorType
<1>2. s.open # <<>> =>
        Top(s.open) \in Blocks /\ Top(s.open).h \in Int /\ Top(s.open).n \in Nat
          /\ Pop(s.open) \in Seq(Blocks)
  <2>1. s.open # <<>> => Top(s.open) \in Blocks /\ Pop(s.open) \in Seq(Blocks)
    BY Stacks DEF ValidStates
  <2> QED BY <2>1 DEF Blocks
<1>3. Before(code[i], s) \in Int
  BY <1>2 DEF Before, ValidStates
<1>4. PICK x : x = After(code[i], Before(code[i], s))
  OBVIOUS
<1>5. x \in Int
  BY <1>3, <1>4 DEF After, Dividers, Dead
<1>6. Append(s.open, Block(i, x, code[i].n)) \in Seq(Blocks)
  <2>1. Block(i, x, code[i].n) \in Blocks
    BY <1>1, <1>5 DEF Block, Blocks
  <2> QED BY <2>1 DEF ValidStates
<1>7. CASE code[i].op = "end" /\ s.open = <<>>
  <2>1. Pop(s.open) \in Seq(Blocks)
    BY <1>7 DEF Pop
  <2> QED BY <1>2, <1>4, <1>5, <1>6, <1>7, <2>1 DEF ValidStep, ValidStates
<1>8. CASE ~(code[i].op = "end" /\ s.open = <<>>)
  BY <1>2, <1>4, <1>5, <1>6, <1>8 DEF ValidStep, ValidStates
<1> QED BY <1>7, <1>8

LEMMA ValidUnfolds ==
  ASSUME NEW code \in Seq(Operators)
  PROVE  /\ Validation(code) \in [0 .. Len(code) -> ValidStates]
         /\ Validation(code)[0] = [h |-> 0, open |-> <<>>]
         /\ \A i \in 1 .. Len(code) :
              Validation(code)[i] = ValidStep(code[i], i, Validation(code)[i - 1])
<1>1. PICK s0 : s0 = [h |-> 0, open |-> <<>>]
  OBVIOUS
<1>2. PICK n \in Nat : n = Len(code)
  OBVIOUS
<1>3. s0 \in ValidStates
  BY <1>1 DEF ValidStates
<1>4. PICK step : step = [i \in 1 .. n |-> [s \in ValidStates |-> ValidStep(code[i], i, s)]]
  OBVIOUS
<1>5. step \in [1 .. n -> [ValidStates -> ValidStates]]
  BY <1>2, <1>4, ValidTyped
<1>6. PICK f : Recurs(f, n, ValidStates, s0, step)
  BY <1>2, <1>3, <1>5, Recursion
<1>7. ASSUME NEW i \in 1 .. n  PROVE f[i] = ValidStep(code[i], i, f[i - 1])
  <2>1. i - 1 \in 0 .. n
    BY <1>2
  <2>2. f[i - 1] \in ValidStates
    BY <1>6, <2>1 DEF Recurs
  <2> QED BY <1>4, <1>6, <2>2 DEF Recurs
<1>8. f = [i \in 0 .. n |->
             IF i = 0 THEN [h |-> 0, open |-> <<>>]
             ELSE ValidStep(code[i], i, f[i - 1])]
  <2>1. \A i \in 0 .. n : i # 0 => i \in 1 .. n
    OBVIOUS
  <2> QED BY <1>1, <1>6, <1>7, <2>1 DEF Recurs
<1>9. PICK g : g = Validation(code)
  OBVIOUS
<1>10. g = [i \in 0 .. n |->
             IF i = 0 THEN [h |-> 0, open |-> <<>>]
             ELSE ValidStep(code[i], i, g[i - 1])]
  BY <1>2, <1>8, <1>9 DEF Validation
<1>11. g[0] = s0
  BY <1>1, <1>10
<1>12. ASSUME NEW i \in 1 .. n  PROVE g[i] = ValidStep(code[i], i, g[i - 1])
  <2>1. i \in 0 .. n /\ i # 0
    OBVIOUS
  <2> QED BY <1>10, <2>1
<1>13. PICK T : T = {i \in 0 .. n : g[i] \in ValidStates}
  OBVIOUS
<1>14. ASSUME NEW i \in 0 .. n, 0 < i, i - 1 \in T  PROVE i \in T
  <2>1. i \in 1 .. n
    BY <1>2, <1>14
  <2> QED BY <1>2, <1>12, <1>13, <1>14, <2>1, ValidTyped
<1>15. 0 \in T
  BY <1>3, <1>11, <1>13
<1>16. \A i \in 0 .. n : i \in T
  BY <1>2, <1>14, <1>15, Upward
<1>17. g \in [0 .. n -> ValidStates]
  BY <1>10, <1>13, <1>16
<1> QED BY <1>1, <1>2, <1>9, <1>11, <1>12, <1>17

----------------------------------------------------------------------------
(* The blocks that are open after operator i. *)

Open(code, i) == Validation(code)[i].open

(* One operator opens a block, closes the innermost or leaves them all.    *)
Opens(code, i) ==
  LET old == Open(code, i - 1)
      new == Open(code, i)
  IN  /\ Len(new) = Len(old) + 1
      /\ new[Len(new)] = Block(i, After(code[i], Before(code[i], Validation(code)[i - 1])),
                               code[i].n)
      /\ \A k \in 1 .. Len(old) : new[k] = old[k]
Closes(code, i) ==
  LET old == Open(code, i - 1)
      new == Open(code, i)
  IN  /\ Len(new) = Len(old) - 1
      /\ \A k \in 1 .. Len(new) : new[k] = old[k]

LEMMA OpenType ==
  ASSUME NEW code \in Seq(Operators), NEW i \in 0 .. Len(code)
  PROVE  /\ Open(code, i) \in Seq(Blocks) /\ Len(Open(code, i)) \in Nat
         /\ Validation(code)[i].h \in Int
<1>1. Validation(code)[i] \in ValidStates
  BY ValidUnfolds
<1> QED BY <1>1 DEF ValidStates, Open

LEMMA OpenStep ==
  ASSUME NEW code \in Seq(Operators), NEW i \in 1 .. Len(code)
  PROVE  /\ code[i].op \in Openers => Opens(code, i)
         /\ code[i].op = "end" /\ Open(code, i - 1) # <<>> => Closes(code, i)
         /\ code[i].op = "end" /\ Open(code, i - 1) = <<>> => Open(code, i) = <<>>
         /\ code[i].op \notin Openers \cup {"end"} => Open(code, i) = Open(code, i - 1)
<1>1. i - 1 \in 0 .. Len(code) /\ i \in 0 .. Len(code)
  OBVIOUS
<1>2. PICK old : old = Open(code, i - 1)
  OBVIOUS
<1>3. old \in Seq(Blocks) /\ Len(old) \in Nat
  BY <1>1, <1>2, OpenType
<1>4. PICK b : b = Block(i, After(code[i], Before(code[i], Validation(code)[i - 1])), code[i].n)
  OBVIOUS
<1>5. Open(code, i) = IF code[i].op \in Openers THEN Append(old, b)
                      ELSE IF code[i].op = "end" THEN Pop(old) ELSE old
  <2>1. Validation(code)[i] = ValidStep(code[i], i, Validation(code)[i - 1])
    BY ValidUnfolds
  <2> QED BY <1>2, <1>4, <2>1 DEF ValidStep, Open
<1>6. CASE code[i].op \in Openers
  <2>1. i \in Nat /\ code[i].n \in Nat
    BY OperatorType
  <2>2. Validation(code)[i - 1] \in ValidStates
    BY <1>1, ValidUnfolds
  <2>3. Open(code, i) = Append(old, b)
    BY <1>5, <1>6
  <2>4. b \in Blocks
    <3>1. Before(code[i], Validation(code)[i - 1]) = Validation(code)[i - 1].h
      BY <1>6 DEF Before, Openers
    <3>2. Before(code[i], Validation(code)[i - 1]) \in Int
      BY <2>2, <3>1 DEF ValidStates
    <3>3. After(code[i], Before(code[i], Validation(code)[i - 1])) \in Int
      BY <3>2 DEF After, Dividers, Dead
    <3> QED BY <1>4, <2>1, <3>3 DEF Block, Blocks
  <2>5. /\ Len(Append(old, b)) = Len(old) + 1
        /\ Append(old, b)[Len(old) + 1] = b
        /\ \A k \in 1 .. Len(old) : Append(old, b)[k] = old[k]
    BY <1>3, <2>4, AppendProperties
  <2>6. code[i].op # "end"
    BY <1>6 DEF Openers
  <2> QED BY <1>2, <1>4, <1>6, <2>3, <2>5, <2>6 DEF Opens
<1>7. CASE code[i].op = "end" /\ old # <<>>
  <2>1. code[i].op \notin Openers
    BY <1>7 DEF Openers
  <2>2. Open(code, i) = Pop(old)
    BY <1>5, <1>7, <2>1
  <2>3. Len(Pop(old)) = Len(old) - 1 /\ \A k \in 1 .. Len(old) - 1 : Pop(old)[k] = old[k]
    BY <1>3, <1>7, Stacks
  <2> QED BY <1>2, <1>7, <2>1, <2>2, <2>3 DEF Closes
<1>8. CASE code[i].op = "end" /\ old = <<>>
  <2>1. code[i].op \notin Openers
    BY <1>8 DEF Openers
  <2>2. Pop(old) = <<>>
    BY <1>8 DEF Pop
  <2> QED BY <1>2, <1>5, <1>8, <2>1, <2>2
<1>9. CASE code[i].op \notin Openers \cup {"end"}
  BY <1>2, <1>5, <1>9
<1> QED BY <1>2, <1>6, <1>7, <1>8, <1>9

(* A block that is open has been since its opener, under the same blocks,  *)
(* and no end in between was its own.                                      *)
Sits(code, i, k) ==
  LET o == Open(code, i)[k].at IN
  /\ o \in 1 .. i /\ code[o].op \in Openers
  /\ Len(Open(code, o - 1)) = k - 1 /\ Len(Open(code, o)) = k
  /\ \A m \in 1 .. k : Open(code, i)[m] = Open(code, o)[m]
  /\ \A j \in o + 1 .. i : ~Belongs(code, j, "end", o)

LEMMA Discipline ==
  ASSUME NEW code \in Seq(Operators)
  PROVE  \A i \in 0 .. Len(code) : \A k \in 1 .. Len(Open(code, i)) : Sits(code, i, k)
<1>1. PICK n \in Nat : n = Len(code)
  OBVIOUS
<1>2. PICK T : T = {i \in 0 .. n : \A k \in 1 .. Len(Open(code, i)) : Sits(code, i, k)}
  OBVIOUS
<1>3. 0 \in T
  <2>1. Open(code, 0) = <<>>
    BY ValidUnfolds DEF Open
  <2> QED BY <1>1, <1>2, <2>1
<1>4. ASSUME NEW i \in 0 .. n, 0 < i, i - 1 \in T  PROVE i \in T
  <2>1. i \in 1 .. Len(code) /\ i - 1 \in 0 .. Len(code) /\ i \in 0 .. Len(code)
    BY <1>1, <1>4
  <2>2. PICK old, new : old = Open(code, i - 1) /\ new = Open(code, i)
    OBVIOUS
  <2>3. Len(old) \in Nat /\ Len(new) \in Nat
    BY <2>1, <2>2, OpenType
  <2>4. \A k \in 1 .. Len(old) : Sits(code, i - 1, k)
    BY <1>2, <1>4, <2>2
  <2>5. ASSUME NEW k \in 1 .. Len(old), \A m \in 1 .. k : new[m] = old[m],
               ~Belongs(code, i, "end", old[k].at)
        PROVE  Sits(code, i, k)
    <3>1. PICK o : o = old[k].at
      OBVIOUS
    <3>2. Open(code, i)[k].at = o /\ Open(code, i - 1)[k].at = o
      BY <2>2, <2>3, <2>5, <3>1
    <3>3. /\ o \in 1 .. i - 1 /\ code[o].op \in Openers
          /\ Len(Open(code, o - 1)) = k - 1 /\ Len(Open(code, o)) = k
          /\ \A m \in 1 .. k : old[m] = Open(code, o)[m]
          /\ \A j \in o + 1 .. i - 1 : ~Belongs(code, j, "end", o)
      BY <2>2, <2>4, <3>2 DEF Sits
    <3>4. \A j \in o + 1 .. i : j = i \/ j \in o + 1 .. i - 1
      BY <2>1, <3>3
    <3>5. \A j \in o + 1 .. i : ~Belongs(code, j, "end", o)
      BY <2>5, <3>1, <3>3, <3>4
    <3>6. o \in 1 .. i
      BY <2>1, <3>3
    <3> QED BY <2>2, <2>5, <3>2, <3>3, <3>5, <3>6 DEF Sits
  <2>6. CASE code[i].op \in Openers
    <3>1. /\ Len(new) = Len(old) + 1 /\ new[Len(new)].at = i
          /\ \A k \in 1 .. Len(old) : new[k] = old[k]
      <4>1. Opens(code, i)
        BY <2>1, <2>6, OpenStep
      <4>2. new[Len(new)] = Block(i, After(code[i], Before(code[i], Validation(code)[i - 1])),
                                  code[i].n)
        BY <2>2, <4>1 DEF Opens
      <4>3. new[Len(new)].at = i
        BY <4>2 DEF Block
      <4> QED BY <2>2, <4>1, <4>3 DEF Opens
    <3>2. ASSUME NEW k \in 1 .. Len(new), k # Len(new)  PROVE Sits(code, i, k)
      <4>1. k \in 1 .. Len(old) /\ \A m \in 1 .. k : m \in 1 .. Len(old)
        BY <2>3, <3>1, <3>2
      <4>2. ~Belongs(code, i, "end", old[k].at)
        BY <2>6 DEF Belongs, Openers
      <4> QED BY <2>5, <3>1, <4>1, <4>2
    <3>3. Len(new) \in 1 .. Len(new) => Sits(code, i, Len(new))
      BY <2>1, <2>2, <2>3, <2>6, <3>1 DEF Sits
    <3> QED BY <1>2, <2>2, <3>2, <3>3
  <2>7. CASE code[i].op = "end" /\ old # <<>>
    <3>1. Len(new) = Len(old) - 1 /\ \A k \in 1 .. Len(new) : new[k] = old[k]
      BY <2>1, <2>2, <2>7, OpenStep DEF Closes
    <3>2. ASSUME NEW k \in 1 .. Len(new)  PROVE Sits(code, i, k)
      <4>1. k \in 1 .. Len(old) /\ k # Len(old) /\ Len(old) \in 1 .. Len(old)
        BY <2>3, <3>1
      <4>2. Len(Open(code, old[k].at)) = k /\ Len(Open(code, Top(old).at)) = Len(old)
        BY <2>2, <2>4, <4>1 DEF Sits, Top
      <4>3. ~Belongs(code, i, "end", old[k].at)
        BY <2>2, <4>1, <4>2 DEF Belongs, Open
      <4>4. \A m \in 1 .. k : m \in 1 .. Len(new)
        BY <2>3
      <4> QED BY <2>5, <3>1, <4>1, <4>3, <4>4
    <3> QED BY <1>2, <2>2, <3>2
  <2>8. CASE code[i].op = "end" /\ old = <<>>
    <3>1. new = <<>>
      BY <2>1, <2>2, <2>8, OpenStep
    <3>2. Len(new) = 0
      BY <3>1
    <3> QED BY <1>2, <2>2, <3>2
  <2>9. CASE code[i].op \notin Openers \cup {"end"}
    <3>1. new = old
      BY <2>1, <2>2, <2>9, OpenStep
    <3>2. ASSUME NEW k \in 1 .. Len(new)  PROVE Sits(code, i, k)
      BY <2>5, <2>9, <3>1 DEF Belongs
    <3> QED BY <1>2, <2>2, <3>2
  <2> QED BY <2>2, <2>6, <2>7, <2>8, <2>9
<1>5. \A i \in 0 .. n : i \in T
  BY <1>1, <1>3, <1>4, Upward
<1> QED BY <1>1, <1>2, <1>5

(* What is on top was opened there, and nothing has changed below it.      *)
LEMMA TopIs ==
  ASSUME NEW code \in Seq(Operators), NEW i \in 0 .. Len(code), Open(code, i) # <<>>
  PROVE  LET o == Top(Open(code, i)).at
         IN  /\ o \in 1 .. i /\ code[o].op \in Openers
             /\ Open(code, i) = Open(code, o)
             /\ Len(Open(code, o - 1)) = Len(Open(code, o)) - 1
             /\ \A j \in o + 1 .. i : ~Belongs(code, j, "end", o)
<1>1. PICK s : s = Open(code, i)
  OBVIOUS
<1>2. s \in Seq(Blocks) /\ Len(s) \in Nat \ {0}
  BY <1>1, OpenType, EmptySeq
<1>3. PICK o : o = Top(s).at
  OBVIOUS
<1>4. Sits(code, i, Len(s))
  BY <1>1, <1>2, Discipline
<1>5. /\ o \in 1 .. i /\ code[o].op \in Openers
      /\ Len(Open(code, o - 1)) = Len(s) - 1 /\ Len(Open(code, o)) = Len(s)
      /\ \A m \in 1 .. Len(s) : s[m] = Open(code, o)[m]
      /\ \A j \in o + 1 .. i : ~Belongs(code, j, "end", o)
  BY <1>1, <1>3, <1>4 DEF Sits, Top
<1>6. o \in 0 .. Len(code)
  BY <1>5
<1>7. Open(code, o) \in Seq(Blocks)
  BY <1>6, OpenType
<1>8. s = Open(code, o)
  BY <1>2, <1>5, <1>7, SeqEqual
<1> QED BY <1>1, <1>3, <1>5, <1>8

LEMMA BelongsTo ==
  ASSUME NEW code \in Seq(Operators), NEW j \in 1 .. Len(code), NEW name, NEW o,
         Belongs(code, j, name, o)
  PROVE  /\ o \in 1 .. j - 1 /\ code[o].op \in Openers
         /\ Open(code, j - 1) # <<>> /\ Top(Open(code, j - 1)).at = o
         /\ Open(code, j - 1) = Open(code, o)
         /\ Len(Open(code, o - 1)) = Len(Open(code, o)) - 1
         /\ \A i \in o + 1 .. j - 1 : ~Belongs(code, i, "end", o)
<1>1. j - 1 \in 0 .. Len(code)
  OBVIOUS
<1>2. Open(code, j - 1) # <<>> /\ Top(Open(code, j - 1)).at = o
  BY DEF Belongs, Open
<1> QED BY <1>1, <1>2, TopIs

(* A block has one end. *)
LEMMA OneEnd ==
  ASSUME NEW code \in Seq(Operators), NEW o,
         NEW i \in 1 .. Len(code), NEW j \in 1 .. Len(code),
         Belongs(code, i, "end", o), Belongs(code, j, "end", o)
  PROVE  i = j
<1>1. /\ o \in 1 .. i - 1 /\ \A m \in o + 1 .. i - 1 : ~Belongs(code, m, "end", o)
  BY BelongsTo
<1>2. /\ o \in 1 .. j - 1 /\ \A m \in o + 1 .. j - 1 : ~Belongs(code, m, "end", o)
  BY BelongsTo
<1>3. ~(i < j)
  <2>1. i < j => i \in o + 1 .. j - 1
    BY <1>1
  <2> QED BY <1>2, <2>1
<1>4. ~(j < i)
  <2>1. j < i => j \in o + 1 .. i - 1
    BY <1>2
  <2> QED BY <1>1, <2>1
<1> QED BY <1>3, <1>4

(* A block stays open until its end. *)
LEMMA Stays ==
  ASSUME NEW code \in Seq(Operators), NEW o \in 1 .. Len(code), code[o].op \in Openers,
         NEW e \in o .. Len(code), \A j \in o + 1 .. e : ~Belongs(code, j, "end", o)
  PROVE  /\ Len(Open(code, e)) >= Len(Open(code, o))
         /\ Open(code, e)[Len(Open(code, o))].at = o
<1>1. PICK k : k = Len(Open(code, o))
  OBVIOUS
<1>2. k \in Nat \ {0} /\ Open(code, o)[k].at = o
  <2>1. Opens(code, o) /\ o - 1 \in 0 .. Len(code)
    BY OpenStep
  <2>2. Len(Open(code, o - 1)) \in Nat
    BY <2>1, OpenType
  <2>3. k = Len(Open(code, o - 1)) + 1
    BY <1>1, <2>1 DEF Opens
  <2>4. Open(code, o)[k] = Block(o, After(code[o], Before(code[o], Validation(code)[o - 1])),
                                 code[o].n)
    BY <1>1, <2>1 DEF Opens
  <2>5. Open(code, o)[k].at = o
    BY <2>4 DEF Block
  <2> QED BY <2>2, <2>3, <2>5
<1>3. PICK T : T = {i \in o .. e : Len(Open(code, i)) >= k /\ Open(code, i)[k].at = o}
  OBVIOUS
<1>4. o \in T
  BY <1>1, <1>2, <1>3
<1>5. ASSUME NEW i \in o .. e, o < i, i - 1 \in T  PROVE i \in T
  <2>1. i \in 1 .. Len(code) /\ i - 1 \in 0 .. Len(code) /\ i \in 0 .. Len(code)
        /\ i \in o + 1 .. e
    BY <1>5
  <2>2. PICK old, new : old = Open(code, i - 1) /\ new = Open(code, i)
    OBVIOUS
  <2>3. Len(old) \in Nat /\ Len(new) \in Nat
    BY <2>1, <2>2, OpenType
  <2>4. Len(old) >= k /\ old[k].at = o
    BY <1>3, <1>5, <2>2
  <2>5. old # <<>> /\ k \in 1 .. Len(old)
    BY <1>2, <2>3, <2>4
  <2>6. CASE code[i].op \in Openers
    <3>1. Len(new) = Len(old) + 1 /\ \A m \in 1 .. Len(old) : new[m] = old[m]
      BY <2>1, <2>2, <2>6, OpenStep DEF Opens
    <3> QED BY <1>2, <1>3, <2>2, <2>3, <2>4, <2>5, <3>1
  <2>7. CASE code[i].op = "end"
    <3>1. Len(new) = Len(old) - 1 /\ \A m \in 1 .. Len(new) : new[m] = old[m]
      BY <2>1, <2>2, <2>5, <2>7, OpenStep DEF Closes
    <3>2. ~Belongs(code, i, "end", o)
      BY <2>1
    <3>3. k # Len(old)
      BY <2>2, <2>4, <2>5, <2>7, <3>2 DEF Belongs, Open, Top
    <3>4. k \in 1 .. Len(new)
      BY <2>3, <2>5, <3>1, <3>3
    <3> QED BY <1>2, <1>3, <2>2, <2>3, <2>4, <3>1, <3>4
  <2>8. CASE code[i].op \notin Openers \cup {"end"}
    <3>1. new = old
      BY <2>1, <2>2, <2>8, OpenStep
    <3> QED BY <1>3, <2>2, <2>4, <3>1
  <2> QED BY <2>6, <2>7, <2>8
<1>6. o \in Nat /\ e \in Nat /\ e \in o .. e
  OBVIOUS
<1>7. \A i \in o .. e : i \in T
  BY <1>4, <1>5, <1>6, Upward
<1> QED BY <1>1, <1>3, <1>6, <1>7

(* Of two blocks that are open, the outer was opened first.                *)
LEMMA Nested ==
  ASSUME NEW code \in Seq(Operators), NEW i \in 0 .. Len(code),
         NEW k \in 1 .. Len(Open(code, i)), NEW m \in 1 .. Len(Open(code, i)), k < m
  PROVE  Open(code, i)[k].at < Open(code, i)[m].at
<1>1. PICK o, q : o = Open(code, i)[k].at /\ q = Open(code, i)[m].at
  OBVIOUS
<1>2. /\ o \in 1 .. i /\ Len(Open(code, o)) = k
  BY <1>1, Discipline DEF Sits
<1>3. /\ q \in 1 .. i /\ Len(Open(code, q)) = m
      /\ \A l \in 1 .. m : Open(code, i)[l] = Open(code, q)[l]
  BY <1>1, Discipline DEF Sits
<1>4. k \in Nat /\ m \in Nat
  BY OpenType
<1>5. q \in 0 .. Len(code) /\ k \in 1 .. Len(Open(code, q)) /\ k \in 1 .. m
  BY <1>3, <1>4
<1>6. Sits(code, q, k)
  BY <1>5, Discipline
<1>7. o \in 1 .. q
  BY <1>1, <1>3, <1>5, <1>6 DEF Sits
<1>8. o # q
  BY <1>2, <1>3, <1>4
<1> QED BY <1>1, <1>3, <1>7, <1>8

LEMMA HasEnd ==
  ASSUME NEW f \in Functions, Validated(f),
         NEW o \in 1 .. Len(f.code), f.code[o].op \in Openers
  PROVE  \E e \in o + 1 .. Len(f.code) - 1 : Belongs(f.code, e, "end", o)
<1>1. PICK code : code = f.code
  OBVIOUS
<1>2. code \in Seq(Operators)
  BY <1>1, FunctionsAssumption
<1>3. PICK n \in Nat : n = Len(code)
  BY <1>2
<1>4. code[n].op = "end" /\ n \in 1 .. n /\ n - 1 \in 0 .. n
  BY <1>1, <1>2, <1>3, EmptySeq DEF Validated
<1>5. Open(code, n - 1) = <<>>
  BY <1>1, <1>3, <1>4 DEF Validated, OperatorFits, Open
<1>6. o \in 1 .. n - 1
  BY <1>1, <1>3, <1>4 DEF Openers
<1>7. SUFFICES ASSUME \A e \in o + 1 .. n - 1 : ~Belongs(code, e, "end", o)
               PROVE  FALSE
  BY <1>1, <1>3
<1>8. n - 1 \in o .. Len(code) /\ o \in 1 .. Len(code) /\ o \in 0 .. Len(code)
  BY <1>3, <1>6
<1>9. Len(Open(code, n - 1)) >= Len(Open(code, o))
  BY <1>1, <1>2, <1>7, <1>8, Stays
<1>10. Len(Open(code, o)) = Len(Open(code, o - 1)) + 1
  BY <1>1, <1>2, <1>8, OpenStep DEF Opens
<1>11. Len(Open(code, o - 1)) \in Nat
  BY <1>2, <1>8, OpenType
<1> QED BY <1>5, <1>9, <1>10, <1>11

----------------------------------------------------------------------------
(* block_structure finds what validation sees. *)

(* pairs relates every opener to its operators of that name up to i.       *)
Relates(pairs, code, i, name) ==
  /\ pairs \subseteq Nat \X Nat
  /\ \A o, j \in Nat :
       <<o, j>> \in pairs <=> j \in 1 .. i /\ Belongs(code, j, name, o)

LEMMA RelatesMore ==
  ASSUME NEW code \in Seq(Operators), NEW i \in 1 .. Len(code), NEW name, NEW pairs,
         NEW more, Relates(pairs, code, i - 1, name),
         \A o \in Nat : Belongs(code, i, name, o) <=> <<o, i>> \in more,
         \A p \in more : p \in Nat \X Nat /\ p[2] = i
  PROVE  Relates(pairs \cup more, code, i, name)
<1>1. pairs \cup more \subseteq Nat \X Nat
  BY DEF Relates
<1>2. ASSUME NEW o \in Nat, NEW j \in Nat
      PROVE  <<o, j>> \in pairs \cup more <=> j \in 1 .. i /\ Belongs(code, j, name, o)
  <2>1. <<o, j>> \in pairs <=> j \in 1 .. i - 1 /\ Belongs(code, j, name, o)
    BY DEF Relates
  <2>2. CASE j = i
    <3>1. <<o, j>> \notin pairs
      BY <2>1, <2>2
    <3>2. i \in 1 .. i
      OBVIOUS
    <3> QED BY <2>2, <3>1, <3>2
  <2>3. CASE j # i
    <3>1. <<o, j>> \notin more
      BY <2>3
    <3>2. j \in 1 .. i <=> j \in 1 .. i - 1
      BY <2>3
    <3> QED BY <2>1, <3>1, <3>2
  <2> QED BY <2>2, <2>3
<1> QED BY <1>1, <1>2 DEF Relates

LEMMA ScanExact ==
  ASSUME NEW f \in Functions, Validated(f)
  PROVE  /\ Relates(Scan(f.code).ends, f.code, Len(f.code), "end")
         /\ Relates(Scan(f.code).elses, f.code, Len(f.code), "else")
<1>1. PICK code : code = f.code
  OBVIOUS
<1>2. code \in Seq(Operators)
  BY <1>1, FunctionsAssumption
<1>3. PICK n \in Nat : n = Len(code)
  BY <1>2
<1>4. PICK scan : scan = Scanned(code)
  OBVIOUS
<1>5. PICK T : T = {i \in 0 .. n :
        /\ Len(scan[i].open) = Len(Open(code, i))
        /\ \A k \in 1 .. Len(Open(code, i)) : scan[i].open[k] = Open(code, i)[k].at
        /\ Relates(scan[i].ends, code, i, "end")
        /\ Relates(scan[i].elses, code, i, "else")}
  OBVIOUS
<1>6. 0 \in T
  <2>1. Open(code, 0) = <<>>
    BY <1>2, ValidUnfolds DEF Open
  <2>2. scan[0] = [open |-> <<>>, ends |-> {}, elses |-> {}]
    BY <1>2, <1>4, ScanUnfolds
  <2>3. Relates({}, code, 0, "end") /\ Relates({}, code, 0, "else")
    BY DEF Relates
  <2>4. 0 \in 0 .. n /\ Len(scan[0].open) = 0 /\ Len(Open(code, 0)) = 0
    BY <1>3, <2>1, <2>2
  <2>5. scan[0].ends = {} /\ scan[0].elses = {}
    BY <2>2
  <2>6. \A k \in 1 .. Len(Open(code, 0)) : scan[0].open[k] = Open(code, 0)[k].at
    BY <2>4
  <2> QED BY <1>5, <2>3, <2>4, <2>5, <2>6
<1>7. ASSUME NEW i \in 0 .. n, 0 < i, i - 1 \in T  PROVE i \in T
  <2>1. i \in 1 .. Len(code) /\ i - 1 \in 0 .. Len(code) /\ i \in 0 .. Len(code) /\ i \in Nat
    BY <1>3, <1>7
  <2>2. PICK old, new, s : old = Open(code, i - 1) /\ new = Open(code, i) /\ s = scan[i - 1]
    OBVIOUS
  <2>3. old \in Seq(Blocks) /\ Len(old) \in Nat /\ Len(new) \in Nat
    BY <1>2, <2>1, <2>2, OpenType
  <2>4. s \in ScanStates /\ s.open \in Seq(Nat)
    BY <1>2, <1>4, <2>1, <2>2, ScanUnfolds DEF ScanStates
  <2>5. /\ Len(s.open) = Len(old) /\ \A k \in 1 .. Len(old) : s.open[k] = old[k].at
        /\ Relates(s.ends, code, i - 1, "end") /\ Relates(s.elses, code, i - 1, "else")
    BY <1>5, <1>7, <2>2
  <2>6. scan[i] = ScanStep(code, i, s)
    BY <1>2, <1>4, <2>1, <2>2, ScanUnfolds
  <2>7. s.open = <<>> <=> old = <<>>
    BY <2>3, <2>4, <2>5
  <2>8. old # <<>> => Top(s.open) = Top(old).at /\ Top(s.open) \in Nat
    <3>1. old # <<>> => Len(old) \in 1 .. Len(old)
      BY <2>3
    <3> QED BY <2>4, <2>5, <2>7, <3>1, Stacks DEF Top
  <2>9. /\ Len(scan[i].open) = Len(new)
        /\ \A k \in 1 .. Len(new) : scan[i].open[k] = new[k].at
    <3>1. CASE code[i].op \in Openers
      <4>1. Opens(code, i)
        BY <1>2, <2>1, <3>1, OpenStep
      <4>2. /\ Len(new) = Len(old) + 1
            /\ \A k \in 1 .. Len(old) : new[k] = old[k]
        BY <2>2, <4>1 DEF Opens
      <4>3. new[Len(new)].at = i
        <5>1. new[Len(new)] = Block(i, After(code[i], Before(code[i], Validation(code)[i - 1])),
                                    code[i].n)
          BY <2>2, <4>1 DEF Opens
        <5> QED BY <5>1 DEF Block
      <4>4. scan[i].open = Append(s.open, i)
        BY <2>6, <3>1 DEF ScanStep
      <4>5. /\ Len(Append(s.open, i)) = Len(s.open) + 1
            /\ Append(s.open, i)[Len(s.open) + 1] = i
            /\ \A k \in 1 .. Len(s.open) : Append(s.open, i)[k] = s.open[k]
        BY <2>1, <2>4, AppendProperties
      <4>6. ASSUME NEW k \in 1 .. Len(new)  PROVE scan[i].open[k] = new[k].at
        <5>1. k = Len(new) \/ k \in 1 .. Len(old)
          BY <2>3, <4>2
        <5> QED BY <2>5, <4>2, <4>3, <4>4, <4>5, <5>1
      <4> QED BY <2>5, <4>2, <4>4, <4>5, <4>6
    <3>2. CASE code[i].op = "end" /\ old # <<>>
      <4>1. Len(new) = Len(old) - 1 /\ \A k \in 1 .. Len(new) : new[k] = old[k]
        BY <1>2, <2>1, <2>2, <3>2, OpenStep DEF Closes
      <4>2. scan[i].open = Pop(s.open)
        BY <2>6, <2>7, <3>2 DEF ScanStep, Openers
      <4>3. /\ Len(Pop(s.open)) = Len(s.open) - 1
            /\ \A k \in 1 .. Len(s.open) - 1 : Pop(s.open)[k] = s.open[k]
        BY <2>4, <2>7, <3>2, Stacks
      <4>4. ASSUME NEW k \in 1 .. Len(new)  PROVE scan[i].open[k] = new[k].at
        <5>1. k \in 1 .. Len(s.open) - 1 /\ k \in 1 .. Len(old)
          BY <2>3, <2>5, <4>1
        <5> QED BY <2>5, <4>1, <4>2, <4>3, <5>1
      <4> QED BY <2>5, <4>1, <4>2, <4>3, <4>4
    <3>3. CASE ~(code[i].op \in Openers) /\ ~(code[i].op = "end" /\ old # <<>>)
      <4>1. new = old
        BY <1>2, <2>1, <2>2, <3>3, OpenStep
      <4>2. scan[i].open = s.open
        BY <2>6, <2>7, <3>3 DEF ScanStep
      <4> QED BY <2>5, <4>1, <4>2
    <3> QED BY <3>1, <3>2, <3>3
  <2>10. \A name : \A o \in Nat :
           Belongs(code, i, name, o) <=> code[i].op = name /\ old # <<>> /\ Top(s.open) = o
    BY <2>2, <2>8 DEF Belongs, Open
  <2>11. Relates(scan[i].ends, code, i, "end")
    <3>1. PICK more : more = IF code[i].op = "end" /\ s.open # <<>>
                             THEN {<<Top(s.open), i>>} ELSE {}
      OBVIOUS
    <3>2. scan[i].ends = s.ends \cup more
      BY <2>6, <3>1 DEF ScanStep
    <3>3. \A p \in more : p \in Nat \X Nat /\ p[2] = i
      BY <2>1, <2>7, <2>8, <3>1
    <3>4. \A o \in Nat : Belongs(code, i, "end", o) <=> <<o, i>> \in more
      BY <2>7, <2>10, <3>1
    <3>5. PICK pairs : pairs = s.ends
      OBVIOUS
    <3>6. Relates(pairs, code, i - 1, "end")
      BY <2>5, <3>5
    <3>7. Relates(pairs \cup more, code, i, "end")
      BY ONLY <1>2, <2>1, <3>3, <3>4, <3>6, RelatesMore
    <3> QED BY <3>2, <3>5, <3>7
  <2>12. Relates(scan[i].elses, code, i, "else")
    <3>1. PICK more : more = IF code[i].op = "else" /\ s.open # <<>>
                             THEN {<<Top(s.open), i>>} ELSE {}
      OBVIOUS
    <3>2. \A p \in more : p \in Nat \X Nat /\ p[2] = i
      BY <2>1, <2>7, <2>8, <3>1
    <3>3. \A o \in Nat : Belongs(code, i, "else", o) <=> <<o, i>> \in more
      BY <2>7, <2>10, <3>1
    <3>4. scan[i].elses = s.elses \cup more
      <4>1. CASE code[i].op = "else" /\ s.open # <<>>
        <5>1. ASSUME NEW p \in s.elses, p[1] = Top(s.open)  PROVE FALSE
          <6>1. PICK o, j \in Nat : p = <<o, j>>
            BY <2>5 DEF Relates
          <6>2. j \in 1 .. i - 1 /\ Belongs(code, j, "else", o)
            BY <2>5, <6>1 DEF Relates
          <6>3. Belongs(code, i, "else", o)
            BY <2>7, <2>10, <4>1, <5>1, <6>1
          <6>4. o \in 1 .. Len(code) /\ j \in 1 .. Len(code)
            <7>1. j \in 1 .. Len(code)
              BY <2>1, <6>2
            <7>2. o \in 1 .. j - 1
              BY <1>2, <6>2, <7>1, BelongsTo
            <7> QED BY <7>1, <7>2
          <6>5. i = j
            BY <1>1, <2>1, <6>2, <6>3, <6>4 DEF Validated
          <6> QED BY <6>2, <6>5
        <5>2. {p \in s.elses : p[1] # Top(s.open)} = s.elses
          BY <5>1
        <5>3. scan[i].elses = {p \in s.elses : p[1] # Top(s.open)} \cup {<<Top(s.open), i>>}
          BY <2>6, <4>1 DEF ScanStep
        <5> QED BY <3>1, <4>1, <5>2, <5>3
      <4>2. CASE ~(code[i].op = "else" /\ s.open # <<>>)
        BY <2>6, <3>1, <4>2 DEF ScanStep
      <4> QED BY <4>1, <4>2
    <3>5. PICK pairs : pairs = s.elses
      OBVIOUS
    <3>6. Relates(pairs, code, i - 1, "else")
      BY <2>5, <3>5
    <3>7. Relates(pairs \cup more, code, i, "else")
      BY ONLY <1>2, <2>1, <3>2, <3>3, <3>6, RelatesMore
    <3> QED BY <3>4, <3>5, <3>7
  <2> QED BY <1>5, <2>2, <2>9, <2>11, <2>12
<1>8. \A i \in 0 .. n : i \in T
  BY <1>3, <1>6, <1>7, Upward
<1>9. n \in T
  BY <1>3, <1>8
<1> QED BY <1>1, <1>3, <1>4, <1>5, <1>9 DEF Scan

----------------------------------------------------------------------------
(* The control stack of the interpreter against the blocks of validation.  *)

EndAt(f, o) == CHOOSE e \in 1 .. Len(f.code) : Belongs(f.code, e, "end", o)

Frame(f, b) ==
  LET loop == f.code[b.at].op = "loop"
  IN  [end |-> EndAt(f, b.at), cont |-> IF loop THEN b.at + 1 ELSE EndAt(f, b.at) + 1,
       arity |-> IF loop THEN 0 ELSE b.n, height |-> b.h, loop |-> loop]

(* st holds the blocks that are open after operator i, ...                 *)
Framed(f, st, i) ==
  /\ st \in Seq(Ctrls) /\ Len(st) = Len(Open(f.code, i))
  /\ \A k \in 1 .. Len(st) : st[k] = Frame(f, Open(f.code, i)[k])

(* ... and operator p is about to run as validation has foreseen.          *)
Placed(f, p, v, st) ==
  /\ p \in 1 .. Len(f.code) /\ v \in Seq({0, 1})
  /\ Framed(f, st, p - 1)
  /\ Len(v) = Before(f.code[p], Validation(f.code)[p - 1])

LEMMA Body ==
  ASSUME NEW f \in Functions, Validated(f)
  PROVE  /\ f.code \in Seq(Operators) /\ Len(f.code) \in Nat \ {0}
         /\ f.code[Len(f.code)].op = "end" /\ f.results \in {0, 1}
         /\ \A i \in 1 .. Len(f.code) :
              OperatorFits(f.code, f.results, i, Validation(f.code)[i - 1])
<1>1. f.code \in Seq(Operators) /\ f.results \in {0, 1}
  BY FunctionsAssumption
<1> QED BY <1>1, EmptySeq DEF Validated

LEMMA EndAtIs ==
  ASSUME NEW f \in Functions, Validated(f),
         NEW o \in 1 .. Len(f.code), f.code[o].op \in Openers
  PROVE  /\ EndAt(f, o) \in o + 1 .. Len(f.code) - 1
         /\ Belongs(f.code, EndAt(f, o), "end", o)
<1>1. PICK e \in o + 1 .. Len(f.code) - 1 : Belongs(f.code, e, "end", o)
  BY HasEnd
<1>2. e \in 1 .. Len(f.code)
  BY <1>1, Body
<1>3. EndAt(f, o) \in 1 .. Len(f.code) /\ Belongs(f.code, EndAt(f, o), "end", o)
  BY <1>1, <1>2 DEF EndAt
<1>4. EndAt(f, o) = e
  BY <1>1, <1>2, <1>3, Body, OneEnd
<1> QED BY <1>1, <1>3, <1>4

(* A block that is open, from its opener on.                               *)
LEMMA BlockIs ==
  ASSUME NEW f \in Functions, Validated(f), NEW i \in 0 .. Len(f.code),
         NEW k \in 1 .. Len(Open(f.code, i))
  PROVE  LET b == Open(f.code, i)[k]
             o == b.at
         IN  /\ o \in 1 .. i /\ o <= Len(f.code) /\ f.code[o].op \in Openers
             /\ b.n = f.code[o].n /\ b.n \in {0, 1} /\ b.h \in Int
             /\ b.h = After(f.code[o], Before(f.code[o], Validation(f.code)[o - 1]))
             /\ Validation(f.code)[o].h = b.h
             /\ Len(Open(f.code, o - 1)) = k - 1 /\ Len(Open(f.code, o)) = k
             /\ \A m \in 1 .. k : Open(f.code, o)[m] = Open(f.code, i)[m]
             /\ \A m \in 1 .. k - 1 : Open(f.code, o - 1)[m] = Open(f.code, i)[m]
<1>1. PICK code, b, o : code = f.code /\ b = Open(code, i)[k] /\ o = b.at
  OBVIOUS
<1>2. code \in Seq(Operators) /\ Len(code) \in Nat
  BY <1>1, Body
<1>3. /\ o \in 1 .. i /\ code[o].op \in Openers
      /\ Len(Open(code, o - 1)) = k - 1 /\ Len(Open(code, o)) = k
      /\ \A m \in 1 .. k : Open(code, i)[m] = Open(code, o)[m]
  BY <1>1, <1>2, Discipline DEF Sits
<1>4. o \in 1 .. Len(code) /\ o <= Len(code) /\ k \in Nat /\ k \in 1 .. k
  BY <1>1, <1>2, <1>3, OpenType
<1>5. Opens(code, o)
  BY <1>2, <1>3, <1>4, OpenStep
<1>6. /\ b = Block(o, After(code[o], Before(code[o], Validation(code)[o - 1])), code[o].n)
      /\ \A m \in 1 .. k - 1 : Open(code, o)[m] = Open(code, o - 1)[m]
  BY <1>1, <1>3, <1>4, <1>5 DEF Opens
<1>7. /\ b.n = code[o].n
      /\ b.h = After(code[o], Before(code[o], Validation(code)[o - 1]))
  BY <1>6 DEF Block
<1>8. code[o].n \in {0, 1}
  BY <1>1, <1>3, <1>4, Body DEF OperatorFits
<1>9. Validation(code)[o].h = b.h
  <2>1. Validation(code)[o] = ValidStep(code[o], o, Validation(code)[o - 1])
    BY <1>2, <1>4, ValidUnfolds
  <2>2. code[o].op # "else"
    BY <1>3 DEF Openers
  <2> QED BY <1>7, <2>1, <2>2 DEF ValidStep
<1>10. Validation(code)[o].h \in Int
  <2>1. o \in 0 .. Len(code)
    BY <1>2, <1>4
  <2> QED BY <1>2, <2>1, OpenType
<1>11. \A m \in 1 .. k - 1 : m \in 1 .. k
  BY <1>4
<1>12. \A m \in 1 .. k - 1 : Open(code, o - 1)[m] = Open(code, i)[m]
  BY <1>3, <1>6, <1>11
<1> QED BY <1>1, <1>3, <1>4, <1>7, <1>8, <1>9, <1>10, <1>12

LEMMA FrameType ==
  ASSUME NEW f \in Functions, Validated(f), NEW i \in 0 .. Len(f.code),
         NEW k \in 1 .. Len(Open(f.code, i)), Open(f.code, i)[k].h \in Nat
  PROVE  Frame(f, Open(f.code, i)[k]) \in Ctrls
<1>1. PICK b, o : b = Open(f.code, i)[k] /\ o = b.at
  OBVIOUS
<1>2. o \in 1 .. Len(f.code) /\ f.code[o].op \in Openers /\ b.n \in {0, 1}
  BY <1>1, BlockIs
<1>3. EndAt(f, o) \in Nat
  BY <1>2, EndAtIs
<1> QED BY <1>1, <1>2, <1>3 DEF Frame, Ctrls

(* Where the stacks are as validation left them after operator i, they are *)
(* as it wants them before the next.                                       *)
LEMMA Lands ==
  ASSUME NEW f \in Functions, Validated(f), NEW i \in 1 .. Len(f.code) - 1,
         NEW v \in Seq({0, 1}), NEW st, Framed(f, st, i),
         Validation(f.code)[i].h = Len(v)
  PROVE  Placed(f, i + 1, v, st)
<1>1. PICK code, s : code = f.code /\ s = Validation(code)[i]
  OBVIOUS
<1>2. code \in Seq(Operators) /\ Len(code) \in Nat
  BY <1>1, Body
<1>3. i + 1 \in 1 .. Len(code) /\ i \in 0 .. Len(code) /\ (i + 1) - 1 = i
  BY <1>1, <1>2
<1>4. OperatorFits(code, f.results, i + 1, s)
  BY <1>1, <1>3, Body
<1>5. Len(v) \in Nat
  OBVIOUS
<1>6. Before(code[i + 1], s) = Len(v)
  <2>1. CASE code[i + 1].op = "end" /\ s.open # <<>>
    <3>1. s.h \in {Dead, Top(s.open).h + Top(s.open).n}
      BY <1>4, <2>1 DEF OperatorFits, ResultsThere
    <3>2. s.h # Dead
      BY <1>1, <1>5 DEF Dead
    <3>3. Top(s.open).h # Dead
      <4>1. s.open = Open(code, i)
        BY <1>1 DEF Open
      <4>2. Len(s.open) \in Nat \ {0}
        BY <1>1, <1>2, <1>3, <2>1, <4>1, OpenType, EmptySeq
      <4>3. Len(s.open) \in 1 .. Len(st)
        BY <1>1, <4>1, <4>2 DEF Framed
      <4>4. st[Len(s.open)] = Frame(f, Top(s.open)) /\ st[Len(s.open)] \in Ctrls
        BY <1>1, <4>1, <4>3, ElementOfSeq DEF Framed, Top
      <4> QED BY <4>4 DEF Frame, Ctrls, Dead
    <3> QED BY <1>1, <2>1, <3>1, <3>2, <3>3 DEF Before
  <2>2. CASE ~(code[i + 1].op = "end" /\ s.open # <<>>)
    BY <1>1, <2>2 DEF Before
  <2> QED BY <2>1, <2>2
<1> QED BY <1>1, <1>3, <1>6 DEF Placed

----------------------------------------------------------------------------
(* What each way to go on does to operators that are placed. *)

LEMMA PlacedFacts ==
  ASSUME NEW f \in Functions, Validated(f), NEW p, NEW v, NEW st, Placed(f, p, v, st)
  PROVE  /\ f.code \in Seq(Operators) /\ Len(f.code) \in Nat \ {0}
         /\ p \in 1 .. Len(f.code) /\ p - 1 \in 0 .. Len(f.code) /\ p \in 0 .. Len(f.code)
         /\ f.code[p].op \in OpNames /\ f.code[p].n \in Nat /\ f.code[p].ts \in Seq(Nat)
         /\ f.code[p].op # "end" => p \in 1 .. Len(f.code) - 1
         /\ OperatorFits(f.code, f.results, p, Validation(f.code)[p - 1])
         /\ v \in Seq({0, 1}) /\ Len(v) \in Nat
         /\ Before(f.code[p], Validation(f.code)[p - 1]) = Len(v) /\ Len(v) # Dead
         /\ Validation(f.code)[p] = ValidStep(f.code[p], p, Validation(f.code)[p - 1])
         /\ st \in Seq(Ctrls) /\ Len(st) \in Nat /\ Len(st) = Len(Open(f.code, p - 1))
         /\ \A k \in 1 .. Len(st) :
              /\ st[k] = Frame(f, Open(f.code, p - 1)[k])
              /\ Open(f.code, p - 1)[k].h \in Nat
<1>1. f.code \in Seq(Operators) /\ Len(f.code) \in Nat \ {0}
      /\ f.code[Len(f.code)].op = "end"
  BY Body
<1>2. p \in 1 .. Len(f.code)
  BY DEF Placed
<1>3. p - 1 \in 0 .. Len(f.code) /\ p \in 0 .. Len(f.code)
      /\ f.code[p].op # "end" => p \in 1 .. Len(f.code) - 1
  BY <1>1, <1>2
<1>4. f.code[p].op \in OpNames /\ f.code[p].n \in Nat /\ f.code[p].ts \in Seq(Nat)
  BY <1>1, <1>2, OperatorType
<1>5. OperatorFits(f.code, f.results, p, Validation(f.code)[p - 1])
  BY <1>2, Body
<1>6. v \in Seq({0, 1}) /\ Len(v) \in Nat
  BY DEF Placed
<1>7. Before(f.code[p], Validation(f.code)[p - 1]) = Len(v) /\ Len(v) # Dead
  BY <1>6 DEF Placed, Dead
<1>8. Validation(f.code)[p] = ValidStep(f.code[p], p, Validation(f.code)[p - 1])
  BY <1>1, <1>2, ValidUnfolds
<1>9. /\ st \in Seq(Ctrls) /\ Len(st) = Len(Open(f.code, p - 1))
      /\ \A k \in 1 .. Len(st) : st[k] = Frame(f, Open(f.code, p - 1)[k])
  BY DEF Placed, Framed
<1>10. Len(st) \in Nat
  BY <1>9
<1>11. ASSUME NEW k \in 1 .. Len(st)  PROVE Open(f.code, p - 1)[k].h \in Nat
  <2>1. st[k] \in Ctrls /\ st[k] = Frame(f, Open(f.code, p - 1)[k])
    BY <1>9, ElementOfSeq
  <2> QED BY <2>1 DEF Frame, Ctrls
<1> QED BY <1>1, <1>2, <1>3, <1>4, <1>5, <1>6, <1>7, <1>8, <1>9, <1>10, <1>11

LEMMA Leaves ==
  ASSUME NEW f \in Functions, Validated(f), NEW p, NEW v, NEW st, Placed(f, p, v, st),
         f.code[p].op # "else"
  PROVE  Validation(f.code)[p].h = After(f.code[p], Len(v))
<1>1. PICK s : s = Validation(f.code)[p - 1]
  OBVIOUS
<1>2. Validation(f.code)[p] = ValidStep(f.code[p], p, s) /\ Before(f.code[p], s) = Len(v)
  BY <1>1, PlacedFacts
<1> QED BY <1>2 DEF ValidStep

(* Plain operators, and branches that are not taken.                       *)
LEMMA FallThrough ==
  ASSUME NEW f \in Functions, Validated(f), NEW p, NEW v, NEW st, Placed(f, p, v, st),
         f.code[p].op \in {"br_if", "push", "drop"} \cup Dividers \cup Accesses,
         NEW w \in Seq({0, 1}), Len(w) = After(f.code[p], Len(v))
  PROVE  Placed(f, p + 1, w, st)
<1>1. p \in 1 .. Len(f.code) - 1
  BY PlacedFacts DEF Dividers, Accesses
<1>2. f.code[p].op \notin Openers \cup {"end", "else"}
  BY DEF Openers, Dividers, Accesses
<1>3. Open(f.code, p) = Open(f.code, p - 1)
  BY <1>2, PlacedFacts, OpenStep
<1>4. Framed(f, st, p)
  BY <1>3 DEF Placed, Framed
<1>5. Validation(f.code)[p].h = Len(w)
  BY <1>2, Leaves
<1> QED BY <1>1, <1>4, <1>5, Lands

(* The frame that an opener pushes.                                        *)
LEMMA Pushes ==
  ASSUME NEW f \in Functions, Validated(f), NEW p, NEW v, NEW st, Placed(f, p, v, st),
         f.code[p].op \in Openers, NEW w \in Seq({0, 1}), Len(w) = After(f.code[p], Len(v)),
         NEW c, c = Frame(f, Block(p, Len(w), f.code[p].n))
  PROVE  Framed(f, Append(st, c), p) /\ Validation(f.code)[p].h = Len(w)
<1>1. PICK old, new : old = Open(f.code, p - 1) /\ new = Open(f.code, p)
  OBVIOUS
<1>2. /\ Len(new) = Len(old) + 1
      /\ new[Len(new)] = Block(p, Len(w), f.code[p].n)
      /\ \A k \in 1 .. Len(old) : new[k] = old[k]
  <2>1. Opens(f.code, p)
    BY PlacedFacts, OpenStep
  <2>2. Before(f.code[p], Validation(f.code)[p - 1]) = Len(v)
    BY PlacedFacts
  <2> QED BY <1>1, <2>1, <2>2 DEF Opens
<1>3. st \in Seq(Ctrls) /\ Len(st) \in Nat /\ Len(st) = Len(old)
      /\ \A k \in 1 .. Len(st) : st[k] = Frame(f, old[k])
  BY <1>1, PlacedFacts
<1>4. c \in Ctrls
  <2>1. Len(new) \in 1 .. Len(new)
    BY <1>2, <1>3
  <2>2. new[Len(new)].h \in Nat
    BY <1>2 DEF Block
  <2>3. Frame(f, new[Len(new)]) \in Ctrls
    BY <1>1, <2>1, <2>2, PlacedFacts, FrameType
  <2> QED BY <1>2, <2>3
<1>5. /\ Append(st, c) \in Seq(Ctrls) /\ Len(Append(st, c)) = Len(st) + 1
      /\ Append(st, c)[Len(st) + 1] = c
      /\ \A k \in 1 .. Len(st) : Append(st, c)[k] = st[k]
  BY <1>3, <1>4, AppendProperties
<1>6. ASSUME NEW k \in 1 .. Len(Append(st, c))
      PROVE  Append(st, c)[k] = Frame(f, new[k])
  <2>1. k = Len(st) + 1 \/ k \in 1 .. Len(st)
    BY <1>3, <1>5
  <2> QED BY <1>2, <1>3, <1>5, <2>1
<1>7. Framed(f, Append(st, c), p)
  BY <1>1, <1>2, <1>3, <1>5, <1>6 DEF Framed
<1>8. Validation(f.code)[p].h = Len(w)
  BY Leaves DEF Openers
<1> QED BY <1>7, <1>8

LEMMA EntersBlock ==
  ASSUME NEW f \in Functions, Validated(f), NEW p, NEW v, NEW st, Placed(f, p, v, st),
         f.code[p].op \in Openers, NEW w \in Seq({0, 1}), Len(w) = After(f.code[p], Len(v)),
         NEW c, c = Frame(f, Block(p, Len(w), f.code[p].n))
  PROVE  Placed(f, p + 1, w, Append(st, c))
<1>1. p \in 1 .. Len(f.code) - 1
  BY PlacedFacts DEF Openers
<1>2. Framed(f, Append(st, c), p) /\ Validation(f.code)[p].h = Len(w)
  BY Pushes
<1> QED BY <1>1, <1>2, Lands

(* A false condition: behind the else of the if.                           *)
LEMMA EntersElse ==
  ASSUME NEW f \in Functions, Validated(f), NEW p, NEW v, NEW st, Placed(f, p, v, st),
         f.code[p].op \in Openers, NEW w \in Seq({0, 1}), Len(w) = After(f.code[p], Len(v)),
         NEW c, c = Frame(f, Block(p, Len(w), f.code[p].n)),
         NEW e \in 1 .. Len(f.code), Belongs(f.code, e, "else", p)
  PROVE  Placed(f, e + 1, w, Append(st, c))
<1>1. f.code \in Seq(Operators) /\ Len(f.code) \in Nat /\ f.code[Len(f.code)].op = "end"
  BY Body
<1>2. f.code[e].op = "else" /\ Open(f.code, e - 1) = Open(f.code, p)
      /\ Open(f.code, e - 1) # <<>>
  BY <1>1, BelongsTo DEF Belongs
<1>3. e \in 1 .. Len(f.code) - 1
  BY <1>1, <1>2
<1>4. Framed(f, Append(st, c), p)
  BY Pushes
<1>5. Open(f.code, e) = Open(f.code, e - 1)
  BY <1>1, <1>2, OpenStep DEF Openers
<1>6. Framed(f, Append(st, c), e)
  BY <1>2, <1>4, <1>5 DEF Framed
<1>7. Validation(f.code)[e].h = Len(w)
  <2>1. Validation(f.code)[e] = ValidStep(f.code[e], e, Validation(f.code)[e - 1])
    BY <1>1, ValidUnfolds
  <2>2. Validation(f.code)[e].h = Top(Open(f.code, p)).h
    BY <1>2, <2>1 DEF ValidStep, Open
  <2>3. Opens(f.code, p) /\ Before(f.code[p], Validation(f.code)[p - 1]) = Len(v)
    BY PlacedFacts, OpenStep
  <2>4. Top(Open(f.code, p)) = Block(p, Len(w), f.code[p].n)
    BY <2>3 DEF Opens, Top
  <2> QED BY <2>2, <2>4 DEF Block
<1> QED BY <1>3, <1>6, <1>7, Lands

(* The end of a then-branch: to the end of the if.                         *)
LEMMA ElseJumps ==
  ASSUME NEW f \in Functions, Validated(f), NEW p, NEW v, NEW st, Placed(f, p, v, st),
         f.code[p].op = "else"
  PROVE  st # <<>> /\ Placed(f, Top(st).end, v, st)
<1>1. PICK code, s, open : /\ code = f.code /\ s = Validation(code)[p - 1]
                           /\ open = Open(code, p - 1)
  OBVIOUS
<1>2. /\ code \in Seq(Operators) /\ p - 1 \in 0 .. Len(code) /\ Len(code) \in Nat
      /\ v \in Seq({0, 1}) /\ Before(code[p], s) = Len(v) /\ Len(v) # Dead
      /\ OperatorFits(code, f.results, p, s)
      /\ Len(st) \in Nat /\ Len(st) = Len(open)
      /\ \A k \in 1 .. Len(st) : st[k] = Frame(f, open[k]) /\ open[k].h \in Nat
  BY <1>1, PlacedFacts
<1>3. s.open = open /\ open # <<>> /\ ResultsThere(s) /\ s.h = Len(v)
  <2>1. s.open = open
    BY <1>1 DEF Open
  <2> QED BY <1>1, <1>2, <2>1 DEF OperatorFits, Before
<1>4. PICK b, o : b = Top(open) /\ o = b.at
  OBVIOUS
<1>5. Len(open) \in 1 .. Len(st) /\ b = open[Len(open)]
  <2>1. open \in Seq(Blocks)
    BY <1>1, <1>2, OpenType
  <2>2. Len(open) # 0
    BY <1>3, <2>1, EmptySeq
  <2> QED BY <1>2, <1>4, <2>2 DEF Top
<1>6. b.h \in Nat /\ b.n \in {0, 1} /\ Top(st) = Frame(f, b) /\ st # <<>>
  <2>1. b.n \in {0, 1}
    BY <1>1, <1>2, <1>5, BlockIs
  <2>2. Top(st) = Frame(f, b) /\ b.h \in Nat
    BY <1>2, <1>5 DEF Top
  <2>3. st # <<>>
    BY <1>5
  <2> QED BY <2>1, <2>2, <2>3
<1>7. b.h + b.n = Len(v)
  BY <1>2, <1>3, <1>4 DEF ResultsThere
<1>8. PICK e : e = EndAt(f, o)
  OBVIOUS
<1>9. o \in 1 .. Len(code) /\ code[o].op \in Openers /\ open = Open(code, o)
  <2>1. /\ o \in 1 .. p - 1 /\ code[o].op \in Openers /\ open = Open(code, o)
    BY <1>1, <1>2, <1>3, <1>4, TopIs
  <2> QED BY <1>2, <2>1
<1>10. e \in 1 .. Len(code) /\ Belongs(code, e, "end", o)
  BY <1>1, <1>8, <1>9, EndAtIs
<1>11. Open(code, e - 1) = open /\ code[e].op = "end"
  BY <1>2, <1>9, <1>10, BelongsTo DEF Belongs
<1>12. Framed(f, st, e - 1)
  BY <1>1, <1>11 DEF Placed, Framed
<1>13. Before(code[e], Validation(code)[e - 1]) = Len(v)
  <2>1. Validation(code)[e - 1].open = open
    BY <1>11 DEF Open
  <2> QED BY <1>3, <1>4, <1>6, <1>7, <1>11, <2>1 DEF Before, Dead
<1>14. Top(st).end = e
  BY <1>4, <1>6, <1>8 DEF Frame
<1> QED BY <1>1, <1>2, <1>6, <1>10, <1>12, <1>13, <1>14 DEF Placed

(* An end closes the innermost block, ...                                  *)
LEMMA ClosesBlock ==
  ASSUME NEW f \in Functions, Validated(f), NEW p, NEW v, NEW st, Placed(f, p, v, st),
         f.code[p].op = "end", st # <<>>
  PROVE  Placed(f, p + 1, v, Pop(st))
<1>1. PICK code, old, new : /\ code = f.code
                            /\ old = Open(code, p - 1) /\ new = Open(code, p)
  OBVIOUS
<1>2. /\ code \in Seq(Operators) /\ p \in 1 .. Len(code) /\ p - 1 \in 0 .. Len(code)
      /\ Len(code) \in Nat /\ v \in Seq({0, 1}) /\ Len(v) # Dead
      /\ OperatorFits(code, f.results, p, Validation(code)[p - 1])
      /\ st \in Seq(Ctrls) /\ Len(st) \in Nat /\ Len(st) = Len(old)
      /\ \A k \in 1 .. Len(st) : st[k] = Frame(f, old[k])
  BY <1>1, PlacedFacts
<1>3. old # <<>>
  BY <1>2, EmptySeq
<1>4. p \in 1 .. Len(code) - 1
  <2>1. p # Len(code)
    BY <1>1, <1>2, <1>3 DEF OperatorFits, Open
  <2> QED BY <1>2, <2>1
<1>5. Len(new) = Len(old) - 1 /\ \A k \in 1 .. Len(new) : new[k] = old[k]
  BY <1>1, <1>2, <1>3, OpenStep DEF Closes
<1>6. /\ Pop(st) \in Seq(Ctrls) /\ Len(Pop(st)) = Len(st) - 1
      /\ \A k \in 1 .. Len(st) - 1 : Pop(st)[k] = st[k]
  BY <1>2, Stacks
<1>7. ASSUME NEW k \in 1 .. Len(Pop(st))  PROVE Pop(st)[k] = Frame(f, new[k])
  <2>1. k \in 1 .. Len(st) - 1 /\ k \in 1 .. Len(st) /\ k \in 1 .. Len(new)
    BY <1>2, <1>5, <1>6
  <2> QED BY <1>2, <1>5, <1>6, <2>1
<1>8. Framed(f, Pop(st), p)
  BY <1>1, <1>2, <1>5, <1>6, <1>7 DEF Framed
<1>9. Validation(code)[p].h = Len(v)
  <2>1. Validation(code)[p].h = After(code[p], Len(v))
    BY <1>1, Leaves
  <2> QED BY <1>1, <1>2, <2>1 DEF After, Dividers
<1> QED BY <1>1, <1>2, <1>4, <1>8, <1>9, Lands

(* ... and the last one leaves the function with its results.              *)
LEMMA LastEnd ==
  ASSUME NEW f \in Functions, Validated(f), NEW p, NEW v, Placed(f, p, v, <<>>),
         f.code[p].op = "end"
  PROVE  p = Len(f.code) /\ Len(v) = f.results
<1>1. PICK s : s = Validation(f.code)[p - 1]
  OBVIOUS
<1>2. /\ OperatorFits(f.code, f.results, p, s) /\ p - 1 \in 0 .. Len(f.code)
      /\ Before(f.code[p], s) = Len(v) /\ Len(v) # Dead
      /\ Len(<<>>) = Len(Open(f.code, p - 1)) /\ f.code \in Seq(Operators)
  BY <1>1, PlacedFacts
<1>3. s.open = <<>>
  <2>1. Open(f.code, p - 1) \in Seq(Blocks)
    BY <1>2, OpenType
  <2>2. Open(f.code, p - 1) = <<>>
    BY <1>2, <2>1, EmptySeq
  <2> QED BY <1>1, <2>2 DEF Open
<1> QED BY <1>2, <1>3 DEF OperatorFits

(* Closing blocks to reach operator j, where the first k are open.         *)
LEMMA Prefix ==
  ASSUME NEW f, NEW st, NEW i, Framed(f, st, i), NEW k \in 0 .. Len(st), NEW j,
         Len(Open(f.code, j)) = k,
         \A m \in 1 .. k : Open(f.code, j)[m] = Open(f.code, i)[m]
  PROVE  Framed(f, SubSeq(st, 1, k), j)
<1>1. st \in Seq(Ctrls) /\ \A m \in 1 .. Len(st) : st[m] = Frame(f, Open(f.code, i)[m])
  BY DEF Framed
<1>2. k \in Nat /\ \A m \in 1 .. k : m \in 1 .. Len(st) /\ st[m] \in Ctrls
  BY <1>1, ElementOfSeq
<1>3. /\ SubSeq(st, 1, k) \in Seq(Ctrls)
      /\ Len(SubSeq(st, 1, k)) = IF 1 <= k THEN k - 1 + 1 ELSE 0
      /\ \A m \in 1 .. k - 1 + 1 : SubSeq(st, 1, k)[m] = st[1 + m - 1]
  BY <1>2, SubSeqProperties
<1>4. Len(SubSeq(st, 1, k)) = k
  BY <1>2, <1>3
<1>5. ASSUME NEW m \in 1 .. k  PROVE SubSeq(st, 1, k)[m] = Frame(f, Open(f.code, j)[m])
  <2>1. m \in 1 .. k - 1 + 1 /\ 1 + m - 1 = m
    BY <1>2
  <2> QED BY <1>1, <1>2, <1>3, <2>1
<1> QED BY <1>3, <1>4, <1>5 DEF Framed

LEMMA FrameIs ==
  ASSUME NEW f, NEW b
  PROVE  /\ Frame(f, b).height = b.h /\ Frame(f, b).end = EndAt(f, b.at)
         /\ Frame(f, b).loop => Frame(f, b).cont = b.at + 1 /\ Frame(f, b).arity = 0
         /\ ~Frame(f, b).loop =>
              Frame(f, b).cont = EndAt(f, b.at) + 1 /\ Frame(f, b).arity = b.n
<1>1. Frame(f, b).loop = (f.code[b.at].op = "loop")
  BY DEF Frame
<1>2. /\ Frame(f, b).height = b.h /\ Frame(f, b).end = EndAt(f, b.at)
      /\ f.code[b.at].op = "loop" => Frame(f, b).cont = b.at + 1 /\ Frame(f, b).arity = 0
      /\ f.code[b.at].op # "loop" =>
           Frame(f, b).cont = EndAt(f, b.at) + 1 /\ Frame(f, b).arity = b.n
  BY DEF Frame
<1> QED BY <1>1, <1>2

(* A branch to a loop goes on behind its opener, one to another block      *)
(* behind its end: validation has the height of the label there, too.      *)
LEMMA ToLoop ==
  ASSUME NEW f \in Functions, Validated(f), NEW p, NEW v, NEW st, Placed(f, p, v, st),
         NEW k \in 1 .. Len(st), st[k].loop,
         NEW w \in Seq({0, 1}), Len(w) = st[k].height
  PROVE  Placed(f, st[k].cont, w, SubSeq(st, 1, k))
<1>1. PICK code, b, o : code = f.code /\ b = Open(code, p - 1)[k] /\ o = b.at
  OBVIOUS
<1>2. /\ p - 1 \in 0 .. Len(code) /\ Len(st) = Len(Open(code, p - 1)) /\ Len(st) \in Nat
      /\ st[k] = Frame(f, b) /\ Framed(f, st, p - 1) /\ Len(code) \in Nat \ {0}
      /\ code[Len(code)].op = "end"
  <2>1. Framed(f, st, p - 1)
    BY DEF Placed
  <2>2. code[Len(code)].op = "end"
    BY <1>1, Body
  <2> QED BY <1>1, <2>1, <2>2, PlacedFacts
<1>3. /\ o \in 1 .. p - 1 /\ o <= Len(code) /\ code[o].op \in Openers
      /\ Validation(code)[o].h = b.h
      /\ Len(Open(code, o)) = k
      /\ \A m \in 1 .. k : Open(code, o)[m] = Open(code, p - 1)[m]
  <2>1. /\ o \in 1 .. p - 1 /\ o <= Len(code) /\ code[o].op \in Openers
        /\ Len(Open(code, o)) = k
        /\ \A m \in 1 .. k : Open(code, o)[m] = Open(code, p - 1)[m]
    BY <1>1, <1>2, BlockIs
  <2>2. Validation(code)[o].h = b.h
    BY <1>1, <1>2, BlockIs
  <2> QED BY <2>1, <2>2
<1>4. st[k].cont = o + 1 /\ st[k].height = b.h
  BY <1>1, <1>2, FrameIs
<1>5. k \in 0 .. Len(st)
  BY <1>2
<1>6. Framed(f, SubSeq(st, 1, k), o)
  BY <1>1, <1>2, <1>3, <1>5, Prefix
<1>7. o \in 1 .. Len(code) - 1
  BY <1>2, <1>3 DEF Openers
<1> QED BY <1>1, <1>3, <1>4, <1>6, <1>7, Lands

LEMMA ToBlock ==
  ASSUME NEW f \in Functions, Validated(f), NEW p, NEW v, NEW st, Placed(f, p, v, st),
         NEW k \in 1 .. Len(st), ~st[k].loop,
         NEW w \in Seq({0, 1}), Len(w) = st[k].height + st[k].arity
  PROVE  Placed(f, st[k].cont, w, SubSeq(st, 1, k - 1))
<1>1. PICK code, b, o, e : /\ code = f.code /\ b = Open(code, p - 1)[k]
                           /\ o = b.at /\ e = EndAt(f, o)
  OBVIOUS
<1>2. /\ p - 1 \in 0 .. Len(code) /\ Len(st) = Len(Open(code, p - 1)) /\ Len(st) \in Nat
      /\ st[k] = Frame(f, b) /\ Framed(f, st, p - 1) /\ Len(code) \in Nat \ {0}
      /\ b.h \in Nat /\ code \in Seq(Operators)
  <2>1. Framed(f, st, p - 1)
    BY DEF Placed
  <2> QED BY <1>1, <2>1, PlacedFacts
<1>3. /\ o \in 1 .. Len(code) /\ code[o].op \in Openers /\ b.n \in {0, 1}
      /\ Len(Open(code, o)) = k
      /\ \A m \in 1 .. k : Open(code, o)[m] = Open(code, p - 1)[m]
  <2>1. /\ o \in 1 .. p - 1 /\ o <= Len(code) /\ code[o].op \in Openers /\ b.n \in {0, 1}
        /\ Len(Open(code, o)) = k
        /\ \A m \in 1 .. k : Open(code, o)[m] = Open(code, p - 1)[m]
    BY <1>1, <1>2, BlockIs
  <2> QED BY <1>2, <2>1
<1>4. st[k].cont = e + 1 /\ st[k].height = b.h /\ st[k].arity = b.n
  BY <1>1, <1>2, FrameIs
<1>5. e \in 1 .. Len(code) - 1 /\ e \in 1 .. Len(code) /\ Belongs(code, e, "end", o)
  <2>1. e \in o + 1 .. Len(code) - 1 /\ Belongs(code, e, "end", o)
    BY <1>1, <1>3, EndAtIs
  <2> QED BY <1>2, <1>3, <2>1
<1>6. /\ Open(code, e - 1) = Open(code, o) /\ Open(code, e - 1) # <<>>
      /\ Top(Open(code, e - 1)) = b /\ code[e].op = "end"
  <2>1. Open(code, e - 1) = Open(code, o) /\ Open(code, e - 1) # <<>> /\ code[e].op = "end"
    BY <1>2, <1>5, BelongsTo DEF Belongs
  <2>2. Top(Open(code, o)) = b
    BY <1>1, <1>3 DEF Top
  <2> QED BY <2>1, <2>2
<1>7. Closes(code, e)
  BY <1>2, <1>5, <1>6, OpenStep
<1>8. k - 1 \in 0 .. Len(st) /\ k \in Nat /\ \A m \in 1 .. k - 1 : m \in 1 .. k
  BY <1>2
<1>9. Len(Open(code, e)) = k - 1
      /\ \A m \in 1 .. k - 1 : Open(code, e)[m] = Open(code, p - 1)[m]
  BY <1>3, <1>6, <1>7, <1>8 DEF Closes
<1>10. Framed(f, SubSeq(st, 1, k - 1), e)
  BY <1>1, <1>2, <1>8, <1>9, Prefix
<1>11. Validation(code)[e].h = b.h + b.n
  <2>1. PICK s : s = Validation(code)[e - 1]
    OBVIOUS
  <2>2. Validation(code)[e] = ValidStep(code[e], e, s)
    BY <1>2, <1>5, <2>1, ValidUnfolds
  <2>3. s.open # <<>> /\ Top(s.open) = b
    BY <1>6, <2>1 DEF Open
  <2>4. Before(code[e], s) = b.h + b.n
    BY <1>2, <1>6, <2>3 DEF Before, Dead
  <2>5. After(code[e], b.h + b.n) = b.h + b.n
    BY <1>6 DEF After, Dividers
  <2> QED BY <1>6, <2>2, <2>4, <2>5 DEF ValidStep
<1> QED BY <1>1, <1>4, <1>5, <1>10, <1>11, Lands

(* Validation has the values of a label on the stack, above its height.    *)
LEMMA Carries ==
  ASSUME NEW f \in Functions, Validated(f), NEW p, NEW v, NEW st, Placed(f, p, v, st),
         NEW h, LabelsFit(f.code, Validation(f.code)[p - 1], f.code[p], h),
         NEW d \in Labels(f.code[p])
  PROVE  /\ d \in Nat /\ d <= Len(st)
         /\ d < Len(st) => h >= st[Len(st) - d].height + st[Len(st) - d].arity
<1>1. PICK open : open = Open(f.code, p - 1)
  OBVIOUS
<1>2. d \in Nat
  <2>1. f.code[p].n \in Nat /\ f.code[p].ts \in Seq(Nat)
    BY PlacedFacts
  <2>2. \A k \in DOMAIN f.code[p].ts : f.code[p].ts[k] \in Nat
    BY <2>1
  <2> QED BY <2>1, <2>2 DEF Labels
<1>3. Len(st) = Len(open) /\ Len(st) \in Nat
      /\ \A k \in 1 .. Len(st) : st[k] = Frame(f, open[k])
  BY <1>1, PlacedFacts
<1>4. /\ d <= Len(open)
      /\ d < Len(open) =>
           h >= open[Len(open) - d].h
                + (IF f.code[open[Len(open) - d].at].op = "loop" THEN 0 ELSE open[Len(open) - d].n)
  BY <1>1 DEF LabelsFit, Open
<1>5. ASSUME d < Len(st)
      PROVE  h >= st[Len(st) - d].height + st[Len(st) - d].arity
  <2>1. Len(st) - d \in 1 .. Len(st)
    BY <1>2, <1>3, <1>5
  <2>2. st[Len(st) - d] = Frame(f, open[Len(open) - d])
    BY <1>3, <2>1
  <2> QED BY <1>3, <1>4, <1>5, <2>2 DEF Frame
<1> QED BY <1>2, <1>3, <1>4, <1>5

----------------------------------------------------------------------------
(* The invariant: a body that runs is placed as validation has foreseen    *)
(* it, and one that has stopped has done so for one of the allowed causes. *)

(* The bodies meant: the probe host has instantiated, hence validated, the *)
(* module before it is lifted; ifs without an else are what the            *)
(* interpreter takes otherwise than wasm.                                  *)
Wasm == \A f \in Functions : Validated(f) /\ NoBareIf(f)

Outward == Len(Open(Code, pc - 1)) \in Labels(Code[pc])

IInv ==
  /\ TypeOK /\ pc \in 1 .. Len(Code)
  /\ ends = Scan(Code).ends /\ elses = Scan(Code).elses
  /\ status = "running" => Placed(fn, pc, vs, cs)
  /\ OnlyHonestTraps
  /\ status = "panic" /\ Code[pc].op \in Branchers => Outward

LEMMA Ready ==
  ASSUME Wasm, IInv, status = "running"
  PROVE  /\ fn \in Functions /\ Validated(fn) /\ NoBareIf(fn)
         /\ Placed(fn, pc, vs, cs) /\ pc \in 1 .. Len(fn.code)
         /\ vs \in Seq({0, 1}) /\ Len(vs) \in Nat
         /\ steps \in 0 .. MaxSteps /\ MaxSteps \in Nat
         /\ ends = Scan(fn.code).ends /\ elses = Scan(fn.code).elses
BY StepsAssumption DEF Wasm, IInv, TypeOK, Code

LEMMA Continues ==
  ASSUME IInv, status = "running", UNCHANGED <<fn, ends, elses, status>>,
         steps' \in 0 .. MaxSteps, Placed(fn, pc', vs', cs')
  PROVE  IInv'
<1>1. pc' \in 1 .. Len(fn.code) /\ vs' \in Seq({0, 1}) /\ cs' \in Seq(Ctrls)
  BY DEF Placed, Framed
<1>2. Len(fn.code) \in Nat
  BY FunctionsAssumption DEF IInv, TypeOK
<1>3. TypeOK' /\ pc' \in 1 .. Len(Code')
  BY <1>1, <1>2 DEF IInv, TypeOK, Code
<1>4. OnlyHonestTraps'
  BY DEF OnlyHonestTraps
<1> QED BY <1>3, <1>4 DEF IInv, Code

LEMMA Halts ==
  ASSUME IInv, UNCHANGED <<fn, ends, elses, pc, cs>>,
         steps' \in 0 .. MaxSteps, vs' \in Seq({0, 1}),
         \/ status' = "returned"
         \/ status' = "trap" /\ (steps' = MaxSteps \/ (GuestTraps /\ vs' = vs))
         \/ status' = "panic" /\ (Code[pc].op \in Branchers => Outward)
  PROVE  IInv'
<1>1. TypeOK' /\ pc' \in 1 .. Len(Code')
  BY DEF IInv, TypeOK, Code
<1>2. OnlyHonestTraps'
  BY DEF OnlyHonestTraps, GuestTraps, Code
<1>3. status' = "panic" /\ Code'[pc'].op \in Branchers => Outward'
  BY DEF Outward, Code
<1> QED BY <1>1, <1>2, <1>3 DEF IInv, Code

LEMMA Counted ==
  ASSUME IInv, NEW o, Fetch(o)
  PROVE  /\ status = "running" /\ Code[pc].op = o /\ steps' \in 0 .. MaxSteps
         /\ UNCHANGED <<fn, ends, elses>>
BY StepsAssumption DEF IInv, TypeOK, Fetch

(* What the maps of block_structure answer for an operator that runs.      *)
LEMMA EndOfIs ==
  ASSUME Wasm, IInv, NEW o \in 1 .. Len(fn.code), fn.code[o].op \in Openers
  PROVE  EndOf(o) = EndAt(fn, o)
<1>1. fn \in Functions /\ Validated(fn) /\ ends = Scan(fn.code).ends
  BY DEF Wasm, IInv, TypeOK, Code
<1>2. PICK e : e = EndAt(fn, o)
  OBVIOUS
<1>3. e \in o + 1 .. Len(fn.code) - 1 /\ Belongs(fn.code, e, "end", o)
  BY <1>1, <1>2, EndAtIs
<1>4. fn.code \in Seq(Operators) /\ Len(fn.code) \in Nat
  BY <1>1, Body
<1>5. e \in 1 .. Len(fn.code) /\ o \in Nat /\ e \in Nat
  BY <1>3, <1>4
<1>6. Relates(ends, fn.code, Len(fn.code), "end")
  BY <1>1, ScanExact
<1>7. <<o, e>> \in ends
  BY <1>3, <1>5, <1>6 DEF Relates
<1>8. ASSUME NEW p \in ends, p[1] = o  PROVE p[2] = e
  <2>1. PICK q, j \in Nat : p = <<q, j>>
    BY <1>6 DEF Relates
  <2>2. j \in 1 .. Len(fn.code) /\ Belongs(fn.code, j, "end", o)
    BY <1>6, <1>8, <2>1 DEF Relates
  <2> QED BY <1>3, <1>4, <1>5, <2>1, <2>2, OneEnd
<1> QED BY <1>2, <1>7, <1>8 DEF EndOf

LEMMA CtrlIs ==
  ASSUME Wasm, IInv, status = "running", fn.code[pc].op \in Openers, NEW stack
  PROVE  Ctrl(stack, fn.code[pc].op) = Frame(fn, Block(pc, Len(stack), fn.code[pc].n))
<1>1. EndOf(pc) = EndAt(fn, pc)
  BY Ready, EndOfIs
<1> QED BY <1>1 DEF Ctrl, Frame, Block, Code

LEMMA ElseIs ==
  ASSUME Wasm, IInv, status = "running", fn.code[pc].op = "if",
         NEW other, other = {p[2] : p \in {q \in elses : q[1] = pc}}
  PROVE  /\ other # {}
         /\ \A e \in other : e \in 1 .. Len(fn.code) /\ Belongs(fn.code, e, "else", pc)
<1>1. /\ fn \in Functions /\ Validated(fn) /\ NoBareIf(fn) /\ pc \in 1 .. Len(fn.code)
      /\ elses = Scan(fn.code).elses
  BY Ready
<1>2. Relates(elses, fn.code, Len(fn.code), "else") /\ Len(fn.code) \in Nat
  BY <1>1, ScanExact, Body
<1>3. PICK i \in 1 .. Len(fn.code) : Belongs(fn.code, i, "else", pc)
  BY <1>1 DEF NoBareIf
<1>4. <<pc, i>> \in elses
  <2>1. pc \in Nat /\ i \in Nat
    BY <1>1, <1>3
  <2> QED BY <1>2, <1>3, <2>1 DEF Relates
<1>5. ASSUME NEW e \in other
      PROVE  e \in 1 .. Len(fn.code) /\ Belongs(fn.code, e, "else", pc)
  <2>1. PICK p \in elses : p[1] = pc /\ e = p[2]
    OBVIOUS
  <2>2. PICK q, j \in Nat : p = <<q, j>>
    BY <1>2, <2>1 DEF Relates
  <2> QED BY <1>2, <2>1, <2>2 DEF Relates
<1>6. i \in other
  BY <1>4
<1> QED BY <1>5, <1>6

(* What a branch keeps of the value stack.                                 *)
LEMMA Keeps ==
  ASSUME NEW S, NEW s \in Seq(S), NEW k \in 0 .. Len(s)
  PROVE  /\ Last(s, k) \in Seq(S) /\ Len(Last(s, k)) = k
         /\ SubSeq(s, 1, k) \in Seq(S) /\ Len(SubSeq(s, 1, k)) = k
<1>1. Len(s) \in Nat /\ k \in Nat
  OBVIOUS
<1>2. PICK m \in Nat : m = Len(s)
  BY <1>1
<1>3. \A j \in 1 .. m : s[j] \in S
  BY <1>2, ElementOfSeq
<1>4. /\ SubSeq(s, 1, k) \in Seq(S)
      /\ Len(SubSeq(s, 1, k)) = IF 1 <= k THEN k - 1 + 1 ELSE 0
  <2>1. \A j \in 1 .. k : s[j] \in S
    BY <1>1, <1>2, <1>3
  <2> QED BY <1>1, <2>1, SubSeqProperties
<1>5. PICK l \in Nat : l = m - k + 1 /\ l >= 1
  BY <1>2
<1>6. /\ SubSeq(s, l, m) \in Seq(S)
      /\ Len(SubSeq(s, l, m)) = IF l <= m THEN m - l + 1 ELSE 0
  <2>1. \A j \in l .. m : s[j] \in S
    BY <1>2, <1>3, <1>5
  <2> QED BY <1>2, <1>5, <2>1, SubSeqProperties
<1>7. Last(s, k) = SubSeq(s, l, m)
  BY <1>2, <1>5 DEF Last
<1> QED BY <1>1, <1>2, <1>4, <1>5, <1>6, <1>7

(* A branch keeps results on top of what is below the height of its label. *)
Trimmed(stack, kept, height) ==
  LET keep == IF Len(stack) >= kept THEN Last(stack, kept) ELSE <<>>
      rest == SubSeq(stack, 1, Len(stack) - Len(keep))
      low  == IF height < Len(rest) THEN height ELSE Len(rest)
  IN  SubSeq(rest, 1, low) \o keep

LEMMA TrimmedTo ==
  ASSUME NEW stack \in Seq({0, 1}), NEW kept \in Nat, NEW height \in Nat,
         Len(stack) >= height + kept
  PROVE  /\ Trimmed(stack, kept, height) \in Seq({0, 1})
         /\ Len(Trimmed(stack, kept, height)) = height + kept
<1> DEFINE keep == IF Len(stack) >= kept THEN Last(stack, kept) ELSE <<>>
<1> DEFINE rest == SubSeq(stack, 1, Len(stack) - Len(keep))
<1> DEFINE low  == IF height < Len(rest) THEN height ELSE Len(rest)
<1>1. Len(stack) \in Nat
  OBVIOUS
<1>2. kept \in 0 .. Len(stack) /\ Len(stack) - kept \in 0 .. Len(stack)
  BY <1>1
<1>3. keep \in Seq({0, 1}) /\ Len(keep) = kept
  BY <1>1, <1>2, Keeps
<1>4. rest \in Seq({0, 1}) /\ Len(rest) = Len(stack) - kept
  <2>1. PICK r \in 0 .. Len(stack) : r = Len(stack) - kept
    BY <1>2
  <2>2. rest = SubSeq(stack, 1, r)
    BY <1>3, <2>1
  <2>3. SubSeq(stack, 1, r) \in Seq({0, 1}) /\ Len(SubSeq(stack, 1, r)) = r
    BY Keeps
  <2> QED BY <2>1, <2>2, <2>3
<1>5. low = height /\ low \in 0 .. Len(rest)
  BY <1>1, <1>4
<1>6. SubSeq(rest, 1, low) \in Seq({0, 1}) /\ Len(SubSeq(rest, 1, low)) = height
  BY <1>4, <1>5, Keeps
<1>7. PICK left : left = SubSeq(rest, 1, low)
  OBVIOUS
<1>8. left \o keep \in Seq({0, 1}) /\ Len(left \o keep) = Len(left) + Len(keep)
  BY <1>3, <1>6, <1>7, ConcatProperties
<1> QED BY <1>3, <1>6, <1>7, <1>8 DEF Trimmed

(* A branch goes on where validation wants it, or to no block at all.      *)
LEMMA Branches ==
  ASSUME Wasm, IInv, status = "running", UNCHANGED <<fn, ends, elses>>,
         steps' \in 0 .. MaxSteps,
         Code[pc].op \in {"br", "br_if", "br_table"},
         NEW stack \in Seq({0, 1}),
         LabelsFit(fn.code, Validation(fn.code)[pc - 1], fn.code[pc], Len(stack)),
         NEW d \in Labels(fn.code[pc]), Branch(d, stack)
  PROVE  IInv' /\ status' # "returned"
<1>1. /\ fn \in Functions /\ Validated(fn) /\ Placed(fn, pc, vs, cs)
      /\ Len(cs) \in Nat /\ cs \in Seq(Ctrls) /\ Len(cs) = Len(Open(fn.code, pc - 1))
  BY Ready, PlacedFacts
<1>2. /\ d \in Nat /\ d <= Len(cs)
      /\ d < Len(cs) => Len(stack) >= cs[Len(cs) - d].height + cs[Len(cs) - d].arity
  BY <1>1, Carries
<1>3. CASE d >= Len(cs)
  <2>1. status' = "panic" /\ UNCHANGED <<pc, cs>> /\ vs' = stack
    BY <1>3 DEF Branch, Branching, Stop
  <2>2. d = Len(Open(fn.code, pc - 1))
    BY <1>1, <1>2, <1>3
  <2>3. Outward
    BY <2>2 DEF Outward, Code
  <2>4. IInv'
    BY <2>1, <2>3, Halts
  <2> QED BY <2>1, <2>4
<1>4. CASE ~(d >= Len(cs))
  <2>1. PICK k, t : k = Len(cs) - d /\ t = cs[k]
    OBVIOUS
  <2>2. k \in 1 .. Len(cs) /\ d < Len(cs)
    BY <1>1, <1>2, <1>4, <2>1
  <2>3. t \in Ctrls /\ t.height \in Nat /\ t.arity \in Nat /\ t.loop \in BOOLEAN
    <3>1. t \in Ctrls
      BY <1>1, <2>1, <2>2, ElementOfSeq
    <3> QED BY <3>1 DEF Ctrls
  <2>4. Len(stack) >= t.height + t.arity
    BY <1>2, <2>1, <2>2
  <2>5. /\ vs' = Trimmed(stack, t.arity, t.height)
        /\ cs' = SubSeq(cs, 1, Len(cs) - (IF t.loop THEN d ELSE d + 1))
        /\ pc' = t.cont /\ UNCHANGED status
    BY <1>4, <2>1 DEF Branch, Branching, Target, Goto, Trimmed
  <2>6. vs' \in Seq({0, 1}) /\ Len(vs') = t.height + t.arity
    BY <2>3, <2>4, <2>5, TrimmedTo
  <2>7. UNCHANGED status /\ pc' = t.cont
    BY <2>5
  <2>8. Placed(fn, pc', vs', cs')
    <3>1. CASE t.loop
      <4>1. cs' = SubSeq(cs, 1, k)
        BY <2>1, <2>5, <3>1
      <4>2. t.arity = 0
        <5>1. t = Frame(fn, Open(fn.code, pc - 1)[k])
          BY <1>1, <2>1, <2>2, PlacedFacts
        <5> QED BY <3>1, <5>1, FrameIs
      <4>3. Len(vs') = t.height
        BY <2>3, <2>6, <4>2
      <4> QED BY <1>1, <2>1, <2>2, <2>6, <2>7, <3>1, <4>1, <4>3, ToLoop
    <3>2. CASE ~t.loop
      <4>1. cs' = SubSeq(cs, 1, k - 1)
        <5>1. Len(cs) - (d + 1) = k - 1
          BY <1>1, <1>2, <2>1
        <5> QED BY <2>5, <3>2, <5>1
      <4> QED BY <1>1, <2>1, <2>2, <2>6, <2>7, <3>2, <4>1, ToBlock
    <3> QED BY <3>1, <3>2
  <2>9. IInv'
    BY <2>5, <2>8, Continues
  <2> QED BY <2>5, <2>9
<1> QED BY <1>3, <1>4

(* An operand that validation demands is there.                            *)
LEMMA Operand ==
  ASSUME Wasm, IInv, status = "running",
         fn.code[pc].op \in {"if", "br_if", "br_table", "drop", "load"}
  PROVE  /\ vs # <<>> /\ Top(vs) \in {0, 1}
         /\ Pop(vs) \in Seq({0, 1}) /\ Len(Pop(vs)) = Len(vs) - 1
<1>1. /\ OperatorFits(fn.code, fn.results, pc, Validation(fn.code)[pc - 1])
      /\ Before(fn.code[pc], Validation(fn.code)[pc - 1]) = Len(vs)
      /\ vs \in Seq({0, 1})
  BY Ready, PlacedFacts
<1>2. Len(vs) # 0
  BY <1>1 DEF OperatorFits
<1>3. vs # <<>>
  BY <1>2
<1> QED BY <1>1, <1>3, Stacks

LEMMA TwoOperands ==
  ASSUME Wasm, IInv, status = "running", fn.code[pc].op \in Dividers \cup {"store"}
  PROVE  /\ Len(vs) >= 2 /\ vs \in Seq({0, 1}) /\ Len(vs) \in Nat
         /\ Top(Pop(vs)) \in {0, 1}
         /\ Below(2) \in Seq({0, 1}) /\ Len(Below(2)) = Len(vs) - 2
<1>1. /\ OperatorFits(fn.code, fn.results, pc, Validation(fn.code)[pc - 1])
      /\ Before(fn.code[pc], Validation(fn.code)[pc - 1]) = Len(vs)
      /\ vs \in Seq({0, 1}) /\ Len(vs) \in Nat
  BY Ready, PlacedFacts
<1>2. Len(vs) \notin {0, 1}
  BY <1>1 DEF OperatorFits
<1>3. PICK w : w = Pop(vs)
  OBVIOUS
<1>4. w \in Seq({0, 1}) /\ Len(w) = Len(vs) - 1
  BY <1>1, <1>2, <1>3, Stacks
<1>5. Top(w) \in {0, 1} /\ Pop(w) \in Seq({0, 1}) /\ Len(Pop(w)) = Len(w) - 1
  <2>1. w # <<>>
    BY <1>1, <1>2, <1>4
  <2> QED BY <1>4, <2>1, Stacks
<1> QED BY <1>1, <1>2, <1>3, <1>4, <1>5 DEF Below

----------------------------------------------------------------------------
(* Every operator keeps the invariant. *)

(* What a step does: the invariant stays, and the function is left by a    *)
(* return operator or its last end.                                        *)
Sound == IInv' /\ (status' = "returned" => Code[pc].op = "return" \/ pc = Len(Code))

LEMMA BlockOrLoopSound ==
  ASSUME Wasm, IInv, BlockOrLoop  PROVE Sound
<1>1. PICK k \in {"block", "loop"} : Fetch(k) /\ cs' = Append(cs, Ctrl(vs, k))
  BY DEF BlockOrLoop
<1>2. status = "running" /\ fn.code[pc].op = k /\ steps' \in 0 .. MaxSteps
      /\ UNCHANGED <<fn, ends, elses>>
  BY <1>1, Counted DEF Code
<1>3. pc' = pc + 1 /\ UNCHANGED status /\ vs' = vs
  BY DEF BlockOrLoop, Goto
<1>4. PICK c : c = Frame(fn, Block(pc, Len(vs), fn.code[pc].n))
  OBVIOUS
<1>5. cs' = Append(cs, c)
  BY <1>1, <1>2, <1>4, CtrlIs DEF Openers
<1>6. /\ fn \in Functions /\ Validated(fn) /\ Placed(fn, pc, vs, cs)
      /\ vs \in Seq({0, 1}) /\ Len(vs) \in Nat
  BY <1>2, Ready
<1>7. Len(vs) = After(fn.code[pc], Len(vs))
  BY <1>2, <1>6 DEF After, Dividers, Dead
<1>8. Placed(fn, pc + 1, vs, Append(cs, c))
  BY <1>2, <1>4, <1>6, <1>7, EntersBlock DEF Openers
<1> QED BY <1>2, <1>3, <1>5, <1>8, Continues DEF Sound

LEMMA IfSound ==
  ASSUME Wasm, IInv, If  PROVE Sound
<1>1. status = "running" /\ fn.code[pc].op = "if" /\ steps' \in 0 .. MaxSteps
      /\ UNCHANGED <<fn, ends, elses>>
  BY Counted DEF If, Code
<1>2. PICK w : w = Pop(vs)
  OBVIOUS
<1>3. vs # <<>> /\ w \in Seq({0, 1}) /\ Len(w) = Len(vs) - 1 /\ Len(vs) \in Nat
  BY <1>1, <1>2, Operand, Ready
<1>4. EnterIf(Top(vs), w)
  BY <1>2, <1>3 DEF If, Underflow
<1>5. PICK other : other = {p[2] : p \in {q \in elses : q[1] = pc}}
  OBVIOUS
<1>6. /\ other # {}
      /\ \A e \in other : e \in 1 .. Len(fn.code) /\ Belongs(fn.code, e, "else", pc)
  BY <1>1, <1>5, ElseIs
<1>7. PICK e : e = CHOOSE x \in other : TRUE
  OBVIOUS
<1>8. e \in other
  BY <1>6, <1>7
<1>9. /\ vs' = w /\ cs' = Append(cs, Ctrl(w, "if")) /\ UNCHANGED status
      /\ pc' = (IF Top(vs) = 0 THEN e ELSE pc) + 1
  BY <1>4, <1>5, <1>6, <1>7 DEF EnterIf, Goto
<1>10. PICK c : c = Frame(fn, Block(pc, Len(w), fn.code[pc].n))
  OBVIOUS
<1>11. Ctrl(w, "if") = c
  BY <1>1, <1>10, CtrlIs DEF Openers
<1>12. fn \in Functions /\ Validated(fn) /\ Placed(fn, pc, vs, cs)
  BY <1>1, Ready
<1>13. Len(w) = After(fn.code[pc], Len(vs))
  BY <1>1, <1>3 DEF After, Dividers, Dead
<1>14. Placed(fn, pc + 1, w, Append(cs, c))
  BY <1>1, <1>3, <1>10, <1>12, <1>13, EntersBlock DEF Openers
<1>15. Placed(fn, e + 1, w, Append(cs, c))
  BY <1>1, <1>3, <1>6, <1>8, <1>10, <1>12, <1>13, EntersElse DEF Openers
<1>16. Placed(fn, pc', vs', cs')
  BY <1>9, <1>11, <1>14, <1>15
<1> QED BY <1>1, <1>9, <1>16, Continues DEF Sound

LEMMA ElseSound ==
  ASSUME Wasm, IInv, Else  PROVE Sound
<1>1. status = "running" /\ fn.code[pc].op = "else" /\ steps' \in 0 .. MaxSteps
      /\ UNCHANGED <<fn, ends, elses>>
  BY Counted DEF Else, Code
<1>2. cs # <<>> /\ Placed(fn, Top(cs).end, vs, cs)
  BY <1>1, Ready, ElseJumps
<1>3. pc' = Top(cs).end /\ UNCHANGED <<status, vs, cs>>
  BY <1>2 DEF Else, Goto
<1>4. Placed(fn, pc', vs', cs')
  BY <1>2, <1>3
<1> QED BY <1>1, <1>3, <1>4, Continues DEF Sound

(* Results that are there are handed over.                                 *)
LEMMA Returns ==
  ASSUME Wasm, IInv, status = "running", UNCHANGED <<fn, ends, elses>>,
         steps' \in 0 .. MaxSteps, Results, Len(vs) >= fn.results
  PROVE  IInv'
<1>1. fn.results \in 0 .. Len(vs) /\ vs \in Seq({0, 1})
  <2>1. fn.results \in {0, 1} /\ Len(vs) \in Nat /\ vs \in Seq({0, 1})
    BY Ready, Body
  <2> QED BY <2>1
<1>2. status' = "returned" /\ UNCHANGED <<pc, cs>> /\ vs' = Last(vs, fn.results)
  BY <1>1 DEF Results, Stop
<1>3. vs' \in Seq({0, 1})
  BY <1>1, <1>2, Keeps
<1> QED BY <1>2, <1>3, Halts

LEMMA EndSound ==
  ASSUME Wasm, IInv, End  PROVE Sound
<1>1. status = "running" /\ fn.code[pc].op = "end" /\ steps' \in 0 .. MaxSteps
      /\ UNCHANGED <<fn, ends, elses>>
  BY Counted DEF End, Code
<1>2. fn \in Functions /\ Validated(fn) /\ Placed(fn, pc, vs, cs)
  BY <1>1, Ready
<1>3. CASE cs # <<>>
  <2>1. pc' = pc + 1 /\ vs' = vs /\ cs' = Pop(cs) /\ UNCHANGED status
    BY <1>3 DEF End, Goto
  <2>2. Placed(fn, pc', vs', cs')
    BY <1>1, <1>2, <1>3, <2>1, ClosesBlock
  <2> QED BY <1>1, <2>1, <2>2, Continues DEF Sound
<1>4. CASE cs = <<>>
  <2>1. pc = Len(fn.code) /\ Len(vs) = fn.results
    BY <1>1, <1>2, <1>4, LastEnd
  <2>2. Results
    BY <1>4 DEF End
  <2>3. fn.results \in {0, 1}
    BY <1>2, Body
  <2>4. IInv'
    BY <1>1, <2>1, <2>2, <2>3, Returns
  <2> QED BY <2>1, <2>4 DEF Sound, Code
<1> QED BY <1>3, <1>4

LEMMA ReturnSound ==
  ASSUME Wasm, IInv, Return  PROVE Sound
<1>1. status = "running" /\ Code[pc].op = "return" /\ steps' \in 0 .. MaxSteps
      /\ UNCHANGED <<fn, ends, elses>>
  BY Counted DEF Return
<1>2. /\ OperatorFits(fn.code, fn.results, pc, Validation(fn.code)[pc - 1])
      /\ Before(fn.code[pc], Validation(fn.code)[pc - 1]) = Len(vs) /\ Len(vs) # Dead
  BY <1>1, Ready, PlacedFacts
<1>3. Len(vs) >= fn.results
  BY <1>1, <1>2 DEF OperatorFits, Code
<1>4. IInv'
  BY <1>1, <1>3, Returns DEF Return
<1> QED BY <1>1, <1>4 DEF Sound

LEMMA BrSound ==
  ASSUME Wasm, IInv, Br  PROVE Sound
<1>1. status = "running" /\ Code[pc].op = "br" /\ steps' \in 0 .. MaxSteps
      /\ UNCHANGED <<fn, ends, elses>>
  BY Counted DEF Br
<1>2. /\ OperatorFits(fn.code, fn.results, pc, Validation(fn.code)[pc - 1])
      /\ Before(fn.code[pc], Validation(fn.code)[pc - 1]) = Len(vs) /\ Len(vs) # Dead
      /\ vs \in Seq({0, 1})
  BY <1>1, Ready, PlacedFacts
<1>3. LabelsFit(fn.code, Validation(fn.code)[pc - 1], fn.code[pc], Len(vs))
  BY <1>1, <1>2 DEF OperatorFits, Code
<1>4. PICK d : d = fn.code[pc].n
  OBVIOUS
<1>5. d \in Labels(fn.code[pc])
  BY <1>4 DEF Labels
<1>6. Branch(d, vs)
  BY <1>4 DEF Br, Code
<1>7. IInv' /\ status' # "returned"
  BY <1>1, <1>2, <1>3, <1>5, <1>6, Branches
<1> QED BY <1>7 DEF Sound

LEMMA BrIfSound ==
  ASSUME Wasm, IInv, BrIf  PROVE Sound
<1>1. status = "running" /\ Code[pc].op = "br_if" /\ fn.code[pc].op = "br_if"
      /\ steps' \in 0 .. MaxSteps /\ UNCHANGED <<fn, ends, elses>>
  BY Counted DEF BrIf, Code
<1>2. PICK w : w = Pop(vs)
  OBVIOUS
<1>3. vs # <<>> /\ w \in Seq({0, 1}) /\ Len(w) = Len(vs) - 1 /\ Len(vs) \in Nat
  BY <1>1, <1>2, Operand, Ready
<1>4. BranchIf(Top(vs), w)
  BY <1>2, <1>3 DEF BrIf, Underflow
<1>5. /\ OperatorFits(fn.code, fn.results, pc, Validation(fn.code)[pc - 1])
      /\ Before(fn.code[pc], Validation(fn.code)[pc - 1]) = Len(vs) /\ Len(vs) # Dead
      /\ fn \in Functions /\ Validated(fn) /\ Placed(fn, pc, vs, cs)
  BY <1>1, Ready, PlacedFacts
<1>6. CASE Top(vs) # 0
  <2>1. LabelsFit(fn.code, Validation(fn.code)[pc - 1], fn.code[pc], Len(w))
    BY <1>1, <1>3, <1>5 DEF OperatorFits
  <2>2. PICK d : d = fn.code[pc].n
    OBVIOUS
  <2>3. d \in Labels(fn.code[pc])
    BY <2>2 DEF Labels
  <2>4. Branch(d, w)
    BY <1>4, <1>6, <2>2 DEF BranchIf, Code
  <2>5. IInv' /\ status' # "returned"
    BY <1>1, <1>3, <2>1, <2>3, <2>4, Branches
  <2> QED BY <2>5 DEF Sound
<1>7. CASE Top(vs) = 0
  <2>1. vs' = w /\ cs' = cs /\ pc' = pc + 1 /\ UNCHANGED status
    BY <1>4, <1>7 DEF BranchIf, GoOn, Goto
  <2>2. Len(w) = After(fn.code[pc], Len(vs))
    BY <1>1, <1>3, <1>5 DEF After, Dividers
  <2>3. Placed(fn, pc + 1, w, cs)
    BY <1>1, <1>3, <1>5, <2>2, FallThrough
  <2> QED BY <1>1, <2>1, <2>3, Continues DEF Sound
<1> QED BY <1>6, <1>7

LEMMA BrTableSound ==
  ASSUME Wasm, IInv, BrTable  PROVE Sound
<1>1. status = "running" /\ Code[pc].op = "br_table" /\ fn.code[pc].op = "br_table"
      /\ steps' \in 0 .. MaxSteps /\ UNCHANGED <<fn, ends, elses>>
  BY Counted DEF BrTable, Code
<1>2. PICK w : w = Pop(vs)
  OBVIOUS
<1>3. vs # <<>> /\ w \in Seq({0, 1}) /\ Len(w) = Len(vs) - 1 /\ Len(vs) \in Nat
      /\ Top(vs) \in {0, 1}
  BY <1>1, <1>2, Operand, Ready
<1>4. BranchTable(Top(vs), w)
  BY <1>2, <1>3 DEF BrTable, Underflow
<1>5. /\ OperatorFits(fn.code, fn.results, pc, Validation(fn.code)[pc - 1])
      /\ Before(fn.code[pc], Validation(fn.code)[pc - 1]) = Len(vs) /\ Len(vs) # Dead
      /\ fn.code[pc].ts \in Seq(Nat)
  BY <1>1, Ready, PlacedFacts
<1>6. LabelsFit(fn.code, Validation(fn.code)[pc - 1], fn.code[pc], Len(w))
  BY <1>1, <1>3, <1>5 DEF OperatorFits
<1>7. PICK d : d = IF Top(vs) < Len(fn.code[pc].ts) THEN fn.code[pc].ts[Top(vs) + 1]
                   ELSE fn.code[pc].n
  OBVIOUS
<1>8. d \in Labels(fn.code[pc])
  <2>1. Top(vs) < Len(fn.code[pc].ts) => Top(vs) + 1 \in DOMAIN fn.code[pc].ts
    BY <1>3, <1>5
  <2> QED BY <1>7, <2>1 DEF Labels
<1>9. Branch(d, w)
  BY <1>4, <1>7 DEF BranchTable, Code
<1>10. IInv' /\ status' # "returned"
  BY <1>1, <1>3, <1>6, <1>8, <1>9, Branches
<1> QED BY <1>10 DEF Sound

LEMMA PushSound ==
  ASSUME Wasm, IInv, Push  PROVE Sound
<1>1. status = "running" /\ fn.code[pc].op = "push" /\ steps' \in 0 .. MaxSteps
      /\ UNCHANGED <<fn, ends, elses>>
  BY Counted DEF Push, Code
<1>2. PICK x \in {0, 1} : GoOn(Append(vs, x))
  BY DEF Push
<1>3. PICK w : w = Append(vs, x)
  OBVIOUS
<1>4. vs' = w /\ cs' = cs /\ pc' = pc + 1 /\ UNCHANGED status
  BY <1>2, <1>3 DEF GoOn, Goto
<1>5. /\ fn \in Functions /\ Validated(fn) /\ Placed(fn, pc, vs, cs)
      /\ vs \in Seq({0, 1}) /\ Len(vs) \in Nat
  BY <1>1, Ready
<1>6. w \in Seq({0, 1}) /\ Len(w) = Len(vs) + 1
  BY <1>3, <1>5, AppendProperties
<1>7. Len(w) = After(fn.code[pc], Len(vs))
  BY <1>1, <1>5, <1>6 DEF After, Dividers, Dead
<1>8. Placed(fn, pc + 1, w, cs)
  BY <1>1, <1>5, <1>6, <1>7, FallThrough
<1> QED BY <1>1, <1>4, <1>8, Continues DEF Sound

LEMMA DropSound ==
  ASSUME Wasm, IInv, Drop  PROVE Sound
<1>1. status = "running" /\ fn.code[pc].op = "drop" /\ steps' \in 0 .. MaxSteps
      /\ UNCHANGED <<fn, ends, elses>>
  BY Counted DEF Drop, Code
<1>2. PICK w : w = Pop(vs)
  OBVIOUS
<1>3. vs # <<>> /\ w \in Seq({0, 1}) /\ Len(w) = Len(vs) - 1 /\ Len(vs) \in Nat
  BY <1>1, <1>2, Operand, Ready
<1>4. vs' = w /\ cs' = cs /\ pc' = pc + 1 /\ UNCHANGED status
  BY <1>2, <1>3 DEF Drop, Underflow, GoOn, Goto
<1>5. fn \in Functions /\ Validated(fn) /\ Placed(fn, pc, vs, cs)
  BY <1>1, Ready
<1>6. Len(w) = After(fn.code[pc], Len(vs))
  BY <1>1, <1>3 DEF After, Dividers, Dead
<1>7. Placed(fn, pc + 1, w, cs)
  BY <1>1, <1>3, <1>5, <1>6, FallThrough
<1> QED BY <1>1, <1>4, <1>7, Continues DEF Sound

LEMMA DivideSound ==
  ASSUME Wasm, IInv, Divide  PROVE Sound
<1>1. status = "running" /\ fn.code[pc].op \in Dividers /\ steps' \in 0 .. MaxSteps
      /\ UNCHANGED <<fn, ends, elses>> /\ Code[pc].op = fn.code[pc].op
  BY Counted DEF Divide, Code
<1>2. /\ Len(vs) >= 2 /\ vs \in Seq({0, 1}) /\ Len(vs) \in Nat
      /\ Top(Pop(vs)) \in {0, 1}
      /\ Below(2) \in Seq({0, 1}) /\ Len(Below(2)) = Len(vs) - 2
  BY <1>1, TwoOperands
<1>3. CASE Top(vs) = 0
  <2>1. DivideByZero
    BY <1>2, <1>3 DEF Divide
  <2>2. UNCHANGED <<pc, vs, cs>>
        /\ status' = IF Code[pc].op = "div_s" THEN "panic" ELSE "trap"
    BY <2>1 DEF DivideByZero, Fail, Stop
  <2>3. Code[pc].op = "div_u" => GuestTraps
    BY <1>2, <1>3 DEF GuestTraps
  <2>4. Code[pc].op \notin Branchers
    BY <1>1 DEF Branchers, Dividers
  <2> QED BY <1>1, <1>2, <2>2, <2>3, <2>4, Halts DEF Sound, Dividers
<1>4. CASE Top(vs) # 0
  <2>1. PICK q \in {0, Top(Pop(vs))} : GoOn(Append(Below(2), q))
    BY <1>2, <1>4 DEF Divide
  <2>2. PICK w : w = Append(Below(2), q)
    OBVIOUS
  <2>3. vs' = w /\ cs' = cs /\ pc' = pc + 1 /\ UNCHANGED status
    BY <2>1, <2>2 DEF GoOn, Goto
  <2>4. w \in Seq({0, 1}) /\ Len(w) = Len(vs) - 1
    BY <1>2, <2>2, AppendProperties
  <2>5. fn \in Functions /\ Validated(fn) /\ Placed(fn, pc, vs, cs)
    BY <1>1, Ready
  <2>6. Len(w) = After(fn.code[pc], Len(vs))
    BY <1>1, <1>2, <2>4 DEF After, Dead, Dividers
  <2>7. Placed(fn, pc + 1, w, cs)
    BY <1>1, <2>4, <2>5, <2>6, FallThrough
  <2> QED BY <1>1, <2>3, <2>7, Continues DEF Sound
<1> QED BY <1>3, <1>4

LEMMA AccessSound ==
  ASSUME Wasm, IInv, Access  PROVE Sound
<1>1. status = "running" /\ fn.code[pc].op \in Accesses /\ steps' \in 0 .. MaxSteps
      /\ UNCHANGED <<fn, ends, elses>> /\ Code[pc].op = fn.code[pc].op
  BY Counted DEF Access, Code
<1>2. /\ fn \in Functions /\ Validated(fn) /\ Placed(fn, pc, vs, cs)
      /\ vs \in Seq({0, 1}) /\ Len(vs) \in Nat
  BY <1>1, Ready
<1>3. Len(vs) >= Operands(Code[pc].op)
  <2>1. CASE fn.code[pc].op = "load"
    <3>1. vs # <<>>
      BY <1>1, <2>1, Operand
    <3> QED BY <1>1, <1>2, <2>1, <3>1, EmptySeq DEF Operands
  <2>2. CASE fn.code[pc].op = "store"
    BY <1>1, <2>2, TwoOperands DEF Operands
  <2> QED BY <1>1, <2>1, <2>2 DEF Accesses
<1>4. CASE Fail("trap") \/ Fail("panic")
  <2>1. UNCHANGED <<pc, vs, cs>> /\ status' \in {"trap", "panic"}
    BY <1>4 DEF Fail, Stop
  <2>2. GuestTraps /\ Code[pc].op \notin Branchers
    BY <1>1, <1>3 DEF GuestTraps, Branchers, Accesses
  <2> QED BY <1>1, <1>2, <2>1, <2>2, Halts DEF Sound
<1>5. ASSUME NEW w \in Seq({0, 1}), GoOn(w), Len(w) = After(fn.code[pc], Len(vs))
      PROVE  Sound
  <2>1. vs' = w /\ cs' = cs /\ pc' = pc + 1 /\ UNCHANGED status
    BY <1>5 DEF GoOn, Goto
  <2>2. Placed(fn, pc + 1, w, cs)
    BY <1>1, <1>2, <1>5, FallThrough
  <2> QED BY <1>1, <2>1, <2>2, Continues DEF Sound
<1>6. CASE Code[pc].op = "store" /\ GoOn(Below(2))
  <2>1. Below(2) \in Seq({0, 1}) /\ Len(Below(2)) = Len(vs) - 2
    BY <1>1, <1>6, TwoOperands
  <2>2. Len(Below(2)) = After(fn.code[pc], Len(vs))
    BY <1>1, <1>2, <1>6, <2>1 DEF After, Dead, Dividers
  <2> QED BY <1>5, <1>6, <2>1, <2>2
<1>7. CASE Code[pc].op = "load" /\ \E v \in {0, 1} : GoOn(Append(Below(1), v))
  <2>1. PICK v \in {0, 1} : GoOn(Append(Below(1), v))
    BY <1>7
  <2>2. Below(1) \in Seq({0, 1}) /\ Len(Below(1)) = Len(vs) - 1
    BY <1>1, <1>7, Operand DEF Below
  <2>3. PICK w : w = Append(Below(1), v)
    OBVIOUS
  <2>4. w \in Seq({0, 1}) /\ Len(w) = Len(vs)
    BY <1>2, <2>2, <2>3, AppendProperties
  <2>5. Len(w) = After(fn.code[pc], Len(vs))
    BY <1>1, <1>2, <1>7, <2>4 DEF After, Dead, Dividers
  <2> QED BY <1>5, <2>1, <2>3, <2>4, <2>5
<1>8. \/ Fail("trap") \/ Fail("panic")
      \/ Code[pc].op = "store" /\ GoOn(Below(2))
      \/ Code[pc].op = "load" /\ \E v \in {0, 1} : GoOn(Append(Below(1), v))
  BY DEF Access
<1> QED BY <1>4, <1>6, <1>7, <1>8

LEMMA UnreachableSound ==
  ASSUME Wasm, IInv, Unreachable  PROVE Sound
<1>1. Code[pc].op = "unreachable" /\ steps' \in 0 .. MaxSteps
      /\ UNCHANGED <<fn, ends, elses>>
  BY Counted DEF Unreachable
<1>2. status' = "trap" /\ UNCHANGED <<pc, vs, cs>> /\ vs \in Seq({0, 1})
  BY DEF Unreachable, Fail, Stop, IInv, TypeOK
<1>3. GuestTraps
  BY <1>1 DEF GuestTraps
<1> QED BY <1>1, <1>2, <1>3, Halts DEF Sound

LEMMA LeaveLoopSound ==
  ASSUME Wasm, IInv, LeaveLoop  PROVE Sound
<1>1. status = "running" /\ UNCHANGED <<fn, ends, elses, steps>>
  BY DEF LeaveLoop
<1>2. ~(pc > Len(Code)) /\ steps \in 0 .. MaxSteps /\ MaxSteps \in Nat
      /\ vs \in Seq({0, 1})
  <2>1. fn.code \in Seq(Operators)
    BY <1>1, Ready, Body
  <2> QED BY <1>1, <2>1, Ready DEF Code
<1>3. steps >= MaxSteps /\ status' = "trap" /\ UNCHANGED <<pc, vs, cs>>
  BY <1>2 DEF LeaveLoop, Fail, Stop
<1>4. steps' = MaxSteps
  BY <1>1, <1>2, <1>3
<1> QED BY <1>1, <1>2, <1>3, <1>4, Halts DEF Sound

LEMMA InitSound ==
  ASSUME Wasm, Init  PROVE IInv
<1>1. fn \in Functions /\ Validated(fn)
  BY DEF Wasm, Init
<1>2. fn.code \in Seq(Operators) /\ Len(fn.code) \in Nat \ {0}
  BY <1>1, Body
<1>3. pc = 1 /\ vs = <<>> /\ cs = <<>> /\ steps = 0 /\ status = "running"
      /\ ends = Scan(fn.code).ends /\ elses = Scan(fn.code).elses
  BY DEF Init
<1>4. PICK s : s = Validation(fn.code)[0]
  OBVIOUS
<1>5. s = [h |-> 0, open |-> <<>>]
  BY <1>2, <1>4, ValidUnfolds
<1>6. Open(fn.code, 0) = <<>>
  BY <1>4, <1>5 DEF Open
<1>7. Framed(fn, <<>>, 0)
  BY <1>6 DEF Framed
<1>8. Before(fn.code[1], s) = 0
  BY <1>5 DEF Before
<1>9. 1 \in 1 .. Len(fn.code) /\ 1 - 1 = 0 /\ <<>> \in Seq({0, 1}) /\ Len(<<>>) = 0
  BY <1>2
<1>10. Placed(fn, 1, <<>>, <<>>)
  BY <1>4, <1>7, <1>8, <1>9 DEF Placed
<1>11. TypeOK
  BY <1>1, <1>3, StepsAssumption DEF TypeOK
<1> QED BY <1>3, <1>9, <1>10, <1>11 DEF IInv, OnlyHonestTraps, Code

LEMMA StepSound ==
  ASSUME Wasm, IInv, Next  PROVE Sound
BY BlockOrLoopSound, IfSound, ElseSound, EndSound, ReturnSound, BrSound, BrIfSound,
   BrTableSound, PushSound, DropSound, DivideSound, AccessSound, UnreachableSound,
   LeaveLoopSound DEF Next

LEMMA StutterSound ==
  ASSUME IInv, UNCHANGED vars  PROVE IInv'
BY DEF IInv, vars, TypeOK, OnlyHonestTraps, GuestTraps, Outward, Code

(* The invariant of the interpreter, of which the theorems below are       *)
(* parts: however a validated body is run, every operator is reached as    *)
(* wasm validation says.                                                   *)
THEOREM Invariant == ASSUME Wasm PROVE Spec => []IInv
<1>1. IInv /\ [Next]_vars => IInv'
  BY StepSound, StutterSound DEF Sound
<1> QED BY InitSound, <1>1, PTL DEF Spec

(* Every run of every validated body stays within the types of TypeOK.     *)
THEOREM TypeCorrect == ASSUME Wasm PROVE Spec => []TypeOK
<1>1. IInv => TypeOK
  BY DEF IInv
<1> QED BY Invariant, <1>1, PTL

(* A validated body fails for a spent budget, or where the guest may trap  *)
(* as well: exec_body finds every operand and every result it pops.        *)
THEOREM HonestTraps == ASSUME Wasm PROVE Spec => []OnlyHonestTraps
<1>1. IInv => OnlyHonestTraps
  BY DEF IInv
<1> QED BY Invariant, <1>1, PTL

(* However control came to an operator, do_branch and the fall-through     *)
(* agree on the height of the value stack: the one validation computed.    *)
THEOREM StaticHeights == ASSUME Wasm PROVE Spec => []HeightIsStatic
<1>1. ASSUME Wasm, IInv  PROVE HeightIsStatic
  <2>1. SUFFICES ASSUME status = "running"  PROVE Len(vs) = Heights[fn][pc]
    BY DEF HeightIsStatic
  <2>2. fn \in Functions /\ pc \in 1 .. Len(fn.code) /\ Placed(fn, pc, vs, cs)
    BY <1>1, <2>1, Ready
  <2>3. Heights[fn][pc] = Before(fn.code[pc], Validation(fn.code)[pc - 1])
    BY <2>2 DEF Heights, StaticHeight
  <2> QED BY <2>2, <2>3 DEF Placed
<1> QED BY Invariant, <1>1, PTL

(* exec_body leaves a function by its return operators and last end alone. *)
THEOREM EndsLeave == ASSUME Wasm PROVE Spec => LeftAtTheEnd
<1>1. IInv /\ [Next]_vars =>
        [status' = "returned" => Code[pc].op = "return" \/ pc = Len(Code)]_vars
  BY StepSound DEF Sound
<1> QED BY Invariant, <1>1, PTL DEF Spec, LeftAtTheEnd

----------------------------------------------------------------------------
(* The blocks that enclose an operator. *)

LEMMA Encloses ==
  ASSUME NEW f \in Functions, Validated(f), NEW i \in 0 .. Len(f.code),
         NEW o \in 1 .. Len(f.code), f.code[o].op \in Openers
  PROVE  o <= i /\ i < EndAt(f, o)
           <=> \E k \in 1 .. Len(Open(f.code, i)) : Open(f.code, i)[k].at = o
<1>1. PICK code, e : code = f.code /\ e = EndAt(f, o)
  OBVIOUS
<1>2. code \in Seq(Operators) /\ Len(code) \in Nat
  BY <1>1, Body
<1>3. e \in o + 1 .. Len(code) - 1 /\ Belongs(code, e, "end", o)
  BY <1>1, EndAtIs
<1>4. e \in 1 .. Len(code) /\ Len(Open(code, i)) \in Nat
  BY <1>1, <1>2, <1>3, OpenType
<1>5. ASSUME o <= i, i < e
      PROVE  \E k \in 1 .. Len(Open(code, i)) : Open(code, i)[k].at = o
  <2>1. i \in o .. Len(code)
    BY <1>1, <1>5
  <2>2. \A j \in o + 1 .. i : ~Belongs(code, j, "end", o)
    <3>1. SUFFICES ASSUME NEW j \in o + 1 .. i, Belongs(code, j, "end", o)  PROVE FALSE
      OBVIOUS
    <3>2. j \in 1 .. Len(code)
      BY <2>1, <3>1
    <3>3. j = e
      BY <1>2, <1>3, <1>4, <3>1, <3>2, OneEnd
    <3> QED BY <1>5, <3>1, <3>3
  <2>3. PICK k : k = Len(Open(code, o))
    OBVIOUS
  <2>4. Len(Open(code, i)) >= k /\ Open(code, i)[k].at = o
    BY <1>1, <1>2, <2>1, <2>2, <2>3, Stays
  <2>5. k \in Nat \ {0}
    <3>1. Opens(code, o)
      BY <1>1, <1>2, OpenStep
    <3>2. o - 1 \in 0 .. Len(code)
      BY <1>1
    <3>3. Len(Open(code, o - 1)) \in Nat
      BY <1>2, <3>2, OpenType
    <3> QED BY <2>3, <3>1, <3>3 DEF Opens
  <2>6. k \in 1 .. Len(Open(code, i))
    BY <1>4, <2>4, <2>5
  <2> QED BY <2>4, <2>6
<1>6. ASSUME NEW k \in 1 .. Len(Open(code, i)), Open(code, i)[k].at = o
      PROVE  o <= i /\ i < e
  <2>1. o \in 1 .. i /\ \A j \in o + 1 .. i : ~Belongs(code, j, "end", o)
    BY <1>1, <1>2, <1>6, Discipline DEF Sits
  <2>2. e \notin o + 1 .. i
    BY <1>3, <2>1
  <2> QED BY <1>1, <1>3, <2>1, <2>2
<1> QED BY <1>1, <1>5, <1>6

(* Of two blocks that are open, the outer ends last.                       *)
LEMMA Outlasts ==
  ASSUME NEW f \in Functions, Validated(f), NEW i \in 0 .. Len(f.code),
         NEW k \in 1 .. Len(Open(f.code, i)), NEW m \in 1 .. Len(Open(f.code, i)), k < m
  PROVE  EndAt(f, Open(f.code, i)[k].at) > EndAt(f, Open(f.code, i)[m].at)
<1>1. PICK code, o, q, e : /\ code = f.code /\ o = Open(code, i)[k].at
                           /\ q = Open(code, i)[m].at /\ e = EndAt(f, q)
  OBVIOUS
<1>2. code \in Seq(Operators) /\ Len(code) \in Nat /\ Len(Open(code, i)) \in Nat
  BY <1>1, Body, OpenType
<1>3. /\ q \in 1 .. Len(code) /\ code[q].op \in Openers
      /\ Len(Open(code, q)) = m
      /\ \A l \in 1 .. m : Open(code, q)[l] = Open(code, i)[l]
  <2>1. /\ q \in 1 .. i /\ q <= Len(code) /\ code[q].op \in Openers
        /\ Len(Open(code, q)) = m
        /\ \A l \in 1 .. m : Open(code, q)[l] = Open(code, i)[l]
    BY <1>1, BlockIs
  <2> QED BY <1>1, <1>2, <2>1
<1>4. o \in 1 .. Len(code) /\ code[o].op \in Openers
  <2>1. o \in 1 .. i /\ o <= Len(code) /\ code[o].op \in Openers
    BY <1>1, BlockIs
  <2> QED BY <1>1, <1>2, <2>1
<1>5. o < q
  BY <1>1, <1>2, Nested
<1>6. e \in q + 1 .. Len(code) - 1 /\ Belongs(code, e, "end", q)
  BY <1>1, <1>3, EndAtIs
<1>7. e \in 1 .. Len(code) /\ e - 1 \in 0 .. Len(code)
  BY <1>2, <1>3, <1>6
<1>8. Open(code, e - 1) = Open(code, q) /\ Top(Open(code, e - 1)).at = q
  BY <1>2, <1>6, <1>7, BelongsTo
<1>9. k \in 1 .. Len(Open(code, e - 1)) /\ Open(code, e - 1)[k].at = o
  <2>1. k \in 1 .. m
    BY <1>1, <1>2
  <2> QED BY <1>1, <1>3, <1>8, <2>1
<1>10. e - 1 < EndAt(f, o)
  BY <1>1, <1>4, <1>7, <1>9, Encloses
<1>11. EndAt(f, o) # e
  <2>1. EndAt(f, o) = e => Belongs(code, e, "end", o)
    BY <1>1, <1>4, EndAtIs
  <2>2. Belongs(code, e, "end", o) => Top(Open(code, e - 1)).at = o
    BY <1>2, <1>7, BelongsTo
  <2>3. q \in Nat /\ o # q
    BY <1>3, <1>4, <1>5
  <2> QED BY <1>8, <2>1, <2>2, <2>3
<1>12. EndAt(f, o) \in Int /\ e \in Int
  <2>1. EndAt(f, o) \in o + 1 .. Len(code) - 1
    BY <1>1, <1>4, EndAtIs
  <2> QED BY <1>6, <2>1
<1> QED BY <1>1, <1>10, <1>11, <1>12

LEMMA Paired ==
  ASSUME Wasm, IInv
  PROVE  /\ fn \in Functions /\ Validated(fn) /\ fn.code \in Seq(Operators)
         /\ pc \in 1 .. Len(fn.code) /\ pc - 1 \in 0 .. Len(fn.code)
         /\ \A p : p \in ends <=>
              \E o \in 1 .. Len(fn.code) :
                fn.code[o].op \in Openers /\ p = <<o, EndAt(fn, o)>>
<1>1. /\ fn \in Functions /\ Validated(fn) /\ pc \in 1 .. Len(fn.code)
      /\ ends = Scan(fn.code).ends
  BY DEF Wasm, IInv, TypeOK, Code
<1>2. fn.code \in Seq(Operators) /\ Len(fn.code) \in Nat /\ pc - 1 \in 0 .. Len(fn.code)
  BY <1>1, Body
<1>3. Relates(ends, fn.code, Len(fn.code), "end")
  BY <1>1, ScanExact
<1>4. ASSUME NEW o \in 1 .. Len(fn.code), fn.code[o].op \in Openers
      PROVE  <<o, EndAt(fn, o)>> \in ends
  <2>1. PICK e : e = EndAt(fn, o)
    OBVIOUS
  <2>2. e \in o + 1 .. Len(fn.code) - 1 /\ Belongs(fn.code, e, "end", o)
    BY <1>1, <1>4, <2>1, EndAtIs
  <2>3. o \in Nat /\ e \in Nat /\ e \in 1 .. Len(fn.code)
    BY <1>2, <2>2
  <2>4. <<o, e>> \in ends
    BY <1>3, <2>2, <2>3 DEF Relates
  <2> QED BY <2>1, <2>4
<1>5. ASSUME NEW p \in ends
      PROVE  \E o \in 1 .. Len(fn.code) :
               fn.code[o].op \in Openers /\ p = <<o, EndAt(fn, o)>>
  <2>1. PICK o, j \in Nat : p = <<o, j>>
    BY <1>3 DEF Relates
  <2>2. j \in 1 .. Len(fn.code) /\ Belongs(fn.code, j, "end", o)
    BY <1>3, <2>1 DEF Relates
  <2>3. o \in 1 .. j - 1 /\ fn.code[o].op \in Openers
    BY <1>2, <2>2, BelongsTo
  <2>4. o \in 1 .. Len(fn.code)
    BY <1>2, <2>2, <2>3
  <2>5. PICK e : e = EndAt(fn, o)
    OBVIOUS
  <2>6. e \in o + 1 .. Len(fn.code) - 1 /\ Belongs(fn.code, e, "end", o)
    BY <1>1, <2>3, <2>4, <2>5, EndAtIs
  <2>7. e \in 1 .. Len(fn.code)
    BY <1>2, <2>4, <2>6
  <2>8. j = e
    BY <1>2, <2>2, <2>6, <2>7, OneEnd
  <2> QED BY <2>1, <2>3, <2>4, <2>5, <2>8
<1> QED BY <1>1, <1>2, <1>4, <1>5

(* The control stack of exec_body mirrors the nesting of the body.         *)
THEOREM Mirrored == ASSUME Wasm PROVE Spec => []NestingMirrored
<1>1. ASSUME Wasm, IInv  PROVE NestingMirrored
  <2>1. SUFFICES ASSUME status = "running"
        PROVE  /\ {cs[i].end : i \in 1 .. Len(cs)} =
                    {p[2] : p \in {q \in ends : q[1] < pc /\ pc <= q[2]}}
               /\ \A i \in 1 .. Len(cs) - 1 : cs[i].end > cs[i + 1].end
    BY DEF NestingMirrored
  <2>2. /\ fn \in Functions /\ Validated(fn) /\ fn.code \in Seq(Operators)
        /\ pc \in 1 .. Len(fn.code) /\ pc - 1 \in 0 .. Len(fn.code)
        /\ \A p : p \in ends <=>
             \E o \in 1 .. Len(fn.code) :
               fn.code[o].op \in Openers /\ p = <<o, EndAt(fn, o)>>
    BY <1>1, Paired
  <2>3. PICK open : open = Open(fn.code, pc - 1)
    OBVIOUS
  <2>4. /\ Len(cs) = Len(open) /\ Len(cs) \in Nat
        /\ \A k \in 1 .. Len(cs) : cs[k].end = EndAt(fn, open[k].at)
    <3>1. /\ Len(cs) = Len(open) /\ Len(cs) \in Nat
          /\ \A k \in 1 .. Len(cs) : cs[k] = Frame(fn, open[k])
      BY <1>1, <2>1, <2>3, Ready, PlacedFacts
    <3> QED BY <3>1, FrameIs
  <2>5. \A o \in 1 .. Len(fn.code) : fn.code[o].op \in Openers =>
          /\ EndAt(fn, o) \in Int
          /\ (o < pc /\ pc <= EndAt(fn, o)
                <=> \E k \in 1 .. Len(open) : open[k].at = o)
    <3>1. SUFFICES ASSUME NEW o \in 1 .. Len(fn.code), fn.code[o].op \in Openers
          PROVE  /\ EndAt(fn, o) \in Int
                 /\ (o < pc /\ pc <= EndAt(fn, o)
                       <=> \E k \in 1 .. Len(open) : open[k].at = o)
      OBVIOUS
    <3>2. EndAt(fn, o) \in Int
      <4>1. EndAt(fn, o) \in o + 1 .. Len(fn.code) - 1
        BY <2>2, <3>1, EndAtIs
      <4> QED BY <2>2, <4>1
    <3>3. o <= pc - 1 /\ pc - 1 < EndAt(fn, o)
            <=> \E k \in 1 .. Len(open) : open[k].at = o
      BY <2>2, <2>3, <3>1, Encloses
    <3>4. o <= pc - 1 /\ pc - 1 < EndAt(fn, o) <=> o < pc /\ pc <= EndAt(fn, o)
      BY <2>2, <3>2
    <3> QED BY <3>2, <3>3, <3>4
  <2>6. \A k \in 1 .. Len(open) :
          open[k].at \in 1 .. Len(fn.code) /\ fn.code[open[k].at].op \in Openers
    <3>1. SUFFICES ASSUME NEW k \in 1 .. Len(open)
          PROVE  open[k].at \in 1 .. Len(fn.code) /\ fn.code[open[k].at].op \in Openers
      OBVIOUS
    <3>2. /\ open[k].at \in 1 .. pc - 1 /\ open[k].at <= Len(fn.code)
          /\ fn.code[open[k].at].op \in Openers
      BY <2>2, <2>3, BlockIs
    <3> QED BY <2>2, <3>2
  <2>7. ASSUME NEW k \in 1 .. Len(cs)
        PROVE  \E p \in ends : p[1] < pc /\ pc <= p[2] /\ cs[k].end = p[2]
    <3>1. PICK o : o = open[k].at
      OBVIOUS
    <3>2. o \in 1 .. Len(fn.code) /\ fn.code[o].op \in Openers
      BY <2>4, <2>6, <3>1
    <3>3. o < pc /\ pc <= EndAt(fn, o)
      BY <2>4, <2>5, <3>1, <3>2
    <3>4. <<o, EndAt(fn, o)>> \in ends
      BY <2>2, <3>2
    <3> QED BY <2>4, <3>1, <3>3, <3>4
  <2>8. ASSUME NEW p \in ends, p[1] < pc, pc <= p[2]
        PROVE  \E k \in 1 .. Len(cs) : cs[k].end = p[2]
    <3>1. PICK o \in 1 .. Len(fn.code) :
            fn.code[o].op \in Openers /\ p = <<o, EndAt(fn, o)>>
      BY <2>2
    <3>2. PICK k \in 1 .. Len(open) : open[k].at = o
      BY <2>5, <2>8, <3>1
    <3> QED BY <2>4, <3>1, <3>2
  <2>9. {cs[i].end : i \in 1 .. Len(cs)} =
          {p[2] : p \in {q \in ends : q[1] < pc /\ pc <= q[2]}}
    BY <2>7, <2>8
  <2>10. ASSUME NEW i \in 1 .. Len(cs) - 1  PROVE cs[i].end > cs[i + 1].end
    <3>1. i \in 1 .. Len(open) /\ i + 1 \in 1 .. Len(open) /\ i < i + 1
      BY <2>4
    <3>2. EndAt(fn, open[i].at) > EndAt(fn, open[i + 1].at)
      BY <2>2, <2>3, <3>1, Outlasts
    <3> QED BY <2>4, <3>1, <3>2
  <2> QED BY <2>9, <2>10
<1> QED BY Invariant, <1>1, PTL

(* do_branch panics for the label of the function alone: its depth is the  *)
(* number of blocks around the branch.                                     *)
THEOREM OutwardPanics == ASSUME Wasm PROVE Spec => []OnlyOutwardBranchesPanic
<1>1. ASSUME Wasm, IInv  PROVE OnlyOutwardBranchesPanic
  <2>1. PICK around : around = {p \in ends : p[1] < pc /\ pc < p[2]}
    OBVIOUS
  <2>2. SUFFICES ASSUME status = "panic", Code[pc].op \in Branchers
                 PROVE  Cardinality(around) \in Labels(Code[pc])
    BY <2>1 DEF OnlyOutwardBranchesPanic
  <2>3. PICK open : open = Open(fn.code, pc - 1)
    OBVIOUS
  <2>4. Len(open) \in Labels(Code[pc]) /\ fn.code[pc].op # "end"
    BY <1>1, <2>2, <2>3 DEF IInv, Outward, Code, Branchers
  <2>5. /\ fn \in Functions /\ Validated(fn) /\ fn.code \in Seq(Operators)
        /\ pc \in 1 .. Len(fn.code) /\ pc - 1 \in 0 .. Len(fn.code)
        /\ \A p : p \in ends <=>
             \E o \in 1 .. Len(fn.code) :
               fn.code[o].op \in Openers /\ p = <<o, EndAt(fn, o)>>
    BY <1>1, Paired
  <2>6. Len(open) \in Nat
    BY <2>3, <2>5, OpenType
  <2>7. PICK pair : pair = [k \in 1 .. Len(open) |-> <<open[k].at, EndAt(fn, open[k].at)>>]
    OBVIOUS
  <2>8. ASSUME NEW o \in 1 .. Len(fn.code), fn.code[o].op \in Openers
        PROVE  o < pc /\ pc < EndAt(fn, o)
                 <=> \E k \in 1 .. Len(open) : open[k].at = o
    <3>1. PICK e : e = EndAt(fn, o)
      OBVIOUS
    <3>2. e \in o + 1 .. Len(fn.code) - 1 /\ Belongs(fn.code, e, "end", o)
      BY <2>5, <2>8, <3>1, EndAtIs
    <3>3. e # pc /\ e \in Int
      BY <2>4, <2>5, <3>2 DEF Belongs
    <3>4. o <= pc - 1 /\ pc - 1 < e <=> o < pc /\ pc < e
      BY <2>5, <3>3
    <3>5. o <= pc - 1 /\ pc - 1 < EndAt(fn, o)
            <=> \E k \in 1 .. Len(open) : open[k].at = o
      BY <2>3, <2>5, <2>8, Encloses
    <3> QED BY <3>1, <3>4, <3>5
  <2>9. ASSUME NEW k \in 1 .. Len(open)
        PROVE  open[k].at \in 1 .. Len(fn.code) /\ fn.code[open[k].at].op \in Openers
    <3>1. /\ open[k].at \in 1 .. pc - 1 /\ open[k].at <= Len(fn.code)
          /\ fn.code[open[k].at].op \in Openers
      BY <2>3, <2>5, BlockIs
    <3> QED BY <2>5, <3>1
  <2>10. pair \in [1 .. Len(open) -> around]
    <3>1. SUFFICES ASSUME NEW k \in 1 .. Len(open)
                   PROVE  <<open[k].at, EndAt(fn, open[k].at)>> \in around
      BY <2>7
    <3>2. PICK o : o = open[k].at
      OBVIOUS
    <3>3. o \in 1 .. Len(fn.code) /\ fn.code[o].op \in Openers
      BY <2>9, <3>2
    <3>4. o < pc /\ pc < EndAt(fn, o)
      BY <2>8, <3>2, <3>3
    <3>5. <<o, EndAt(fn, o)>> \in ends
      BY <2>5, <3>3
    <3> QED BY <2>1, <3>2, <3>4, <3>5
  <2>11. ASSUME NEW k \in 1 .. Len(open), NEW m \in 1 .. Len(open), pair[k] = pair[m]
         PROVE  k = m
    <3>1. open[k].at = open[m].at
      BY <2>7, <2>11
    <3>2. open[k].at \in Nat /\ k \in Nat /\ m \in Nat
      BY <2>6, <2>9
    <3>3. k < m => open[k].at < open[m].at
      BY <2>3, <2>5, Nested
    <3>4. m < k => open[m].at < open[k].at
      BY <2>3, <2>5, Nested
    <3> QED BY <3>1, <3>2, <3>3, <3>4
  <2>12. ASSUME NEW p \in around  PROVE \E k \in 1 .. Len(open) : pair[k] = p
    <3>1. PICK o \in 1 .. Len(fn.code) :
            fn.code[o].op \in Openers /\ p = <<o, EndAt(fn, o)>>
      BY <2>1, <2>5
    <3>2. o < pc /\ pc < EndAt(fn, o)
      BY <2>1, <3>1
    <3>3. PICK k \in 1 .. Len(open) : open[k].at = o
      BY <2>8, <3>1, <3>2
    <3> QED BY <2>7, <3>1, <3>3
  <2>13. pair \in Bijection(1 .. Len(open), around)
    <3>1. \A k, m \in 1 .. Len(open) : pair[k] = pair[m] => k = m
      BY <2>11
    <3>2. \A p \in around : \E k \in 1 .. Len(open) : pair[k] = p
      BY <2>12
    <3>3. pair \in Injection(1 .. Len(open), around)
      BY <2>10, <3>1 DEF Injection, IsInjective
    <3>4. pair \in Surjection(1 .. Len(open), around)
      BY <2>10, <3>2 DEF Surjection
    <3> QED BY <3>3, <3>4 DEF Bijection
  <2>14. ExistsBijection(1 .. Len(open), around)
    BY <2>13 DEF ExistsBijection
  <2>15. Cardinality(around) = Len(open)
    BY <2>6, <2>14, FS_CountingElements
  <2> QED BY <2>4, <2>15
<1> QED BY Invariant, <1>1, PTL
=============================================================================
