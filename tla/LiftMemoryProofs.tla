--------------------------- MODULE LiftMemoryProofs ---------------------------
(***************************************************************************)
(* That the provenance the concolic interpreter keeps is never stale, that *)
(* its numbers agree with their expressions, and that what it lifts is     *)
(* what the guest returns: for every base, memory, width of numbers, set   *)
(* of worlds and length of the guest.                                      *)
(***************************************************************************)
EXTENDS LiftMemory, PlanEvalProofs

----------------------------------------------------------------------------
(* What the interpreter keeps. *)

Syms == [Worlds -> Int]
Nums == [Worlds -> Num]

Sources ==
  [kind : {"calldata", "storage", "le"}, len : Nat,
   val : [Worlds -> Seq(Byte)], of : Nums \cup {NoSym}]

Values == [c : Syms, s : Nums \cup {NoSym}, sure : Nat]

Tags == [src : 1 .. Len(srcs), index : Nat]

Types ==
  /\ env \in Envs
  /\ mem \in [Worlds -> [Addrs -> Byte]]
  /\ srcs \in Seq(Sources)
  /\ tags \in [Addrs -> Tags \cup {NoTag}]
  /\ vs \in Seq(Values)

(* What is tagged as the bytes of a number is these bytes.                 *)
NumberSources ==
  \A i \in 1 .. Len(srcs) : srcs[i].kind = "le" =>
    /\ srcs[i].of \in Nums
    /\ \A w \in Worlds : srcs[i].val[w] = LeBytes(srcs[i].of[w], srcs[i].len)

----------------------------------------------------------------------------
(* What holds in a world.  The world of the lift is but one of them: in    *)
(* the others the same holds as long as nothing was different there.       *)

Same(a, b, M) == a % M = b % M

CleanIn(w) ==
  /\ lapses \cap {"key", "width", "high"} = {}
  /\ w = Home \/ "elsewhere" \notin lapses

(* A tagged byte is the byte of its source that the tag names.             *)
Backed(w, b) ==
  tags[b] # NoTag =>
    /\ tags[b].index < Len(srcs[tags[b].src].val[w])
    /\ mem[w][b] = srcs[tags[b].src].val[w][tags[b].index + 1]

AllBacked(w) == \A b \in Addrs : Backed(w, b)

(* A source is as long there as in the world of the lift.                  *)
Measured(w) == \A i \in 1 .. Len(srcs) : Len(srcs[i].val[w]) = srcs[i].len

(* A value agrees with its expression in the bytes that are sure.          *)
Agrees(w, v) == v.s # NoSym => Same(v.s[w], v.c[w], Power(v.sure))
AllAgree(w, stack) == \A i \in 1 .. Len(stack) : Agrees(w, stack[i])

Holds(w) == AllBacked(w) /\ Measured(w) /\ AllAgree(w, vs)

IInv ==
  /\ Types /\ NumberSources
  /\ \A w \in Worlds : CleanIn(w) => Holds(w)
  /\ LiftFaithful

----------------------------------------------------------------------------
(* Numbers and their bytes. *)

LEMMA NumsAreSyms == Nums \subseteq Syms /\ Num \subseteq Nat
BY ModulusAssumption DEF Nums, Syms, Num

----------------------------------------------------------------------------
(* a and b have the same low part. *)

LEMMA Division ==
  ASSUME NEW x \in Int, NEW M \in Nat \ {0}
  PROVE  \E q \in Int : \E r \in 0 .. M - 1 : x \div M = q /\ x % M = r /\ x = M * q + r
<1>1. PICK q, r : q = x \div M /\ r = x % M
  OBVIOUS
<1>2. q \in Int /\ r \in 0 .. M - 1
  BY <1>1
<1>3. x = M * q + r
  BY <1>1, <1>2
<1> QED BY <1>1, <1>2, <1>3

LEMMA Remaining ==
  ASSUME NEW x \in Int, NEW M \in Nat \ {0}, NEW q \in Int, NEW r \in 0 .. M - 1,
         x = M * q + r
  PROVE  x % M = r /\ x \div M = q
OBVIOUS

LEMMA SameBy ==
  ASSUME NEW a \in Int, NEW b \in Int, NEW M \in Nat \ {0}
  PROVE  /\ \A k \in Int : a = b + M * k => Same(a, b, M)
         /\ Same(a, b, M) => \E k \in Int : a = b + M * k
<1>1. PICK q \in Int, r \in 0 .. M - 1 : b % M = r /\ b = M * q + r
  BY Division
<1>2. PICK p \in Int, s \in 0 .. M - 1 : a % M = s /\ a = M * p + s
  BY Division
<1>3. ASSUME NEW k \in Int, a = b + M * k  PROVE Same(a, b, M)
  <2>1. q + k \in Int /\ a = M * (q + k) + r
    BY <1>1, <1>3
  <2>2. a % M = r
    BY <2>1, Remaining
  <2> QED BY <1>1, <2>2 DEF Same
<1>4. ASSUME Same(a, b, M)  PROVE \E k \in Int : a = b + M * k
  <2>1. p - q \in Int /\ a = b + M * (p - q)
    BY <1>1, <1>2, <1>4 DEF Same
  <2> QED BY <2>1
<1> QED BY <1>3, <1>4

LEMMA SameCombined ==
  ASSUME NEW a \in Int, NEW b \in Int, NEW c \in Int, NEW d \in Int, NEW M \in Nat \ {0},
         Same(a, b, M), Same(c, d, M)
  PROVE  Same(a + c, b + d, M) /\ Same(a - c, b - d, M)
<1>1. PICK k \in Int : a = b + M * k
  BY SameBy
<1>2. PICK l \in Int : c = d + M * l
  BY SameBy
<1>3. k + l \in Int /\ a + c = (b + d) + M * (k + l)
      /\ k - l \in Int /\ a - c = (b - d) + M * (k - l)
  BY <1>1, <1>2
<1>4. PICK s \in Int, t \in Int, u \in Int, v \in Int, g \in Int, h \in Int :
         /\ s = a + c /\ t = b + d /\ u = a - c /\ v = b - d
         /\ g = k + l /\ h = k - l
  OBVIOUS
<1>5. s = t + M * g /\ u = v + M * h
  BY <1>3, <1>4
<1>6. Same(s, t, M) /\ Same(u, v, M)
  BY ONLY <1>4, <1>5, SameBy, M \in Nat \ {0}
<1> QED BY <1>4, <1>6

(* M divides N. *)
LEMMA SameBelow ==
  ASSUME NEW a \in Int, NEW b \in Int, NEW M \in Nat \ {0}, NEW N \in Nat \ {0},
         NEW j \in Nat, N = M * j
  PROVE  /\ Same(a, b, N) => Same(a, b, M)
         /\ Same(a % N, a, M)
         /\ Same(a + N, a, M) /\ Same(a - N, a, M)
<1>1. ASSUME NEW x \in Int, NEW y \in Int, NEW k \in Int, x = y + N * k  PROVE Same(x, y, M)
  <2>1. j * k \in Int /\ x = y + M * (j * k)
    BY <1>1
  <2> QED BY <2>1, SameBy
<1>2. Same(a, b, N) => Same(a, b, M)
  BY <1>1, SameBy
<1>3. Same(a % N, a, M)
  <2>1. PICK q \in Int, r \in 0 .. N - 1 : a % N = r /\ a = N * q + r
    BY ONLY Division, a \in Int, N \in Nat \ {0}
  <2>2. r \in Int /\ -q \in Int /\ r = a + N * (-q)
    BY <2>1
  <2> QED BY <1>1, <2>1, <2>2
<1>4. Same(a + N, a, M)
  <2>1. a + N \in Int /\ 1 \in Int /\ a + N = a + N * 1
    OBVIOUS
  <2> QED BY <1>1, <2>1
<1>5. Same(a - N, a, M)
  <2>1. a - N \in Int /\ -1 \in Int /\ a - N = a + N * (-1)
    OBVIOUS
  <2> QED BY <1>1, <2>1
<1> QED BY <1>2, <1>3, <1>4, <1>5

LEMMA PowerDivides ==
  ASSUME NEW m \in Nat, NEW n \in Nat, m <= n
  PROVE  \E j \in Nat : Power(n) = Power(m) * j
<1>1. PICK T : T = {i \in m .. n : \E j \in Nat : Power(i) = Power(m) * j}
  OBVIOUS
<1>2. m \in T
  <2>1. Power(m) \in Nat /\ Power(m) = Power(m) * 1
    BY PowerLaws
  <2> QED BY <1>1, <2>1
<1>3. ASSUME NEW i \in m .. n, m < i, i - 1 \in T  PROVE i \in T
  <2>1. PICK j \in Nat : Power(i - 1) = Power(m) * j
    BY <1>1, <1>3
  <2>2. Power(i) = Power(i - 1) * Base
    <3>1. i \in Nat \ {0}
      BY <1>3
    <3> QED BY <3>1, PowerLaws
  <2>3. Power(m) \in Nat
    BY PowerLaws
  <2>4. j * Base \in Nat /\ Power(i) = Power(m) * (j * Base)
    BY <2>1, <2>2, <2>3, BaseType
  <2> QED BY <1>1, <2>4
<1>4. \A i \in m .. n : i \in T
  BY <1>2, <1>3, Upward
<1> QED BY <1>1, <1>4

(* Numbers alike in n bytes are alike in fewer. *)
LEMMA SamePowers ==
  ASSUME NEW a \in Int, NEW b \in Int, NEW m \in Nat, NEW n \in Nat, m <= n
  PROVE  /\ Same(a, b, Power(n)) => Same(a, b, Power(m))
         /\ Same(a % Power(n), a, Power(m))
         /\ Same(a + Power(n), a, Power(m)) /\ Same(a - Power(n), a, Power(m))
<1>1. PICK M, N : M = Power(m) /\ N = Power(n)
  OBVIOUS
<1>2. M \in Nat \ {0} /\ N \in Nat \ {0}
  BY <1>1, PowerLaws
<1>3. PICK j \in Nat : N = M * j
  BY <1>1, PowerDivides
<1> QED BY <1>1, <1>2, <1>3, SameBelow

----------------------------------------------------------------------------
(* Numbers and their bytes. *)

(* One more byte of a number. *)
LEMMA OneMore ==
  ASSUME NEW x \in Int, NEW i \in Nat \ {0}
  PROVE  x % Power(i) = (x % Power(i - 1)) + ((x \div Power(i - 1)) % Base) * Power(i - 1)
<1>1. PICK M, N : M = Power(i - 1) /\ N = Power(i)
  OBVIOUS
<1>2. M \in Nat \ {0} /\ N \in Nat \ {0} /\ N = M * Base
  BY <1>1, PowerLaws
<1>3. PICK q \in Int, r \in 0 .. M - 1 : x \div M = q /\ x % M = r /\ x = M * q + r
  BY <1>2, Division
<1>4. PICK p \in Int, d \in 0 .. Base - 1 : q % Base = d /\ q = Base * p + d
  BY Division, BaseType
<1>5. d * M \in 0 .. (Base - 1) * M
  BY <1>2, <1>4, BaseType
<1>6. r + d * M \in 0 .. N - 1
  BY <1>2, <1>3, <1>5, BaseType
<1>7. x = N * p + (r + d * M)
  BY <1>2, <1>3, <1>4, BaseType
<1>8. x % N = r + d * M
  BY <1>2, <1>6, <1>7, Remaining
<1> QED BY <1>1, <1>3, <1>4, <1>8

LEMMA ReadsBack ==
  ASSUME NEW x \in Int, NEW n \in Nat
  PROVE  FromLe(LeBytes(x, n)) = x % Power(n)
<1>1. PICK b, sum : b = LeBytes(x, n) /\ sum = Sums(b)
  OBVIOUS
<1>2. b \in Seq(Byte) /\ Len(b) = n
      /\ \A i \in 1 .. n : b[i] = (x \div Power(i - 1)) % Base
  BY <1>1, LeType
<1>3. sum[0] = 0 /\ \A i \in 1 .. n : sum[i] = sum[i - 1] + b[i] * Power(i - 1)
  BY <1>1, <1>2, SumsUnfold
<1>4. PICK T : T = {i \in 0 .. n : sum[i] = x % Power(i)}
  OBVIOUS
<1>5. 0 \in T
  <2>1. x % 1 = 0
    OBVIOUS
  <2> QED BY <1>3, <1>4, <2>1, PowerLaws
<1>6. ASSUME NEW i \in 0 .. n, 0 < i, i - 1 \in T  PROVE i \in T
  <2>1. i \in 1 .. n /\ i \in Nat \ {0} /\ sum[i - 1] = x % Power(i - 1)
    BY <1>4, <1>6
  <2>2. sum[i] = (x % Power(i - 1)) + ((x \div Power(i - 1)) % Base) * Power(i - 1)
    BY <1>2, <1>3, <2>1
  <2> QED BY <1>4, <2>1, <2>2, OneMore
<1>7. \A i \in 0 .. n : i \in T
  BY <1>5, <1>6, Upward
<1>8. sum[n] = x % Power(n)
  BY <1>4, <1>7
<1> QED BY <1>1, <1>2, <1>8, SumsUnfold

(* The low bytes of a longer value are those of a number read from fewer.  *)
LEMMA ReadsBeginning ==
  ASSUME NEW v \in Seq(Byte), NEW b \in Seq(Byte), Len(b) <= Len(v),
         \A i \in 1 .. Len(b) : b[i] = v[i]
  PROVE  Same(FromLe(v), FromLe(b), Power(Len(b))) /\ FromLe(v) \in Int /\ FromLe(b) \in Int
<1>1. PICK m, n \in Nat : m = Len(b) /\ n = Len(v)
  OBVIOUS
<1>2. PICK f, g : f = Sums(b) /\ g = Sums(v)
  OBVIOUS
<1>3. /\ f \in [0 .. m -> Int] /\ f[0] = 0
      /\ \A i \in 1 .. m : f[i] = f[i - 1] + b[i] * Power(i - 1)
  BY <1>1, <1>2, SumsUnfold
<1>4. /\ g \in [0 .. n -> Int] /\ g[0] = 0
      /\ \A i \in 1 .. n : g[i] = g[i - 1] + v[i] * Power(i - 1)
  BY <1>1, <1>2, SumsUnfold
<1>5. f[m] = g[m]
  <2>1. PICK T : T = {i \in 0 .. m : f[i] = g[i]}
    OBVIOUS
  <2>2. 0 \in T
    BY <1>3, <1>4, <2>1
  <2>3. ASSUME NEW i \in 0 .. m, 0 < i, i - 1 \in T  PROVE i \in T
    <3>1. i \in 1 .. m /\ i \in 1 .. n /\ b[i] = v[i] /\ f[i - 1] = g[i - 1]
      BY <1>1, <2>1, <2>3
    <3> QED BY <1>3, <1>4, <2>1, <3>1
  <2>4. \A i \in 0 .. m : i \in T
    BY <2>2, <2>3, Upward
  <2> QED BY <2>1, <2>4
<1>6. Same(g[n], g[m], Power(m))
  <2>1. PICK T : T = {i \in m .. n : Same(g[i], g[m], Power(m))}
    OBVIOUS
  <2>2. m \in T
    BY <1>1, <2>1 DEF Same
  <2>3. ASSUME NEW i \in m .. n, m < i, i - 1 \in T  PROVE i \in T
    <3>1. i \in 1 .. n /\ i - 1 \in Nat /\ m <= i - 1 /\ i - 1 \in 0 .. n /\ m \in 0 .. n
      BY <2>3
    <3>2. PICK M : M = Power(m)
      OBVIOUS
    <3>3. M \in Nat \ {0}
      BY <3>2, PowerLaws
    <3>4. PICK j \in Nat : Power(i - 1) = M * j
      BY <3>1, <3>2, PowerDivides
    <3>5. v[i] \in Int
      BY <1>1, <3>1, BaseType DEF Byte
    <3>6. g[i - 1] \in Int /\ g[i] \in Int /\ g[m] \in Int
      BY <1>4, <3>1
    <3>7. PICK x \in Int, y \in Int, z \in Int : x = v[i] /\ y = g[i - 1] /\ z = g[i]
      BY <3>5, <3>6
    <3>8. z = y + x * (M * j)
      BY <1>4, <3>1, <3>4, <3>7
    <3>10. PICK k \in Int : k = x * j
      OBVIOUS
    <3>11. x * (M * j) = M * (x * j)
      BY ONLY x \in Int, M \in Nat \ {0}, j \in Nat
    <3>12. z = y + M * k
      BY <3>8, <3>10, <3>11
    <3>13. Same(z, y, M)
      BY ONLY <3>12, <3>3, SameBy, z \in Int, y \in Int, k \in Int
    <3>9. Same(g[i - 1], g[m], M)
      BY <2>1, <2>3, <3>2
    <3> QED BY <2>1, <3>2, <3>7, <3>13, <3>9 DEF Same
  <2>4. \A i \in m .. n : i \in T
    BY <1>1, <2>2, <2>3, Upward
  <2>5. n \in m .. n
    BY <1>1
  <2> QED BY <2>1, <2>4, <2>5
<1>7. FromLe(b) = f[m] /\ FromLe(v) = g[n]
  BY <1>1, <1>2, SumsUnfold
<1>8. f[m] \in Int /\ g[n] \in Int
  BY <1>3, <1>4
<1> QED BY <1>1, <1>5, <1>6, <1>7, <1>8

(* Numbers alike in n bytes have the same n bytes. *)
LEMMA SameBytes ==
  ASSUME NEW x \in Int, NEW y \in Int, NEW n \in Nat, Same(x, y, Power(n))
  PROVE  LeBytes(x, n) = LeBytes(y, n)
<1>1. ASSUME NEW i \in 1 .. n
      PROVE  (x \div Power(i - 1)) % Base = (y \div Power(i - 1)) % Base
  <2>1. PICK M, d, e : /\ M = Power(i - 1) /\ d = (x \div Power(i - 1)) % Base
                       /\ e = (y \div Power(i - 1)) % Base
    OBVIOUS
  <2>2. M \in Nat \ {0} /\ i \in Nat \ {0} /\ i - 1 \in Nat
    BY <2>1, PowerLaws
  <2>3. x % Power(i) = (x % M) + d * M /\ y % Power(i) = (y % M) + e * M
    BY <2>1, <2>2, OneMore
  <2>4. Same(x, y, Power(i)) /\ Same(x, y, M)
    <3>1. i <= n /\ i \in Nat /\ i - 1 <= n
      BY <2>2
    <3>2. Same(x, y, Power(i))
      BY ONLY <3>1, SamePowers, x \in Int, y \in Int, n \in Nat, Same(x, y, Power(n))
    <3>3. Same(x, y, Power(i - 1))
      BY ONLY <3>1, <2>2, SamePowers, x \in Int, y \in Int, n \in Nat, Same(x, y, Power(n))
    <3> QED BY <2>1, <3>2, <3>3
  <2>5. d \in Int /\ e \in Int /\ x % M \in Int /\ y % M \in Int
    BY <2>1, <2>2, BaseType
  <2>6. d * M = e * M
    <3>1. x % Power(i) = y % Power(i) /\ x % M = y % M
      BY <2>4 DEF Same
    <3>2. PICK r \in Int : r = x % M
      BY <2>5
    <3>3. PICK f \in Int, g \in Int : f = d * M /\ g = e * M
      BY <2>2, <2>5
    <3>4. r + f = r + g
      BY <2>3, <3>1, <3>2, <3>3
    <3>5. f = g
      BY <3>2, <3>3, <3>4
    <3> QED BY <3>3, <3>5
  <2>7. d = e
    BY <2>2, <2>5, <2>6
  <2> QED BY <2>1, <2>7
<1> QED BY <1>1 DEF LeBytes

LEMMA LeastOf ==
  ASSUME NEW S \in SUBSET Nat, S # {}
  PROVE  Min(S) \in S /\ \A y \in S : Min(S) <= y
BY Smallest DEF Min

LEMMA ULeType ==
  ASSUME NEW b \in Seq(Byte)
  PROVE  FromLe(b) \in Int
BY ReadsBeginning

(* Spreading the highest bit of n bytes keeps these bytes.                 *)
LEMMA Extended ==
  ASSUME NEW c \in Int, NEW n \in Nat, n <= Int64
  PROVE  SignExtend(c, n) \in Int /\ Same(SignExtend(c, n), c, Power(n))
<1>1. PICK P, Q : P = Power(n) /\ Q = Power(Int64)
  OBVIOUS
<1>2. Int64 \in Nat /\ n \in Nat
  BY SizeAssumption
<1>3. P \in Int /\ Q \in Int
  BY <1>1, <1>2, PowerLaws
<1>4. Same(c, c, Power(n))
  BY DEF Same
<1>5. PICK e \in Int : e = c + Q
  BY <1>3
<1>6. Same(e, c, P)
  BY <1>1, <1>2, <1>5, SamePowers
<1>7. PICK f \in Int : f = e - P
  BY <1>3
<1>10. Same(f, e, P)
  <2>1. Same(e - Power(n), e, Power(n))
    BY <1>2, SamePowers
  <2> QED BY <1>1, <1>7, <2>1
<1>8. Same(f, c, P)
  BY <1>6, <1>10 DEF Same
<1>9. SignExtend(c, n) = c \/ SignExtend(c, n) = f
  BY <1>1, <1>3, <1>5, <1>7 DEF SignExtend
<1> QED BY <1>1, <1>4, <1>8, <1>9

----------------------------------------------------------------------------
(* Memory *)

LEMMA Spans ==
  ASSUME NEW a \in Addrs, NEW n \in Nat, InMemory(a, n)
  PROVE  /\ MemLen \in Nat /\ a \in Nat
         /\ \A b \in Span(a, n) : b \in Addrs /\ b - a + 1 \in 1 .. n /\ b - a \in Nat
         /\ \A i \in 1 .. n : a + i - 1 \in Span(a, n) /\ a + i - 1 \in Addrs
BY SizeAssumption DEF InMemory, Span, Addrs

LEMMA BytesType ==
  ASSUME Types, NEW a \in Addrs, NEW n \in Nat, InMemory(a, n), NEW w \in Worlds
  PROVE  /\ BytesAt(w, a, n) \in Seq(Byte) /\ Len(BytesAt(w, a, n)) = n
         /\ \A i \in 1 .. n : BytesAt(w, a, n)[i] = mem[w][a + i - 1]
<1>1. \A i \in 1 .. n : mem[w][a + i - 1] \in Byte
  BY Spans DEF Types
<1>2. BytesAt(w, a, n) \in [1 .. n -> Byte]
  BY <1>1 DEF BytesAt
<1> QED BY <1>2 DEF BytesAt

(* The bytes that are to be written somewhere, one string per world.       *)
Strings(n) == {data \in [Worlds -> Seq(Byte)] : \A w \in Worlds : Len(data[w]) = n}

(* What write_mem leaves in memory.                                        *)
LEMMA Written ==
  ASSUME Types, NEW a \in Addrs, NEW n \in Nat, InMemory(a, n),
         NEW data \in Strings(n), Write(a, n, data)
  PROVE  /\ mem' \in [Worlds -> [Addrs -> Byte]]
         /\ \A w \in Worlds, b \in Addrs :
              mem'[w][b] = IF b \in Span(a, n) THEN data[w][b - a + 1] ELSE mem[w][b]
<1>1. ASSUME NEW w \in Worlds, NEW b \in Addrs
      PROVE  (IF b \in Span(a, n) THEN data[w][b - a + 1] ELSE mem[w][b]) \in Byte
  <2>1. CASE b \in Span(a, n)
    <3>1. b - a + 1 \in 1 .. n
      BY <2>1, Spans
    <3>2. data[w] \in Seq(Byte) /\ Len(data[w]) = n
      BY DEF Strings
    <3>3. data[w][b - a + 1] \in Byte
      BY <3>1, <3>2
    <3> QED BY <2>1, <3>3
  <2>2. CASE b \notin Span(a, n)
    BY <2>2 DEF Types
  <2> QED BY <2>1, <2>2
<1> QED BY <1>1 DEF Write

----------------------------------------------------------------------------
(* Tags *)

(* Sources are only added.                                                 *)
Kept == Len(srcs) <= Len(srcs') /\ \A i \in 1 .. Len(srcs) : srcs'[i] = srcs[i]

LEMMA TagKept ==
  ASSUME Types, Types', Kept, NEW b \in Addrs, tags'[b] = tags[b], NEW w \in Worlds
  PROVE  /\ Backed(w, b) /\ mem'[w][b] = mem[w][b] => Backed(w, b)'
         /\ tags[b] # NoTag => srcs'[tags[b].src] = srcs[tags[b].src]
<1>1. ASSUME tags[b] # NoTag  PROVE srcs'[tags[b].src] = srcs[tags[b].src]
  <2>1. tags[b] \in Tags
    BY <1>1 DEF Types
  <2>2. tags[b].src \in 1 .. Len(srcs)
    BY <2>1 DEF Tags
  <2> QED BY <2>2 DEF Kept
<1>2. ASSUME Backed(w, b), mem'[w][b] = mem[w][b]  PROVE Backed(w, b)'
  <2>1. SUFFICES ASSUME tags[b] # NoTag
                 PROVE  /\ tags[b].index < Len(srcs'[tags[b].src].val[w])
                        /\ mem'[w][b] = srcs'[tags[b].src].val[w][tags[b].index + 1]
    BY DEF Backed
  <2>2. srcs'[tags[b].src] = srcs[tags[b].src]
    BY <1>1, <2>1
  <2>3. /\ tags[b].index < Len(srcs[tags[b].src].val[w])
        /\ mem[w][b] = srcs[tags[b].src].val[w][tags[b].index + 1]
    BY <1>2, <2>1 DEF Backed
  <2> QED BY <1>2, <2>2, <2>3
<1> QED BY <1>1, <1>2

(* The tags that were there are tags among more sources.                   *)
LEMMA TagsStay ==
  ASSUME Types, Len(srcs) \in Nat, Len(srcs') \in Nat, Kept, NEW b \in Addrs
  PROVE  tags[b] \in Tags' \cup {NoTag}
<1>1. 1 .. Len(srcs) \subseteq 1 .. Len(srcs')
  BY DEF Kept
<1>2. Tags \subseteq Tags'
  BY <1>1 DEF Tags
<1> QED BY <1>2 DEF Types

(* What a source of its own says of a number is these bytes of it.         *)
Told(s) ==
  s.kind = "le" =>
    /\ s.of \in Nums
    /\ \A w \in Worlds : s.val[w] = LeBytes(s.of[w], s.len)

LEMMA SourceAdded ==
  ASSUME Types, NumberSources, NEW s \in Sources, Told(s), NewSource(s)
  PROVE  /\ srcs' \in Seq(Sources) /\ Kept /\ NumberSources'
         /\ Len(srcs) \in Nat /\ Len(srcs') = Len(srcs) + 1 /\ srcs'[NewId] = s
         /\ \A w \in Worlds : Measured(w) /\ Len(s.val[w]) = s.len => Measured(w)'
<1>1. /\ srcs' \in Seq(Sources) /\ Len(srcs') = Len(srcs) + 1 /\ Len(srcs) \in Nat
      /\ \A i \in 1 .. Len(srcs) : srcs'[i] = srcs[i]
      /\ srcs'[Len(srcs) + 1] = s
  BY DEF Types, NewSource
<1>2. ASSUME NEW i \in 1 .. Len(srcs'), srcs'[i].kind = "le"
      PROVE  /\ srcs'[i].of \in Nums
             /\ \A w \in Worlds : srcs'[i].val[w] = LeBytes(srcs'[i].of[w], srcs'[i].len)
  <2>1. CASE i \in 1 .. Len(srcs)
    BY <1>1, <1>2, <2>1 DEF NumberSources
  <2>2. CASE i \notin 1 .. Len(srcs)
    <3>1. srcs'[i] = s
      BY <1>1, <2>2
    <3> QED BY <1>2, <3>1 DEF Told
  <2> QED BY <2>1, <2>2
<1>3. ASSUME NEW w \in Worlds, Measured(w), Len(s.val[w]) = s.len, NEW i \in 1 .. Len(srcs')
      PROVE  Len(srcs'[i].val[w]) = srcs'[i].len
  <2>1. CASE i \in 1 .. Len(srcs)
    BY <1>1, <1>3, <2>1 DEF Measured
  <2>2. CASE i \notin 1 .. Len(srcs)
    <3>1. srcs'[i] = s
      BY <1>1, <2>2
    <3> QED BY <1>3, <3>1
  <2> QED BY <2>1, <2>2
<1> QED BY <1>1, <1>2, <1>3 DEF Kept, NumberSources, Measured, NewId

(* tag_bytes of what was just written from a source that starts so.        *)
LEMMA Tagged ==
  ASSUME Types, NumberSources, NEW a \in Addrs, NEW n \in Nat, InMemory(a, n),
         NEW data \in Strings(n), Write(a, n, data),
         NEW s \in Sources, Told(s), NewSource(s), TagAs(a, n, NewId), vs' \in Seq(Values),
         env' = env
  PROVE  /\ Types' /\ NumberSources'
         /\ \A w \in Worlds :
              s.val[w] = data[w] /\ s.len = n /\ AllBacked(w) /\ Measured(w)
                => AllBacked(w)' /\ Measured(w)'
<1>1. /\ srcs' \in Seq(Sources) /\ Kept /\ NumberSources'
      /\ Len(srcs) \in Nat /\ Len(srcs') = Len(srcs) + 1 /\ srcs'[NewId] = s
      /\ \A w \in Worlds : Measured(w) /\ Len(s.val[w]) = s.len => Measured(w)'
  BY SourceAdded
<1>2. /\ mem' \in [Worlds -> [Addrs -> Byte]]
      /\ \A w \in Worlds, b \in Addrs :
           mem'[w][b] = IF b \in Span(a, n) THEN data[w][b - a + 1] ELSE mem[w][b]
  BY Written
<1>3. ASSUME NEW b \in Span(a, n)
      PROVE  [src |-> NewId, index |-> b - a] \in Tags'
  <2>1. b - a \in Nat /\ NewId \in 1 .. Len(srcs')
    BY <1>1, <1>3, Spans DEF NewId
  <2> QED BY <2>1 DEF Tags
<1>4. tags' \in [Addrs -> Tags' \cup {NoTag}]
  <2>1. Len(srcs') \in Nat
    BY <1>1
  <2>2. \A b \in Addrs : tags[b] \in Tags' \cup {NoTag}
    BY <1>1, <2>1, TagsStay
  <2> QED BY <1>3, <2>2 DEF TagAs
<1>5. Types'
  BY <1>1, <1>2, <1>4 DEF Types
<1>6. ASSUME NEW w \in Worlds, s.val[w] = data[w], NEW b \in Addrs, Backed(w, b)
      PROVE  Backed(w, b)'
  <2>1. CASE b \in Span(a, n)
    <3>1. tags'[b] = [src |-> NewId, index |-> b - a]
      BY <2>1 DEF TagAs
    <3>2. Len(data[w]) = n
      BY DEF Strings
    <3>3. b - a < n
      BY <2>1, Spans
    <3>4. mem'[w][b] = data[w][b - a + 1]
      BY <1>2, <2>1, <3>2
    <3> QED BY <1>1, <1>6, <3>1, <3>2, <3>3, <3>4 DEF Backed
  <2>2. CASE b \notin Span(a, n)
    <3>1. tags'[b] = tags[b]
      BY <2>2 DEF TagAs
    <3>2. mem'[w][b] = mem[w][b]
      BY <1>2, <2>2
    <3> QED BY <1>1, <1>5, <1>6, <3>1, <3>2, TagKept
  <2> QED BY <2>1, <2>2
<1>7. ASSUME NEW w \in Worlds, s.val[w] = data[w], s.len = n, Measured(w)
      PROVE  Measured(w)'
  <2>1. Len(s.val[w]) = s.len
    BY <1>7 DEF Strings
  <2> QED BY <1>1, <1>7, <2>1
<1> QED BY <1>1, <1>5, <1>6, <1>7 DEF AllBacked

(* What is written without a tag forgets the tags that were there.         *)
LEMMA Cleared ==
  ASSUME Types, NumberSources, NEW a \in Addrs, NEW n \in Nat, InMemory(a, n),
         NEW data \in Strings(n), Write(a, n, data), Clear(a, n), UNCHANGED <<env, srcs>>,
         vs' \in Seq(Values)
  PROVE  /\ Types' /\ NumberSources'
         /\ \A w \in Worlds :
              AllBacked(w) /\ Measured(w) => AllBacked(w)' /\ Measured(w)'
<1>1. /\ mem' \in [Worlds -> [Addrs -> Byte]]
      /\ \A w \in Worlds, b \in Addrs :
           mem'[w][b] = IF b \in Span(a, n) THEN data[w][b - a + 1] ELSE mem[w][b]
  BY Written
<1>2. Types'
  BY <1>1 DEF Types, Clear, Tags
<1>3. NumberSources'
  BY DEF NumberSources
<1>4. ASSUME NEW w \in Worlds, NEW b \in Addrs, Backed(w, b)  PROVE Backed(w, b)'
  <2>1. CASE b \in Span(a, n)
    BY <2>1 DEF Clear, Backed
  <2>2. CASE b \notin Span(a, n)
    <3>1. tags'[b] = tags[b] /\ mem'[w][b] = mem[w][b]
      BY <1>1, <2>2 DEF Clear
    <3> QED BY <1>4, <3>1 DEF Backed
  <2> QED BY <2>1, <2>2
<1>5. \A w \in Worlds : Measured(w) => Measured(w)'
  BY DEF Measured
<1> QED BY <1>2, <1>3, <1>4, <1>5 DEF AllBacked

----------------------------------------------------------------------------
(* Numbers on the stack *)

LEMMA Constants ==
  ASSUME NEW c \in Syms
  PROVE  Constant(c) \in Values /\ \A w : Agrees(w, Constant(c))
BY SizeAssumption DEF Constant, Value, Values, Agrees

LEMMA ValueParts ==
  ASSUME NEW c \in Syms, NEW s \in Nums \cup {NoSym}, NEW sure \in Nat
  PROVE  /\ Value(c, s, sure) \in Values /\ Value(c, s, sure).c = c
         /\ Value(c, s, sure).s = s /\ Value(c, s, sure).sure = sure
BY DEF Value, Values

LEMMA Pushed ==
  ASSUME NEW stack \in Seq(Values), NEW v \in Values
  PROVE  /\ Append(stack, v) \in Seq(Values)
         /\ \A w : AllAgree(w, stack) /\ Agrees(w, v) => AllAgree(w, Append(stack, v))
<1>1. PICK t : t = Append(stack, v)
  OBVIOUS
<1>2. /\ t \in Seq(Values) /\ Len(t) = Len(stack) + 1 /\ Len(stack) \in Nat
      /\ \A i \in 1 .. Len(stack) : t[i] = stack[i]
      /\ t[Len(stack) + 1] = v
  BY <1>1
<1>3. ASSUME NEW w, AllAgree(w, stack), Agrees(w, v), NEW i \in 1 .. Len(t)
      PROVE  Agrees(w, t[i])
  <2>1. CASE i \in 1 .. Len(stack)
    <3>1. t[i] = stack[i] /\ Agrees(w, stack[i])
      BY <1>2, <1>3, <2>1 DEF AllAgree
    <3> QED BY <3>1
  <2>2. CASE i \notin 1 .. Len(stack)
    <3>1. t[i] = v
      BY <1>2, <2>2
    <3> QED BY <1>3, <3>1
  <2> QED BY <2>1, <2>2
<1>4. \A w : AllAgree(w, stack) /\ Agrees(w, v) => AllAgree(w, t)
  BY <1>3 DEF AllAgree
<1> QED BY <1>1, <1>2, <1>4

LEMMA Popped ==
  ASSUME vs \in Seq(Values), NEW k \in Nat, k <= Len(vs)
  PROVE  /\ Pop(k) \in Seq(Values)
         /\ \A w : AllAgree(w, vs) => AllAgree(w, Pop(k))
<1>5. Len(vs) \in Nat
  OBVIOUS
<1>1. PICK n \in Nat : n = Len(vs) - k
  BY <1>5
<1>4. PICK t : t = Pop(k)
  OBVIOUS
<1>2. /\ t \in Seq(Values) /\ Len(t) = n
      /\ \A i \in 1 .. n : t[i] = vs[i] /\ i \in 1 .. Len(vs)
  BY <1>1, <1>4 DEF Pop
<1>3. \A w : AllAgree(w, vs) => AllAgree(w, t)
  <2> SUFFICES ASSUME NEW w, AllAgree(w, vs), NEW i \in 1 .. n  PROVE Agrees(w, t[i])
    BY <1>2 DEF AllAgree
  <2>1. t[i] = vs[i] /\ Agrees(w, vs[i])
    BY <1>2 DEF AllAgree
  <2> QED BY <2>1
<1> QED BY <1>2, <1>3, <1>4

(* Products of numbers with the same low part have the same low part.       *)
LEMMA SameScaled ==
  ASSUME NEW a \in Int, NEW b \in Int, NEW c \in Int, NEW M \in Nat \ {0}, Same(a, b, M)
  PROVE  Same(a * c, b * c, M)
<1>1. PICK k \in Int : a = b + M * k
  BY SameBy
<1>2. PICK l \in Int, s \in Int, t \in Int : l = k * c /\ s = a * c /\ t = b * c
  OBVIOUS
<1>3. s = t + M * l
  <2>1. (b + M * k) * c = b * c + M * (k * c)
    OBVIOUS
  <2> QED BY <1>1, <1>2, <2>1
<1>4. Same(s, t, M)
  BY ONLY <1>2, <1>3, SameBy, M \in Nat \ {0}
<1> QED BY <1>2, <1>4

LEMMA SameTimes ==
  ASSUME NEW a \in Int, NEW b \in Int, NEW c \in Int, NEW d \in Int, NEW M \in Nat \ {0},
         Same(a, b, M), Same(c, d, M)
  PROVE  Same(a * c, b * d, M)
<1>1. Same(a * c, b * c, M)
  BY SameScaled
<1>2. Same(c * b, d * b, M)
  BY SameScaled
<1>3. c * b = b * c /\ d * b = b * d
  OBVIOUS
<1> QED BY <1>1, <1>2, <1>3 DEF Same

(* A plan's numbers, and the guest's: no wider.                            *)
LEMMA NumLaws ==
  ASSUME NEW n \in Nat, n <= PlanLen
  PROVE  /\ Power(n) \in Nat \ {0} /\ Power(n) <= Modulus
         /\ \A x \in Int : x % Power(n) \in Num
         /\ \A x \in Int : Same(x % Modulus, x, Power(n))
<1>1. PlanLen \in Nat /\ Modulus = Power(PlanLen)
  BY SizeAssumption, PlanAssumption, BaseAssumption, FilledAssumption
<1>2. PICK N \in Nat \ {0}, P \in Nat \ {0} : N = Power(n) /\ P = Modulus
  BY <1>1, PowerLaws
<1>3. PICK j \in Nat : P = N * j
  BY <1>1, <1>2, PowerDivides
<1>4. N <= P
  <2>1. j # 0
    BY <1>2, <1>3
  <2> QED BY <1>2, <1>3, <2>1
<1>5. ASSUME NEW x \in Int  PROVE x % N \in 0 .. P - 1
  <2>1. x % N \in 0 .. N - 1
    BY <1>2
  <2> QED BY <1>2, <1>4, <2>1
<1>6. \A x \in Int : Same(x % Power(PlanLen), x, Power(n))
  BY <1>1, SamePowers
<1> QED BY <1>1, <1>2, <1>4, <1>5, <1>6 DEF Num

(* Operators whose low bytes are those of their operands'.                 *)
LEMMA RingAgrees ==
  ASSUME NEW op \in {"add", "sub", "mul"}, NEW n \in Nat, n <= PlanLen,
         NEW xs \in Num, NEW xc \in Num, NEW ys \in Num, NEW yc \in Num,
         Same(xs, xc, Power(n)), Same(ys, yc, Power(n))
  PROVE  Same(Apply(op, xs, ys), Apply(op, xc, yc), Power(n))
<1>1. PICK M \in Nat \ {0} : M = Power(n)
  BY NumLaws
<1>2. xs \in Int /\ xc \in Int /\ ys \in Int /\ yc \in Int
  BY NumsAreSyms
<1>3. /\ Same(xs + ys, xc + yc, M) /\ Same(xs - ys, xc - yc, M)
      /\ Same(xs * ys, xc * yc, M)
  BY <1>1, <1>2, SameCombined, SameTimes
<1>4. PICK s \in Int, t \in Int :
        /\ Same(s, t, M)
        /\ Apply(op, xs, ys) = s % Modulus /\ Apply(op, xc, yc) = t % Modulus
  <2>1. CASE op = "add"
    BY <1>2, <1>3, <2>1 DEF Apply
  <2>2. CASE op = "sub"
    BY <1>2, <1>3, <2>2 DEF Apply
  <2>3. CASE op = "mul"
    BY <1>2, <1>3, <2>3 DEF Apply
  <2> QED BY <2>1, <2>2, <2>3
<1>5. Same(s % Modulus, s, M) /\ Same(t % Modulus, t, M)
  BY <1>1, NumLaws
<1> QED BY <1>1, <1>4, <1>5 DEF Same

LEMMA ShiftAgrees ==
  ASSUME NEW n \in Nat, n <= PlanLen, NEW xs \in Num, NEW xc \in Num, NEW y \in Num,
         Same(xs, xc, Power(n))
  PROVE  Same(Apply("shl", xs, y), Apply("shl", xc, y), Power(n))
<1>1. CASE y >= NumBits
  BY <1>1 DEF Apply, Same
<1>2. CASE ~(y >= NumBits)
  <2>1. PICK M \in Nat \ {0}, p \in Int : M = Power(n) /\ p = Pow2[y]
    <3>1. y < NumBits
      BY <1>2, NumsAreSyms, ModulusAssumption
    <3> QED BY <3>1, PowerType, NumLaws
  <2>2. xs \in Int /\ xc \in Int
    BY NumsAreSyms
  <2>3. PICK s \in Int, t \in Int : s = xs * p /\ t = xc * p
    BY <2>2
  <2>4. Same(s, t, M)
    BY <2>1, <2>2, <2>3, SameScaled
  <2>5. Same(s % Modulus, s, M) /\ Same(t % Modulus, t, M)
    BY <2>1, NumLaws
  <2>6. Apply("shl", xs, y) = s % Modulus /\ Apply("shl", xc, y) = t % Modulus
    BY <1>2, <2>1, <2>3 DEF Apply
  <2> QED BY <2>1, <2>4, <2>5, <2>6 DEF Same
<1> QED BY <1>1, <1>2

LEMMA BitsAgree ==
  ASSUME NEW op \in {"and", "or", "xor"}, NEW n \in Nat, n <= PlanLen,
         NEW xs \in Num, NEW xc \in Num, NEW ys \in Num, NEW yc \in Num,
         Same(xs, xc, Power(n)), Same(ys, yc, Power(n))
  PROVE  Same(Apply(op, xs, ys), Apply(op, xc, yc), Power(n))
<1>1. PICK f \in {BitAnd, BitOr, BitXor} : \A x, y : Apply(op, x, y) = f[x][y]
  BY DEF Apply
<1>2. n \in 0 .. PlanLen
  BY SizeAssumption
<1>3. /\ f[xs][ys] % Power(n) = f[xs % Power(n)][ys % Power(n)]
      /\ f[xc][yc] % Power(n) = f[xc % Power(n)][yc % Power(n)]
  BY <1>2, PlanAssumption
<1> QED BY <1>1, <1>3 DEF Same

(* Only a division fails. *)
LEMMA AppliesTo ==
  ASSUME NEW op \in BinaryOps \ WholeLeft, NEW x \in Num, NEW y \in Num
  PROVE  Apply(op, x, y) \in Num /\ Apply(op, x, y) # Err
<1>1. CASE op = "shl"
  <2>1. x \in Nat /\ 0 \in Num
    BY ModulusAssumption, NumsAreSyms DEF Num
  <2>2. ASSUME ~(y >= NumBits)  PROVE Apply(op, x, y) \in Num
    <3>1. y < NumBits
      BY <2>2, NumsAreSyms, ModulusAssumption
    <3>2. PICK p \in Int : p = Pow2[y]
      BY <3>1, PowerType
    <3>3. PICK s \in Int : s = x * p
      BY <2>1
    <3> QED BY <1>1, <2>2, <3>2, <3>3, Remainder DEF Apply
  <2>3. ASSUME y >= NumBits  PROVE Apply(op, x, y) \in Num
    BY <1>1, <2>1, <2>3 DEF Apply
  <2> QED BY <2>2, <2>3, ErrAssumption
<1>2. CASE op \in {"add", "sub", "mul"}
  <2>1. x + y \in Int /\ x - y \in Int /\ x * y \in Int
    BY NumsAreSyms
  <2>2. (x + y) % Modulus \in Num /\ (x - y) % Modulus \in Num /\ (x * y) % Modulus \in Num
    BY <2>1, Remainder
  <2> QED BY <1>2, <2>2, ErrAssumption DEF Apply
<1>3. CASE op \in {"and", "or", "xor"}
  <2>1. PICK f \in {BitAnd, BitOr, BitXor} : Apply(op, x, y) = f[x][y]
    BY <1>3 DEF Apply
  <2>2. f \in [Num -> [Num -> Num]]
    BY BitAssumption
  <2>3. f[x][y] \in Num
    BY <2>2
  <2> QED BY <2>1, <2>3, ErrAssumption
<1> QED BY <1>1, <1>2, <1>3 DEF BinaryOps, WholeLeft

LEMMA OutcomeType ==
  ASSUME NEW op \in BinaryOps, NEW x \in Num, NEW y \in Num
  PROVE  Outcome(op, x, y) \in Num
<1>1. 0 \in Num
  BY ModulusAssumption DEF Num
<1> QED BY <1>1, ApplyType DEF Outcome

(* What the plan computes agrees with what the guest computes in as many   *)
(* bytes as the operands do, where an operator that depends on all of an   *)
(* operand has the guest's.                                                *)
LEMMA OutcomeAgrees ==
  ASSUME NEW op \in BinaryOps, NEW n \in Nat, n <= PlanLen,
         NEW xs \in Num, NEW xc \in Num, NEW ys \in Num, NEW yc \in Num,
         IF op \in WholeLeft  THEN xs = xc ELSE Same(xs, xc, Power(n)),
         IF op \in WholeRight THEN ys = yc ELSE Same(ys, yc, Power(n))
  PROVE  Same(Outcome(op, xs, ys), Outcome(op, xc, yc), Power(n))
<1>1. CASE op \in WholeLeft
  BY <1>1 DEF WholeLeft, WholeRight, Same
<1>2. ASSUME op \notin WholeLeft
      PROVE  /\ Outcome(op, xs, ys) = Apply(op, xs, ys)
             /\ Outcome(op, xc, yc) = Apply(op, xc, yc)
  <2>1. Apply(op, xs, ys) # Err /\ Apply(op, xc, yc) # Err
    BY <1>2, AppliesTo
  <2> QED BY <2>1 DEF Outcome
<1>3. CASE op = "shl"
  BY <1>2, <1>3, ShiftAgrees DEF WholeLeft, WholeRight
<1>4. CASE op \in {"add", "sub", "mul"}
  BY <1>2, <1>4, RingAgrees DEF WholeLeft, WholeRight
<1>5. CASE op \in {"and", "or", "xor"}
  BY <1>2, <1>5, BitsAgree DEF WholeLeft, WholeRight
<1> QED BY <1>1, <1>3, <1>4, <1>5 DEF BinaryOps, WholeLeft

(* An operand and what it stands for in the plan.                          *)
LEMMA AsSymType ==
  ASSUME NEW v \in Values, NEW n \in Nat, n <= PlanLen
  PROVE  AsSym(v, n) \in Nums
<1>1. v.c \in Syms /\ Home \in Worlds /\ (v.s # NoSym => v.s \in Nums)
  BY SizeAssumption DEF Values
<1>2. v.c[Home] % Power(n) \in Num
  BY <1>1, NumLaws DEF Syms
<1> QED BY <1>1, <1>2 DEF AsSym, Nums

LEMMA AsSymAgrees ==
  ASSUME NEW v \in Values, NEW n \in Nat, NEW m \in Nat, m <= n, m <= v.sure,
         NEW w \in Worlds, Agrees(w, v), v.s = NoSym => v.c[w] = v.c[Home]
  PROVE  Same(AsSym(v, n)[w], v.c[w], Power(m))
<1>1. /\ v.c \in Syms /\ v.sure \in Nat /\ Home \in Worlds
      /\ v.s # NoSym => v.s \in Nums
  BY SizeAssumption DEF Values
<1>2. CASE v.s # NoSym
  <2>1. Same(v.s[w], v.c[w], Power(v.sure))
    BY <1>2 DEF Agrees
  <2>2. v.s[w] \in Int /\ v.c[w] \in Int
    BY <1>1, <1>2, NumsAreSyms DEF Syms
  <2>3. Same(v.s[w], v.c[w], Power(m))
    BY <1>1, <2>1, <2>2, SamePowers
  <2> QED BY <1>2, <2>3 DEF AsSym
<1>3. CASE v.s = NoSym
  <2>1. PICK c \in Int : c = v.c[Home] /\ c = v.c[w]
    BY <1>1, <1>3 DEF Syms
  <2>2. Same(c % Power(n), c, Power(m))
    BY SamePowers
  <2>3. AsSym(v, n)[w] = c % Power(n)
    BY <1>1, <1>3, <2>1 DEF AsSym
  <2> QED BY <2>1, <2>2, <2>3
<1> QED BY <1>2, <1>3

(* The operands of the guest, which take the place of the numbers.          *)
LEMMA GuestOperands ==
  ASSUME NEW v \in Values, NEW n \in Nat \ {0}, n <= PlanLen, NEW w \in Worlds, NEW op
  PROVE  /\ Left(v, n, w) \in Num /\ Right(op, v, n, w) \in Num
         /\ Same(Left(v, n, w), v.c[w], Power(n))
         /\ op \notin WholeRight => Same(Right(op, v, n, w), v.c[w], Power(n))
<1>1. PICK x \in Int : x = v.c[w]
  BY DEF Values, Syms
<1>2. x % Power(n) \in Num /\ Same(x % Power(n), x, Power(n))
  <2>1. Same(x % Power(n), x, Power(n))
    BY SamePowers
  <2> QED BY <2>1, NumLaws
<1>3. x % Bits(n) \in Num
  <2>1. PICK k \in Nat \ {0} : k = ByteBits
    BY SizeAssumption
  <2>2. PICK b \in Nat \ {0} : b = n * k
    OBVIOUS
  <2>3. b <= Modulus
    <3>1. PICK p \in Nat : p = PlanLen
      BY SizeAssumption, BaseAssumption
    <3>2. n * k <= p * k
      BY <3>1
    <3>3. p * k <= Modulus
      BY <2>1, <3>1, PlanAssumption DEF Bits
    <3> QED BY <2>2, <3>1, <3>2, <3>3, ModulusAssumption
  <2>4. x % b \in 0 .. b - 1
    OBVIOUS
  <2>5. x % b \in Num
    BY <2>3, <2>4, ModulusAssumption DEF Num
  <2> QED BY <2>1, <2>2, <2>5 DEF Bits
<1> QED BY <1>1, <1>2, <1>3 DEF Left, Right, WholeRight, WholeLeft

----------------------------------------------------------------------------
(* A number recovered from memory agrees with the bytes it is read from.   *)

LEMMA RecoveredType ==
  ASSUME Types, NumberSources, NEW a \in Addrs, NEW n \in Nat
  PROVE  RecoverNum(a, n) \in Nums \cup {NoSym}
<1>1. CASE tags[a] = NoTag
  BY <1>1 DEF RecoverNum
<1>2. CASE tags[a] # NoTag
  <2>1. PICK k \in 1 .. Len(srcs) : k = tags[a].src
    BY <1>2 DEF Types, Tags
  <2>2. PICK s \in Sources : s = srcs[k]
    BY DEF Types
  <2>3. s.kind = "le" => s.of \in Nums
    BY <2>2 DEF NumberSources
  <2>4. [w \in Worlds |-> Read(s.val[w])] \in Nums
    <3>1. ASSUME NEW w \in Worlds  PROVE Read(s.val[w]) \in Num
      <4>1. PICK x \in Int : x = FromLe(s.val[w])
        BY ULeType DEF Sources
      <4> QED BY <4>1, Remainder DEF Read
    <3> QED BY <3>1 DEF Nums
  <2>5. \/ RecoverNum(a, n) = NoSym
        \/ RecoverNum(a, n) = s.of /\ s.kind = "le"
        \/ RecoverNum(a, n) = [w \in Worlds |-> Read(s.val[w])]
    BY <2>1, <2>2 DEF RecoverNum
  <2> QED BY <2>3, <2>4, <2>5
<1> QED BY <1>1, <1>2

LEMMA RecoveredAgrees ==
  ASSUME Types, NumberSources, NEW a \in Addrs, NEW n \in Nat \ {0}, n <= PlanLen,
         InMemory(a, n), NEW w \in Worlds, AllBacked(w), RecoverNum(a, n) # NoSym
  PROVE  Same(RecoverNum(a, n)[w], FromLe(BytesAt(w, a, n)), Power(n))
<1>1. \A b \in Addrs : Backed(w, b)
  BY DEF AllBacked
<1>2. /\ tags[a] # NoTag
      /\ \A j \in 0 .. n - 1 : tags[a + j] = [src |-> tags[a].src, index |-> j]
  BY DEF RecoverNum
<1>3. PICK k \in 1 .. Len(srcs) : k = tags[a].src
  BY <1>2 DEF Types, Tags
<1>4. PICK s \in Sources : s = srcs[k]
  BY DEF Types
<1>5. PICK v \in Seq(Byte) : v = s.val[w]
  BY <1>1 DEF Sources
<1>6. PICK b \in Seq(Byte) :
        /\ b = BytesAt(w, a, n) /\ Len(b) = n
        /\ \A i \in 1 .. n : b[i] = mem[w][a + i - 1]
  BY <1>1, BytesType
<1>7. ASSUME NEW i \in 1 .. n  PROVE i <= Len(v) /\ b[i] = v[i]
  <2>1. PICK j \in 0 .. n - 1 : j = i - 1
    OBVIOUS
  <2>2. PICK x \in Addrs : x = a + i - 1
    BY Spans
  <2>3. x = a + j /\ j + 1 = i
    BY <2>1, <2>2, Spans
  <2>4. tags[x] = [src |-> k, index |-> j]
    BY <1>2, <1>3, <2>3
  <2>5. [src |-> k, index |-> j] \in [src : Nat, index : Nat]
    OBVIOUS
  <2>6. tags[x] # NoTag
    BY <2>4, <2>5, NoTagAssumption
  <2>7. j < Len(v) /\ mem[w][x] = v[j + 1]
    BY <1>1, <1>4, <1>5, <2>4, <2>6 DEF Backed
  <2>8. b[i] = mem[w][x]
    BY <1>6, <2>2
  <2> QED BY <2>3, <2>7, <2>8
<1>8. n <= Len(v)
  BY <1>7
<1>9. CASE s.kind = "le" /\ s.len = n
  <2>1. s.of \in Nums /\ v = LeBytes(s.of[w], n)
    BY <1>1, <1>4, <1>5, <1>9 DEF NumberSources
  <2>2. PICK x \in Int : x = s.of[w]
    BY <1>1, <2>1, NumsAreSyms DEF Syms
  <2>3. Len(v) = n
    BY <2>1, <2>2, LeType
  <2>4. b = v
    BY <1>6, <1>7, <2>3, SeqEqual
  <2>5. FromLe(b) = x % Power(n)
    BY <2>1, <2>2, <2>4, ReadsBack
  <2>6. Same(x % Power(n), x, Power(n))
    BY SamePowers
  <2>7. Same(x, FromLe(b), Power(n))
    BY <2>5, <2>6 DEF Same
  <2>8. RecoverNum(a, n) = s.of
    BY <1>2, <1>3, <1>4, <1>9 DEF RecoverNum
  <2> QED BY <1>6, <2>2, <2>7, <2>8
<1>10. CASE ~(s.kind = "le" /\ s.len = n)
  <2>1. RecoverNum(a, n) = [u \in Worlds |-> Read(s.val[u])]
    BY <1>3, <1>4, <1>10 DEF RecoverNum
  <2>2. PICK x \in Int : x = FromLe(v)
    BY ULeType
  <2>3. RecoverNum(a, n)[w] = x % Power(PlanLen)
    BY <1>1, <1>5, <2>1, <2>2, FilledAssumption DEF Read
  <2>4. Same(x, FromLe(b), Power(n))
    BY <1>6, <1>7, <1>8, <2>2, ReadsBeginning
  <2>5. Same(x % Power(PlanLen), x, Power(n))
    <3>1. PlanLen \in Nat
      BY SizeAssumption, BaseAssumption
    <3> QED BY <3>1, SamePowers
  <2>6. Same(x % Power(PlanLen), FromLe(b), Power(n))
    BY <2>4, <2>5 DEF Same
  <2> QED BY <1>6, <2>3, <2>6
<1> QED BY <1>9, <1>10

----------------------------------------------------------------------------
(* The operators of the guest *)

LEMMA Concluded ==
  ASSUME IInv, Types', NumberSources', lapses \subseteq lapses', LiftFaithful',
         \A w \in Worlds : CleanIn(w)' /\ Holds(w) => Holds(w)'
  PROVE  IInv'
<1>1. \A w \in Worlds : CleanIn(w)' => CleanIn(w)
  BY DEF CleanIn
<1>2. \A w \in Worlds : CleanIn(w)' => Holds(w)'
  BY <1>1 DEF IInv
<1> QED BY <1>2 DEF IInv

(* Until it stops, the guest has returned nothing.                         *)
LEMMA StillRuns == Step => LiftFaithful'
BY DEF Step, LiftFaithful

(* An operator that leaves memory as it is.                                *)
LEMMA Computed ==
  ASSUME IInv, UNCHANGED <<env, mem, tags, srcs>>, lapses \subseteq lapses', LiftFaithful',
         vs' \in Seq(Values),
         \A w \in Worlds : CleanIn(w)' /\ Holds(w) => AllAgree(w, vs')
  PROVE  IInv'
<1>1. Types' /\ NumberSources'
  BY DEF IInv, Types, NumberSources, Tags
<1>2. ASSUME NEW w \in Worlds, CleanIn(w)', Holds(w)  PROVE Holds(w)'
  <2>1. AllBacked(w) => AllBacked(w)'
    BY DEF AllBacked, Backed
  <2>2. Measured(w) => Measured(w)'
    BY DEF Measured
  <2>3. AllAgree(w, vs')
    BY <1>2
  <2>4. AllAgree(w, vs)'
    BY <2>3 DEF AllAgree, Agrees, Same
  <2> QED BY <1>2, <2>1, <2>2, <2>4 DEF Holds
<1> QED BY <1>1, <1>2, Concluded

LEMMA StoredType ==
  ASSUME env \in Envs, NEW w \in Worlds, NEW key
  PROVE  Stored(w, key) \in Seq(Byte)
BY EnvAssumption DEF Stored

LEMMA PushKeeps ==
  ASSUME IInv, Step, UNCHANGED <<mem, tags, srcs>>, lapses \subseteq lapses',
         NEW k \in Nat, k <= Len(vs), NEW v \in Values, vs' = Append(Pop(k), v),
         \A w \in Worlds : CleanIn(w)' /\ Holds(w) => Agrees(w, v)
  PROVE  IInv'
<1>1. vs \in Seq(Values)
  BY DEF IInv, Types
<1>2. PICK t \in Seq(Values) : t = Pop(k) /\ \A w : AllAgree(w, vs) => AllAgree(w, t)
  BY <1>1, Popped
<1>3. vs' \in Seq(Values) /\ \A w : AllAgree(w, t) /\ Agrees(w, v) => AllAgree(w, vs')
  BY <1>2, Pushed
<1>4. \A w \in Worlds : CleanIn(w)' /\ Holds(w) => AllAgree(w, vs')
  BY <1>2, <1>3 DEF Holds
<1>5. UNCHANGED env
  BY DEF Step
<1> QED BY <1>3, <1>4, <1>5, StillRuns, Computed

LEMMA PopsNone == ASSUME IInv  PROVE vs = Pop(0) /\ Len(vs) \in Nat /\ 0 <= Len(vs)
<1>1. vs \in Seq(Values)
  BY DEF IInv, Types
<1> QED BY <1>1 DEF Pop

LEMMA RequestStorageKeeps ==
  ASSUME IInv, NEW p \in Addrs, RequestStorage(p)
  PROVE  IInv'
<1>1. env \in Envs
  BY DEF IInv, Types
<1>2. PICK c \in Syms : c = [w \in Worlds |-> Len(Stored(w, KeyAt(w, p)))]
  <2>1. ASSUME NEW w \in Worlds  PROVE Len(Stored(w, KeyAt(w, p))) \in Int
    <3>1. PICK bytes \in Seq(Byte) : bytes = Stored(w, KeyAt(w, p))
      BY <1>1, StoredType
    <3> QED BY <3>1
  <2> QED BY <2>1 DEF Syms
<1>3. vs' = Append(Pop(0), Constant(c)) /\ UNCHANGED <<mem, tags, srcs, lapses>> /\ Step
  BY <1>2, PopsNone DEF RequestStorage
<1> QED BY <1>2, <1>3, Constants, PopsNone, PushKeeps

LEMMA PushConstantKeeps ==
  ASSUME IInv, NEW c \in Byte, PushConstant(c)
  PROVE  IInv'
<1>1. PICK x \in Syms : x = [w \in Worlds |-> c]
  <2>1. c \in Int
    BY BaseType DEF Byte
  <2>2. [w \in Worlds |-> c] \in [Worlds -> Int]
    BY <2>1
  <2> QED BY <2>2 DEF Syms
<1>2. vs' = Append(Pop(0), Constant(x)) /\ UNCHANGED <<mem, tags, srcs, lapses>> /\ Step
  BY <1>1, PopsNone DEF PushConstant
<1> QED BY <1>1, <1>2, Constants, PopsNone, PushKeeps

LEMMA LoadKeeps ==
  ASSUME IInv, NEW a \in Addrs, NEW n \in Widths, NEW signed \in BOOLEAN, Load(a, n, signed)
  PROVE  IInv'
<1>1. /\ Types /\ NumberSources /\ InMemory(a, n)
      /\ n \in Nat \ {0} /\ n <= Int64 /\ n <= PlanLen
  BY SizeAssumption, BaseAssumption DEF IInv, Load, Widths
<1>2. PICK c : c = [w \in Worlds |-> IF signed THEN SignExtend(FromLe(BytesAt(w, a, n)), n)
                                     ELSE FromLe(BytesAt(w, a, n))]
  OBVIOUS
<1>3. ASSUME NEW w \in Worlds
      PROVE  c[w] \in Int /\ Same(c[w], FromLe(BytesAt(w, a, n)), Power(n))
  <2>1. PICK x \in Int : x = FromLe(BytesAt(w, a, n))
    BY <1>1, BytesType, ULeType
  <2>2. SignExtend(x, n) \in Int /\ Same(SignExtend(x, n), x, Power(n)) /\ Same(x, x, Power(n))
    BY <1>1, Extended DEF Same
  <2>3. c[w] = x \/ c[w] = SignExtend(x, n)
    BY <1>2, <2>1
  <2> QED BY <2>1, <2>2, <2>3
<1>4. c \in Syms
  BY <1>2, <1>3 DEF Syms
<1>5. PICK s \in Nums \cup {NoSym} : s = RecoverNum(a, n)
  BY <1>1, RecoveredType
<1>6. PICK v \in Values : v = Value(c, s, n) /\ v.c = c /\ v.s = s /\ v.sure = n
  BY <1>1, <1>4, ValueParts
<1>7. vs' = Append(Pop(0), v) /\ UNCHANGED <<mem, tags, srcs, lapses>> /\ Step
  BY <1>2, <1>5, <1>6, PopsNone DEF Load
<1>8. ASSUME NEW w \in Worlds, Holds(w)  PROVE Agrees(w, v)
  <2>1. AllBacked(w)
    BY <1>8 DEF Holds
  <2>2. ASSUME s # NoSym  PROVE Same(s[w], c[w], Power(n))
    <3>1. Same(s[w], FromLe(BytesAt(w, a, n)), Power(n))
      BY <1>1, <1>5, <2>1, <2>2, RecoveredAgrees
    <3>2. Same(c[w], FromLe(BytesAt(w, a, n)), Power(n))
      BY <1>1, <1>3
    <3> QED BY <3>1, <3>2 DEF Same
  <2> QED BY <1>6, <2>2 DEF Agrees
<1> QED BY <1>7, <1>8, PopsNone, PushKeeps

LEMMA TwoOperands ==
  ASSUME IInv, Len(vs) > 1
  PROVE  /\ 2 \in Nat /\ 2 <= Len(vs) /\ vs \in Seq(Values)
         /\ vs[Len(vs) - 1] \in Values /\ Top \in Values
         /\ \A w : AllAgree(w, vs) => Agrees(w, vs[Len(vs) - 1]) /\ Agrees(w, Top)
<1>1. vs \in Seq(Values) /\ Len(vs) \in Nat
  BY DEF IInv, Types
<1>2. PICK i \in 1 .. Len(vs), j \in 1 .. Len(vs) : i = Len(vs) - 1 /\ j = Len(vs)
  BY <1>1
<1>3. vs[i] \in Values /\ vs[j] \in Values
  BY <1>1
<1>4. \A w : AllAgree(w, vs) => Agrees(w, vs[i]) /\ Agrees(w, vs[j])
  BY DEF AllAgree
<1> QED BY <1>1, <1>2, <1>3, <1>4 DEF Top

LEMMA OneOperand ==
  ASSUME IInv, vs # <<>>
  PROVE  /\ 1 \in Nat /\ 1 <= Len(vs) /\ vs \in Seq(Values) /\ Top \in Values
         /\ \A w : AllAgree(w, vs) => Agrees(w, Top)
<1>1. vs \in Seq(Values)
  BY DEF IInv, Types
<1>2. Len(vs) \in Nat /\ Len(vs) # 0
  BY <1>1, EmptySeq
<1>3. PICK j \in 1 .. Len(vs) : j = Len(vs)
  BY <1>2
<1>4. vs[j] \in Values /\ \A w : AllAgree(w, vs) => Agrees(w, vs[j])
  BY <1>1 DEF AllAgree
<1> QED BY <1>1, <1>2, <1>3, <1>4 DEF Top

LEMMA UntaggedKeeps == ASSUME IInv, Untagged  PROVE IInv'
<1>1. Len(vs) > 1
  BY DEF Untagged
<1>2. PICK c \in Syms : c = [w \in Worlds |-> IF vs[Len(vs) - 1].c[w] < Top.c[w] THEN 1 ELSE 0]
  <2>1. [w \in Worlds |-> IF vs[Len(vs) - 1].c[w] < Top.c[w] THEN 1 ELSE 0] \in [Worlds -> Int]
    OBVIOUS
  <2> QED BY <2>1 DEF Syms
<1>3. vs' = Append(Pop(2), Constant(c)) /\ UNCHANGED <<mem, tags, srcs, lapses>> /\ Step
  BY <1>2 DEF Untagged
<1> QED BY <1>1, <1>2, <1>3, Constants, TwoOperands, PushKeeps

LEMMA SymbolicKeeps ==
  ASSUME IInv, NEW op \in BinaryOps, NEW n \in {Int32, Int64}, Symbolic(op, n)
  PROVE  IInv'
<1>1. Len(vs) > 1 /\ n \in Nat \ {0} /\ n <= PlanLen /\ Home \in Worlds
  BY SizeAssumption, BaseAssumption DEF Symbolic
<1>2. PICK x \in Values, y \in Values : x = vs[Len(vs) - 1] /\ y = Top
  BY <1>1, TwoOperands
<1>3. x.sure \in Nat /\ y.sure \in Nat
  BY DEF Values
<1>4. PICK xs \in Nums, ys \in Nums : xs = AsSym(x, n) /\ ys = AsSym(y, n)
  BY <1>1, AsSymType
<1>5. PICK xc, yc : /\ xc = [w \in Worlds |-> Left(x, n, w)]
                    /\ yc = [w \in Worlds |-> Right(op, y, n, w)]
  OBVIOUS
<1>6. xc \in Nums /\ yc \in Nums
  BY <1>1, <1>5, GuestOperands DEF Nums
<1>7. PICK c, s : /\ c = [w \in Worlds |-> Outcome(op, xc[w], yc[w]) % Power(n)]
                  /\ s = [w \in Worlds |-> Outcome(op, xs[w], ys[w])]
  OBVIOUS
<1>8. ASSUME NEW w \in Worlds
      PROVE  /\ Outcome(op, xc[w], yc[w]) \in Int /\ c[w] \in Int /\ s[w] \in Num
             /\ Same(c[w], Outcome(op, xc[w], yc[w]), Power(n))
  <2>1. /\ xs[w] \in Num /\ ys[w] \in Num
        /\ xc[w] \in Num /\ yc[w] \in Num
    BY <1>6 DEF Nums
  <2>2. PICK z \in Int : z = Outcome(op, xc[w], yc[w])
    <3>1. Outcome(op, xc[w], yc[w]) \in Num
      BY <2>1, OutcomeType
    <3>2. Outcome(op, xc[w], yc[w]) \in Int
      BY <3>1, ModulusAssumption DEF Num
    <3> QED BY <3>2
  <2>3. Same(z % Power(n), z, Power(n)) /\ z % Power(n) \in Int
    <3>1. n \in Nat /\ n <= n
      BY <1>1
    <3>2. Same(z % Power(n), z, Power(n))
      BY <3>1, SamePowers
    <3>3. Power(n) \in Nat \ {0}
      BY <1>1, PowerLaws
    <3>4. z % Power(n) \in Int
      BY <3>3
    <3> QED BY <3>2, <3>4
  <2> QED BY <1>7, <2>1, <2>2, <2>3, OutcomeType
<1>9. c \in Syms /\ s \in Nums
  BY <1>7, <1>8 DEF Syms, Nums
<1>10. PICK S : S = {n} \cup {x.sure : o \in {op} \ WholeLeft}
                        \cup {y.sure : o \in {op} \ WholeRight}
  OBVIOUS
<1>11. PICK m \in Nat : /\ m = Min(S) /\ m <= n
                        /\ op \notin WholeLeft => m <= x.sure
                        /\ op \notin WholeRight => m <= y.sure
  <2>1. S \in SUBSET Nat /\ S # {}
    BY <1>1, <1>3, <1>10
  <2>2. Min(S) \in S /\ \A z \in S : Min(S) <= z
    BY <2>1, LeastOf
  <2> QED BY <1>10, <2>1, <2>2
<1>12. PICK v \in Values : v = Value(c, s, m) /\ v.c = c /\ v.s = s /\ v.sure = m
  BY <1>9, ValueParts
<1>13. ASSUME NEW w \in Worlds, AllAgree(w, vs),
              x.s = NoSym => x.c[w] = x.c[Home], y.s = NoSym => y.c[w] = y.c[Home],
              op \in WholeLeft => xs[w] = xc[w], op \in WholeRight => ys[w] = yc[w]
       PROVE  Agrees(w, v)
  <2> SUFFICES Same(s[w], c[w], Power(m))
    BY <1>12 DEF Agrees
  <2>1. Agrees(w, x) /\ Agrees(w, y) /\ m <= PlanLen
    BY <1>1, <1>2, <1>11, <1>13, TwoOperands, SizeAssumption, BaseAssumption
  <2>2. PICK a \in Num, b \in Num, d \in Num, e \in Num :
          a = xs[w] /\ b = xc[w] /\ d = ys[w] /\ e = yc[w]
    BY <1>6 DEF Nums
  <2>3. IF op \in WholeLeft THEN a = b ELSE Same(a, b, Power(m))
    <3>1. CASE op \in WholeLeft
      BY <1>13, <2>2, <3>1
    <3>2. CASE op \notin WholeLeft
      <4>1. Same(xs[w], x.c[w], Power(m))
        BY <1>1, <1>4, <1>11, <1>13, <2>1, <3>2, AsSymAgrees
      <4>2. Same(b, x.c[w], Power(n))
        BY <1>1, <1>5, <2>2, GuestOperands
      <4>3. Same(b, x.c[w], Power(m))
        <5>1. PICK z \in Int : z = x.c[w]
          BY DEF Values, Syms
        <5>2. b \in Int
          BY NumsAreSyms
        <5> QED BY <1>1, <1>11, <4>2, <5>1, <5>2, SamePowers
      <4> QED BY <2>2, <3>2, <4>1, <4>3 DEF Same
    <3> QED BY <3>1, <3>2
  <2>4. IF op \in WholeRight THEN d = e ELSE Same(d, e, Power(m))
    <3>1. CASE op \in WholeRight
      BY <1>13, <2>2, <3>1
    <3>2. CASE op \notin WholeRight
      <4>1. Same(ys[w], y.c[w], Power(m))
        BY <1>1, <1>4, <1>11, <1>13, <2>1, <3>2, AsSymAgrees
      <4>2. Same(e, y.c[w], Power(n))
        BY <1>1, <1>5, <2>2, <3>2, GuestOperands
      <4>3. Same(e, y.c[w], Power(m))
        <5>1. PICK z \in Int : z = y.c[w]
          BY DEF Values, Syms
        <5>2. e \in Int
          BY NumsAreSyms
        <5> QED BY <1>1, <1>11, <4>2, <5>1, <5>2, SamePowers
      <4> QED BY <2>2, <3>2, <4>1, <4>3 DEF Same
    <3> QED BY <3>1, <3>2
  <2>5. Same(Outcome(op, a, d), Outcome(op, b, e), Power(m))
    BY <2>1, <2>3, <2>4, OutcomeAgrees
  <2>6. PICK z \in Int, u \in Int : z = Outcome(op, b, e) /\ u = c[w]
    BY <1>8, <2>2
  <2>7. Same(u, z, Power(n))
    BY <1>8, <2>2, <2>6
  <2>8. Same(u, z, Power(m))
    BY <1>1, <1>11, <2>7, SamePowers
  <2> QED BY <1>7, <2>2, <2>5, <2>6, <2>8 DEF Same
<1>14. /\ UNCHANGED <<mem, tags, srcs>> /\ Step
       /\ \/ vs' = Append(Pop(2), Constant(c)) /\ UNCHANGED lapses
          \/ /\ vs' = Append(Pop(2), v)
             /\ lapses \cup Materialized(x) \cup Materialized(y) \subseteq lapses'
             /\ \A w \in Worlds :
                  \/ op \in WholeLeft /\ xs[w] # xc[w]
                  \/ op \in WholeRight /\ ys[w] # yc[w]
                  => "elsewhere" \in lapses' /\ (w = Home => "high" \in lapses')
  BY <1>2, <1>4, <1>5, <1>7, <1>10, <1>11, <1>12 DEF Symbolic
<1>15. CASE vs' = Append(Pop(2), Constant(c)) /\ UNCHANGED lapses
  BY <1>1, <1>9, <1>14, <1>15, Constants, TwoOperands, PushKeeps
<1>16. CASE /\ vs' = Append(Pop(2), v)
            /\ lapses \cup Materialized(x) \cup Materialized(y) \subseteq lapses'
            /\ \A w \in Worlds :
                 \/ op \in WholeLeft /\ xs[w] # xc[w]
                 \/ op \in WholeRight /\ ys[w] # yc[w]
                 => "elsewhere" \in lapses' /\ (w = Home => "high" \in lapses')
  <2>1. ASSUME NEW w \in Worlds, CleanIn(w)'
        PROVE  /\ x.s = NoSym => x.c[w] = x.c[Home]
               /\ y.s = NoSym => y.c[w] = y.c[Home]
               /\ op \in WholeLeft => xs[w] = xc[w]
               /\ op \in WholeRight => ys[w] = yc[w]
    BY <1>16, <2>1 DEF CleanIn, Materialized
  <2>2. \A w \in Worlds : CleanIn(w)' /\ Holds(w) => Agrees(w, v)
    BY <1>13, <2>1 DEF Holds
  <2> QED BY <1>1, <1>14, <1>16, <2>2, TwoOperands, PushKeeps
<1> QED BY <1>14, <1>15, <1>16

LEMMA ConvertKeeps ==
  ASSUME IInv, NEW signed \in BOOLEAN, Convert(signed)
  PROVE  IInv'
<1>1. vs # <<>> /\ Int32 \in Nat /\ Int32 <= Int64
  BY SizeAssumption DEF Convert
<1>2. PICK x \in Values : x = Top
  BY <1>1, OneOperand
<1>3. /\ x.c \in Syms /\ x.sure \in Nat /\ (x.s # NoSym => x.s \in Nums)
      /\ x.s \in Nums \cup {NoSym}
  BY DEF Values
<1>4. PICK c : c = [w \in Worlds |-> IF signed THEN SignExtend(x.c[w] % Power(Int32), Int32)
                                     ELSE x.c[w] % Power(Int32)]
  OBVIOUS
<1>5. ASSUME NEW w \in Worlds
      PROVE  c[w] \in Int /\ Same(c[w], x.c[w], Power(Int32))
  <2>1. PICK z \in Int : z = x.c[w]
    BY <1>3 DEF Syms
  <2>2. PICK low \in Int : low = z % Power(Int32)
    <3>1. Power(Int32) \in Nat \ {0}
      BY <1>1, PowerLaws
    <3> QED BY <3>1
  <2>3. Same(low, z, Power(Int32))
    <3>1. Int32 <= Int32
      BY <1>1
    <3> QED BY <1>1, <2>2, <3>1, SamePowers
  <2>4. SignExtend(low, Int32) \in Int /\ Same(SignExtend(low, Int32), low, Power(Int32))
    BY <1>1, Extended
  <2>5. c[w] = low \/ c[w] = SignExtend(low, Int32)
    BY <1>4, <2>1, <2>2
  <2> QED BY <2>1, <2>2, <2>3, <2>4, <2>5 DEF Same
<1>6. c \in Syms
  BY <1>4, <1>5 DEF Syms
<1>7. PICK m \in Nat : m = Min({x.sure, Int32}) /\ m <= x.sure /\ m <= Int32
  <2>1. PICK S : S = {x.sure, Int32}
    OBVIOUS
  <2>2. S \in SUBSET Nat /\ S # {}
    BY <1>1, <1>3, <2>1
  <2>3. Min(S) \in S /\ \A z \in S : Min(S) <= z
    BY <2>2, LeastOf
  <2> QED BY <2>1, <2>2, <2>3
<1>8. PICK v \in Values : v = Value(c, x.s, m) /\ v.c = c /\ v.s = x.s /\ v.sure = m
  BY <1>3, <1>6, ValueParts
<1>9. ASSUME NEW w \in Worlds, AllAgree(w, vs)  PROVE Agrees(w, v)
  <2> SUFFICES ASSUME x.s # NoSym  PROVE Same(x.s[w], c[w], Power(m))
    BY <1>8 DEF Agrees
  <2>1. PICK a \in Int, b \in Int, d \in Int : a = x.s[w] /\ b = x.c[w] /\ d = c[w]
    BY <1>3, <1>6, NumsAreSyms DEF Syms
  <2>2. Same(a, b, Power(x.sure))
    BY <1>1, <1>2, <1>9, <2>1, OneOperand DEF Agrees
  <2>3. Same(a, b, Power(m))
    BY <1>3, <1>7, <2>2, SamePowers
  <2>4. Same(d, b, Power(Int32))
    BY <1>5, <2>1
  <2>5. Same(d, b, Power(m))
    BY <1>1, <1>7, <2>4, SamePowers
  <2> QED BY <2>1, <2>3, <2>5 DEF Same
<1>10. /\ UNCHANGED <<mem, tags, srcs, lapses>> /\ Step
       /\ vs' = Append(Pop(1), v)
  BY <1>2, <1>4, <1>7, <1>8 DEF Convert
<1>11. \A w \in Worlds : CleanIn(w)' /\ Holds(w) => Agrees(w, v)
  BY <1>9 DEF Holds
<1> QED BY <1>1, <1>10, <1>11, OneOperand, PushKeeps

(* A step that writes memory.                                              *)
LEMMA WroteKeeps ==
  ASSUME IInv, Step, Types', NumberSources', lapses \subseteq lapses',
         \A w : AllAgree(w, vs) => AllAgree(w, vs'),
         \A w \in Worlds : CleanIn(w)' /\ Holds(w) => AllBacked(w)' /\ Measured(w)'
  PROVE  IInv'
<1>1. ASSUME NEW w \in Worlds, CleanIn(w)', Holds(w)  PROVE Holds(w)'
  <2>1. AllAgree(w, vs')
    BY <1>1 DEF Holds
  <2>2. AllAgree(w, vs)'
    BY <2>1 DEF AllAgree, Agrees, Same
  <2> QED BY <1>1, <2>2 DEF Holds
<1> QED BY <1>1, StillRuns, Concluded

LEMMA LoadContextKeeps ==
  ASSUME IInv, NEW a \in Addrs, LoadContext(a)
  PROVE  IInv'
<1>1. Types /\ NumberSources /\ env \in Envs /\ Home \in Worlds
  BY SizeAssumption DEF IInv, Types
<1>2. PICK data \in [Worlds -> Seq(Byte)] :
        data = env.calldata /\ \A w \in Worlds : Len(data[w]) = Len(data[Home])
  BY <1>1, EnvAssumption
<1>3. PICK n \in Nat : n = Len(data[Home])
  BY <1>1
<1>4. data \in Strings(n)
  BY <1>2, <1>3 DEF Strings
<1>5. PICK new : new = [j \in 1 .. n |-> Source("calldata", n, data, NoSym)]
  OBVIOUS
<1>6. /\ InMemory(a, n) /\ Write(a, n, data) /\ srcs' = srcs \o new
      /\ tags' = [b \in Addrs |->
                    IF b \in Span(a, n) THEN [src |-> NewId + b - a, index |-> b - a]
                    ELSE tags[b]]
      /\ UNCHANGED <<env, vs, lapses>>
  BY <1>2, <1>3, <1>5 DEF LoadContext, Step
<1>7. Source("calldata", n, data, NoSym) \in Sources
  BY DEF Source, Sources
<1>8. new \in Seq(Sources) /\ Len(new) = n
  BY <1>5, <1>7
<1>9. PICK k \in Nat : k = Len(srcs) /\ srcs \in Seq(Sources)
  BY <1>1 DEF Types
<1>10. srcs' \in Seq(Sources) /\ Len(srcs') = k + n
  <2>1. /\ srcs \o new \in Seq(Sources)
        /\ Len(srcs \o new) = Len(srcs) + Len(new)
    BY <1>8, <1>9, ConcatProperties
  <2> QED BY <1>6, <1>8, <1>9, <2>1
<1>11. \A i \in 1 .. k + n : srcs'[i] = IF i <= k THEN srcs[i] ELSE new[i - k]
  BY <1>6, <1>8, <1>9, ConcatProperties
<1>12. Kept
  BY <1>9, <1>10, <1>11 DEF Kept
<1>13. \A i \in k + 1 .. k + n : srcs'[i] = Source("calldata", n, data, NoSym)
  <2>1. ASSUME NEW i \in k + 1 .. k + n  PROVE srcs'[i] = new[i - k] /\ i - k \in 1 .. n
    BY <1>11, <2>1
  <2> QED BY <1>5, <2>1
<1>14. NumberSources'
  <2>1. ASSUME NEW i \in 1 .. Len(srcs'), srcs'[i].kind = "le"
        PROVE  /\ srcs'[i].of \in Nums
               /\ \A w \in Worlds : srcs'[i].val[w] = LeBytes(srcs'[i].of[w], srcs'[i].len)
    <3>1. CASE i <= k
      <4>1. i \in 1 .. Len(srcs) /\ srcs'[i] = srcs[i]
        BY <1>9, <1>10, <1>11, <2>1, <3>1
      <4> QED BY <1>1, <2>1, <4>1 DEF NumberSources
    <3>2. CASE ~(i <= k)
      <4>1. srcs'[i] = Source("calldata", n, data, NoSym)
        BY <1>10, <1>13, <2>1, <3>2
      <4> QED BY <2>1, <4>1 DEF Source
    <3> QED BY <3>1, <3>2
  <2> QED BY <2>1 DEF NumberSources
<1>15. /\ mem' \in [Worlds -> [Addrs -> Byte]]
       /\ \A w \in Worlds, b \in Addrs :
            mem'[w][b] = IF b \in Span(a, n) THEN data[w][b - a + 1] ELSE mem[w][b]
  BY <1>1, <1>4, <1>6, Written
<1>16. ASSUME NEW b \in Span(a, n)
       PROVE  /\ NewId + b - a \in k + 1 .. k + n /\ b - a \in Nat /\ b - a < n
              /\ [src |-> NewId + b - a, index |-> b - a] \in Tags'
  <2>1. b - a \in Nat /\ b - a + 1 \in 1 .. n /\ b \in Addrs /\ a \in Nat
    BY <1>6, Spans
  <2>2. PICK j \in Nat : j = b - a
    BY <2>1
  <2>3. b \in Int
    BY SizeAssumption, <2>1 DEF Addrs
  <2>4. NewId + b - a = k + 1 + j
    BY <1>9, <2>1, <2>2, <2>3 DEF NewId
  <2>5. NewId + b - a \in 1 .. Len(srcs') /\ NewId + b - a \in k + 1 .. k + n
    BY <1>10, <2>1, <2>2, <2>4
  <2> QED BY <2>1, <2>5 DEF Tags
<1>17. Types'
  <2>1. \A b \in Addrs : tags[b] \in Tags' \cup {NoTag}
    BY <1>1, <1>9, <1>10, <1>12, TagsStay
  <2>2. tags' \in [Addrs -> Tags' \cup {NoTag}]
    BY <1>6, <1>16, <2>1
  <2> QED BY <1>1, <1>6, <1>10, <1>15, <2>2 DEF Types
<1>18. ASSUME NEW w \in Worlds, NEW b \in Addrs, Backed(w, b)  PROVE Backed(w, b)'
  <2>1. CASE b \in Span(a, n)
    <3>1. PICK i \in k + 1 .. k + n, j \in Nat :
            i = NewId + b - a /\ j = b - a /\ j < n
      BY <1>16, <2>1
    <3>2. tags'[b] = [src |-> i, index |-> j]
      BY <1>6, <2>1, <3>1
    <3>3. srcs'[i].val = data /\ Len(data[w]) = n
      BY <1>2, <1>3, <1>13 DEF Source
    <3>4. mem'[w][b] = data[w][j + 1]
      BY <1>15, <2>1, <3>1
    <3> QED BY <3>1, <3>2, <3>3, <3>4 DEF Backed
  <2>2. CASE b \notin Span(a, n)
    <3>1. tags'[b] = tags[b] /\ mem'[w][b] = mem[w][b]
      BY <1>6, <1>15, <2>2
    <3> QED BY <1>1, <1>12, <1>17, <1>18, <3>1, TagKept
  <2> QED BY <2>1, <2>2
<1>19. ASSUME NEW w \in Worlds, Measured(w), NEW i \in 1 .. Len(srcs')
       PROVE  Len(srcs'[i].val[w]) = srcs'[i].len
  <2>1. CASE i <= k
    <3>1. i \in 1 .. Len(srcs) /\ srcs'[i] = srcs[i]
      BY <1>9, <1>10, <1>11, <2>1
    <3> QED BY <1>19, <3>1 DEF Measured
  <2>2. CASE ~(i <= k)
    <3>1. srcs'[i] = Source("calldata", n, data, NoSym)
      BY <1>10, <1>13, <2>2
    <3> QED BY <1>2, <1>3, <3>1 DEF Source
  <2> QED BY <2>1, <2>2
<1>20. ASSUME NEW w \in Worlds, Holds(w)  PROVE Holds(w)'
  <2>1. AllBacked(w)' /\ Measured(w)'
    BY <1>18, <1>19, <1>20 DEF Holds, AllBacked, Measured
  <2>2. AllAgree(w, vs)'
    BY <1>6, <1>20 DEF Holds, AllAgree, Agrees, Same
  <2> QED BY <2>1, <2>2 DEF Holds
<1>21. lapses \subseteq lapses' /\ LiftFaithful'
  BY <1>6, StillRuns DEF LoadContext
<1> QED BY <1>14, <1>17, <1>20, <1>21, Concluded

LEMMA LoadStorageKeeps ==
  ASSUME IInv, NEW p \in Addrs, NEW a \in Addrs, LoadStorage(p, a)
  PROVE  IInv'
<1>1. Types /\ NumberSources /\ env \in Envs /\ Home \in Worlds /\ vs \in Seq(Values)
  BY SizeAssumption DEF IInv, Types
<1>2. PICK key : key = IF pending = NoKey THEN SymKey(p) ELSE pending
  OBVIOUS
<1>3. PICK data : data = [w \in Worlds |-> Stored(w, KeyAt(w, p))]
  OBVIOUS
<1>4. data \in [Worlds -> Seq(Byte)]
  BY <1>1, <1>3, StoredType
<1>5. PICK n \in Nat : n = Len(data[Home])
  BY <1>1, <1>4
<1>6. PICK val : val = [w \in Worlds |-> Stored(w, key[w])]
  OBVIOUS
<1>7. val \in [Worlds -> Seq(Byte)]
  BY <1>1, <1>6, StoredType
<1>8. /\ InMemory(a, n) /\ \A w \in Worlds : Len(data[w]) = n
      /\ Write(a, n, data) /\ NewSource(Source("storage", n, val, NoSym))
      /\ TagAs(a, n, NewId) /\ UNCHANGED vs /\ Step /\ lapses \subseteq lapses'
      /\ key[Home] # KeyAt(Home, p) => "key" \in lapses'
      /\ (\E w \in Worlds : key[w] # KeyAt(w, p)) => "elsewhere" \in lapses'
  BY <1>2, <1>3, <1>5, <1>6 DEF LoadStorage
<1>9. data \in Strings(n)
  BY <1>4, <1>8 DEF Strings
<1>10. PICK s \in Sources : s = Source("storage", n, val, NoSym)
  BY <1>7 DEF Source, Sources
<1>11. Told(s) /\ s.val = val /\ s.len = n
  BY <1>10 DEF Told, Source
<1>12. env' = env
  BY <1>8 DEF Step
<1>13. /\ Types' /\ NumberSources'
       /\ \A w \in Worlds :
            s.val[w] = data[w] /\ s.len = n /\ AllBacked(w) /\ Measured(w)
              => AllBacked(w)' /\ Measured(w)'
  BY <1>1, <1>8, <1>9, <1>10, <1>11, <1>12, Tagged
<1>14. ASSUME NEW w \in Worlds, CleanIn(w)'  PROVE s.val[w] = data[w]
  <2>1. key[w] = KeyAt(w, p)
    BY <1>8, <1>14 DEF CleanIn
  <2> QED BY <1>3, <1>6, <1>11, <2>1
<1>15. \A w \in Worlds : CleanIn(w)' /\ Holds(w) => AllBacked(w)' /\ Measured(w)'
  BY <1>11, <1>13, <1>14 DEF Holds
<1>16. \A w : AllAgree(w, vs) => AllAgree(w, vs')
  BY <1>8
<1> QED BY <1>8, <1>13, <1>15, <1>16, WroteKeeps

LEMMA LeStrings ==
  ASSUME NEW c \in Syms, NEW n \in Nat
  PROVE  [w \in Worlds |-> LeBytes(c[w], n)] \in Strings(n)
<1>1. ASSUME NEW w \in Worlds
      PROVE  LeBytes(c[w], n) \in Seq(Byte) /\ Len(LeBytes(c[w], n)) = n
  <2>1. PICK x \in Int : x = c[w]
    BY DEF Syms
  <2> QED BY <2>1, LeType
<1> QED BY <1>1 DEF Strings

(* The bytes of a number are a source that tells it.                       *)
LEMMA LeSource ==
  ASSUME NEW c \in Nums, NEW n \in Nat, NEW val, val = [w \in Worlds |-> LeBytes(c[w], n)]
  PROVE  /\ Source("le", n, val, c) \in Sources /\ Told(Source("le", n, val, c))
         /\ Source("le", n, val, c).val = val /\ Source("le", n, val, c).len = n
<1>1. val \in [Worlds -> Seq(Byte)]
  BY LeStrings, NumsAreSyms DEF Strings
<1>2. Source("le", n, val, c) \in Sources
  BY <1>1 DEF Source, Sources
<1> QED BY <1>2 DEF Source, Told

LEMMA HeightKeeps ==
  ASSUME IInv, NEW a \in Addrs, Height(a)
  PROVE  IInv'
<1>1. Types /\ NumberSources /\ env \in Envs /\ vs \in Seq(Values) /\ HeightLen \in Nat
  BY SizeAssumption DEF IInv, Types
<1>2. PICK h \in Nums : h = env.height
  BY <1>1, EnvAssumption DEF Nums
<1>3. PICK data : data = [w \in Worlds |-> LeBytes(h[w], HeightLen)]
  OBVIOUS
<1>4. data \in Strings(HeightLen)
  BY <1>1, <1>3, LeStrings, NumsAreSyms
<1>5. PICK s \in Sources : /\ s = Source("le", HeightLen, data, h) /\ Told(s)
                           /\ s.val = data /\ s.len = HeightLen
  <2>1. PICK s : s = Source("le", HeightLen, data, h)
    OBVIOUS
  <2>2. HeightLen \in Nat
    BY <1>1
  <2>3. s \in Sources /\ Told(s) /\ s.val = data /\ s.len = HeightLen
    BY ONLY <1>3, <2>1, <2>2, LeSource, h \in Nums
  <2> QED BY <2>1, <2>3
<1>6. /\ InMemory(a, HeightLen) /\ Write(a, HeightLen, data) /\ NewSource(s)
      /\ TagAs(a, HeightLen, NewId) /\ UNCHANGED <<env, vs, lapses>> /\ Step
  BY <1>2, <1>3, <1>5 DEF Height, Step
<1>7. /\ Types' /\ NumberSources'
      /\ \A w \in Worlds :
           s.val[w] = data[w] /\ s.len = HeightLen /\ AllBacked(w) /\ Measured(w)
             => AllBacked(w)' /\ Measured(w)'
  BY <1>1, <1>4, <1>5, <1>6, Tagged
<1>8. \A w \in Worlds : CleanIn(w)' /\ Holds(w) => AllBacked(w)' /\ Measured(w)'
  BY <1>5, <1>7 DEF Holds
<1>9. \A w : AllAgree(w, vs) => AllAgree(w, vs')
  BY <1>6
<1> QED BY <1>6, <1>7, <1>8, <1>9, WroteKeeps

LEMMA StoreKeeps ==
  ASSUME IInv, NEW a \in Addrs, NEW n \in Widths, Store(a, n)
  PROVE  IInv'
<1>1. /\ Types /\ NumberSources /\ vs \in Seq(Values) /\ n \in Nat /\ Home \in Worlds
      /\ InMemory(a, n) /\ vs # <<>>
  BY SizeAssumption DEF IInv, Types, Widths, Store
<1>2. PICK x \in Values : x = Top
  BY <1>1, OneOperand
<1>3. x.c \in Syms /\ x.sure \in Nat /\ (x.s # NoSym => x.s \in Nums)
  BY DEF Values
<1>4. PICK data : data = [w \in Worlds |-> LeBytes(x.c[w], n)]
  OBVIOUS
<1>5. data \in Strings(n)
  BY <1>1, <1>3, <1>4, LeStrings
<1>6. /\ Write(a, n, data) /\ vs' = Pop(1) /\ UNCHANGED env /\ lapses \subseteq lapses'
      /\ x.s # NoSym /\ x.sure < n => "width" \in lapses'
      /\ Step
  BY <1>2, <1>4 DEF Store, Step
<1>7. vs' \in Seq(Values) /\ \A w : AllAgree(w, vs) => AllAgree(w, vs')
  BY <1>1, <1>6, OneOperand, Popped
<1>8. CASE x.s = NoSym
  <2>1. Clear(a, n) /\ UNCHANGED srcs
    BY <1>2, <1>8 DEF Store
  <2>2. /\ Types' /\ NumberSources'
        /\ \A w \in Worlds :
             AllBacked(w) /\ Measured(w) => AllBacked(w)' /\ Measured(w)'
    BY <1>1, <1>5, <1>6, <1>7, <2>1, Cleared
  <2>3. \A w \in Worlds : CleanIn(w)' /\ Holds(w) => AllBacked(w)' /\ Measured(w)'
    BY <2>2 DEF Holds
  <2> QED BY <1>6, <1>7, <2>2, <2>3, WroteKeeps
<1>9. CASE x.s # NoSym
  <2>1. PICK val : val = [w \in Worlds |-> LeBytes(x.s[w], n)]
    OBVIOUS
  <2>2. PICK s \in Sources : /\ s = Source("le", n, val, x.s) /\ Told(s)
                             /\ s.val = val /\ s.len = n
    <3>1. PICK z \in Nums : z = x.s
      BY <1>3, <1>9
    <3>2. val = [w \in Worlds |-> LeBytes(z[w], n)] /\ n \in Nat
      BY <1>1, <2>1, <3>1
    <3>3. PICK s : s = Source("le", n, val, z)
      OBVIOUS
    <3>4. s \in Sources /\ Told(s) /\ s.val = val /\ s.len = n
      BY ONLY <3>2, <3>3, LeSource, z \in Nums
    <3> QED BY <3>1, <3>3, <3>4
  <2>3. NewSource(s) /\ TagAs(a, n, NewId)
    BY <1>2, <1>9, <2>1, <2>2 DEF Store
  <2>4. /\ Types' /\ NumberSources'
        /\ \A w \in Worlds :
             s.val[w] = data[w] /\ s.len = n /\ AllBacked(w) /\ Measured(w)
               => AllBacked(w)' /\ Measured(w)'
    BY <1>1, <1>5, <1>6, <1>7, <2>2, <2>3, Tagged
  <2>5. ASSUME NEW w \in Worlds, CleanIn(w)', AllAgree(w, vs)  PROVE s.val[w] = data[w]
    <3>1. Agrees(w, x)
      BY <1>1, <1>2, <2>5, OneOperand
    <3>2. PICK b \in Int, d \in Int : b = x.s[w] /\ d = x.c[w]
      BY <1>3, <1>9, NumsAreSyms DEF Syms
    <3>3. Same(b, d, Power(x.sure))
      BY <1>9, <3>1, <3>2 DEF Agrees
    <3>4. n <= x.sure
      BY <1>1, <1>3, <1>6, <1>9, <2>5 DEF CleanIn
    <3>5. Same(b, d, Power(n))
      BY <1>1, <1>3, <3>3, <3>4, SamePowers
    <3>6. LeBytes(b, n) = LeBytes(d, n)
      BY <1>1, <3>5, SameBytes
    <3> QED BY <1>4, <2>1, <2>2, <3>2, <3>6
  <2>6. \A w \in Worlds : CleanIn(w)' /\ Holds(w) => AllBacked(w)' /\ Measured(w)'
    BY <2>2, <2>4, <2>5 DEF Holds
  <2> QED BY <1>6, <1>7, <2>4, <2>6, WroteKeeps
<1> QED BY <1>8, <1>9

LEMMA MemoryCopyKeeps ==
  ASSUME IInv, NEW d \in Addrs, NEW s \in Addrs, NEW n \in Sizes, MemoryCopy(d, s, n)
  PROVE  IInv'
<1>1. Types /\ NumberSources /\ n \in Nat
  BY SizeAssumption DEF IInv, Types
<1>2. PICK data : data = [w \in Worlds |-> BytesAt(w, s, n)]
  OBVIOUS
<1>3. /\ InMemory(s, n) /\ InMemory(d, n) /\ Write(d, n, data)
      /\ tags' = [b \in Addrs |-> IF b \in Span(d, n) THEN tags[b - d + s] ELSE tags[b]]
      /\ UNCHANGED <<env, srcs, vs, lapses>>
  BY <1>2 DEF MemoryCopy, Step
<1>4. data \in Strings(n)
  <2>1. ASSUME NEW w \in Worlds
        PROVE  BytesAt(w, s, n) \in Seq(Byte) /\ Len(BytesAt(w, s, n)) = n
    BY <1>1, <1>3, BytesType
  <2> QED BY <1>2, <2>1 DEF Strings
<1>5. /\ mem' \in [Worlds -> [Addrs -> Byte]]
      /\ \A w \in Worlds, b \in Addrs :
           mem'[w][b] = IF b \in Span(d, n) THEN data[w][b - d + 1] ELSE mem[w][b]
  BY <1>1, <1>3, <1>4, Written
<1>6. ASSUME NEW b \in Span(d, n)
      PROVE  /\ b \in Addrs /\ b - d + s \in Addrs
             /\ \A w \in Worlds : mem'[w][b] = mem[w][b - d + s]
  <2>1. b \in Addrs /\ b - d + 1 \in 1 .. n
    BY <1>1, <1>3, Spans
  <2>2. s + (b - d + 1) - 1 \in Addrs
    BY <1>1, <1>3, <2>1, Spans
  <2>3. b \in Int /\ d \in Int /\ s \in Int
    BY <2>1, SizeAssumption DEF Addrs
  <2>4. s + (b - d + 1) - 1 = b - d + s
    BY <2>3
  <2>5. \A w \in Worlds : data[w][b - d + 1] = mem[w][s + (b - d + 1) - 1]
    BY <1>1, <1>2, <2>1 DEF BytesAt
  <2> QED BY <1>5, <2>1, <2>2, <2>4, <2>5
<1>7. Types'
  <2>1. \A b \in Addrs : tags[b] \in Tags \cup {NoTag}
    BY <1>1 DEF Types
  <2>2. tags' \in [Addrs -> Tags \cup {NoTag}]
    BY <1>3, <1>6, <2>1
  <2>3. Tags' = Tags
    BY <1>3 DEF Tags
  <2> QED BY <1>1, <1>3, <1>5, <2>2, <2>3 DEF Types
<1>8. NumberSources'
  BY <1>1, <1>3 DEF NumberSources
<1>9. ASSUME NEW w \in Worlds, AllBacked(w), NEW b \in Addrs  PROVE Backed(w, b)'
  <2>1. CASE b \in Span(d, n)
    <3>1. PICK x \in Addrs : x = b - d + s
      BY <1>6, <2>1
    <3>2. tags'[b] = tags[x] /\ mem'[w][b] = mem[w][x] /\ Backed(w, x)
      BY <1>3, <1>6, <1>9, <2>1, <3>1 DEF AllBacked
    <3> QED BY <1>3, <3>2 DEF Backed
  <2>2. CASE b \notin Span(d, n)
    <3>1. tags'[b] = tags[b] /\ mem'[w][b] = mem[w][b] /\ Backed(w, b)
      BY <1>3, <1>5, <1>9, <2>2 DEF AllBacked
    <3> QED BY <1>3, <3>1 DEF Backed
  <2> QED BY <2>1, <2>2
<1>10. \A w \in Worlds : Measured(w) => Measured(w)'
  BY <1>3 DEF Measured
<1>11. \A w \in Worlds : CleanIn(w)' /\ Holds(w) => AllBacked(w)' /\ Measured(w)'
  BY <1>9, <1>10 DEF Holds, AllBacked
<1>12. Step /\ \A w : AllAgree(w, vs) => AllAgree(w, vs')
  BY <1>3 DEF MemoryCopy
<1> QED BY <1>3, <1>7, <1>8, <1>11, <1>12, WroteKeeps

LEMMA MemoryFillKeeps ==
  ASSUME IInv, NEW d \in Addrs, NEW n \in Sizes, NEW v \in Byte, MemoryFill(d, n, v)
  PROVE  IInv'
<1>1. Types /\ NumberSources /\ n \in Nat /\ vs \in Seq(Values)
  BY SizeAssumption DEF IInv, Types
<1>2. PICK bytes : bytes = [i \in 1 .. n |-> v]
  OBVIOUS
<1>7. bytes \in Seq(Byte) /\ Len(bytes) = n
  BY <1>1, <1>2
<1>3. PICK data : data = [w \in Worlds |-> bytes]
  OBVIOUS
<1>4. data \in Strings(n)
  BY <1>3, <1>7 DEF Strings
<1>5. /\ InMemory(d, n) /\ Write(d, n, data) /\ Clear(d, n)
      /\ UNCHANGED <<env, srcs, vs, lapses>>
  BY <1>2, <1>3 DEF MemoryFill, Step
<1>6. /\ Types' /\ NumberSources'
      /\ \A w \in Worlds :
           AllBacked(w) /\ Measured(w) => AllBacked(w)' /\ Measured(w)'
  BY <1>1, <1>4, <1>5, Cleared
<1>8. \A w \in Worlds : CleanIn(w)' /\ Holds(w) => AllBacked(w)' /\ Measured(w)'
  BY <1>6 DEF Holds
<1>9. Step /\ \A w : AllAgree(w, vs) => AllAgree(w, vs')
  BY <1>5 DEF MemoryFill
<1> QED BY <1>5, <1>6, <1>8, <1>9, WroteKeeps

----------------------------------------------------------------------------
(* The response and its runs *)

LEMMA Downward ==
  ASSUME NEW m \in Nat, NEW n \in Nat, m <= n, NEW T, n \in T,
         \A i \in m .. n : i < n /\ i + 1 \in T => i \in T
  PROVE  \A i \in m .. n : i \in T
<1>1. PICK U : U = {j \in 0 .. n - m : n - j \in T}
  OBVIOUS
<1>2. PICK k \in Nat : k = n - m
  OBVIOUS
<1>3. 0 \in U
  BY <1>1
<1>4. ASSUME NEW j \in 0 .. k, 0 < j, j - 1 \in U  PROVE j \in U
  <2>1. PICK i \in m .. n : i = n - j
    BY <1>2, <1>4
  <2>2. n - (j - 1) = i + 1 /\ i < n
    BY <1>4, <2>1
  <2>3. i + 1 \in T
    BY <1>1, <1>4, <2>2
  <2> QED BY <1>1, <1>2, <2>1, <2>2, <2>3
<1>5. \A j \in 0 .. k : j \in U
  BY <1>3, <1>4, Upward
<1>6. ASSUME NEW i \in m .. n  PROVE i \in T
  <2>1. PICK j \in 0 .. k : j = n - i
    BY <1>2
  <2>2. n - j = i /\ j \in U
    BY <1>5, <2>1
  <2> QED BY <1>1, <2>2
<1> QED BY <1>6

LEMMA BytesRange ==
  ASSUME Types, NEW a \in Nat, NEW n \in Nat, InMemory(a, n), NEW w \in Worlds
  PROVE  /\ BytesAt(w, a, n) \in Seq(Byte) /\ Len(BytesAt(w, a, n)) = n
         /\ \A i \in 1 .. n : BytesAt(w, a, n)[i] = mem[w][a + i - 1]
<1>1. CASE n = 0
  <2>1. BytesAt(w, a, n) \in [1 .. n -> Byte]
    BY <1>1 DEF BytesAt
  <2> QED BY <2>1 DEF BytesAt
<1>2. CASE n # 0
  <2>1. a \in Addrs
    BY <1>2, SizeAssumption DEF InMemory, Addrs
  <2> QED BY <2>1, BytesType
<1> QED BY <1>1, <1>2

LEMMA Joined ==
  ASSUME Types, NEW a \in Nat, NEW m \in Nat, NEW n \in Nat, InMemory(a, m + n),
         NEW w \in Worlds
  PROVE  BytesAt(w, a, m) \o BytesAt(w, a + m, n) = BytesAt(w, a, m + n)
<1>1. /\ InMemory(a, m) /\ InMemory(a + m, n) /\ a + m \in Nat /\ m + n \in Nat
  BY SizeAssumption DEF InMemory
<1>2. PICK s \in Seq(Byte) : /\ s = BytesAt(w, a, m) /\ Len(s) = m
                             /\ \A i \in 1 .. m : s[i] = mem[w][a + i - 1]
  BY <1>1, BytesRange
<1>3. PICK t \in Seq(Byte) : /\ t = BytesAt(w, a + m, n) /\ Len(t) = n
                             /\ \A i \in 1 .. n : t[i] = mem[w][(a + m) + i - 1]
  BY <1>1, BytesRange
<1>4. PICK u \in Seq(Byte) : /\ u = BytesAt(w, a, m + n) /\ Len(u) = m + n
                             /\ \A i \in 1 .. m + n : u[i] = mem[w][a + i - 1]
  BY <1>1, BytesRange
<1>5. PICK c \in Seq(Byte) :
        /\ c = s \o t /\ Len(c) = m + n
        /\ \A i \in 1 .. m + n : c[i] = IF i <= m THEN s[i] ELSE t[i - m]
  <2>1. s \in Seq(Byte) /\ t \in Seq(Byte)
    OBVIOUS
  <2>2. /\ s \o t \in Seq(Byte) /\ Len(s \o t) = Len(s) + Len(t)
        /\ \A i \in 1 .. Len(s) + Len(t) :
             (s \o t)[i] = IF i <= Len(s) THEN s[i] ELSE t[i - Len(s)]
    BY ONLY <2>1, ConcatProperties
  <2>3. Len(s) = m /\ Len(t) = n
    BY <1>2, <1>3
  <2>4. /\ Len(s \o t) = m + n
        /\ \A i \in 1 .. m + n : (s \o t)[i] = IF i <= m THEN s[i] ELSE t[i - m]
    BY <2>2, <2>3
  <2> QED BY <2>2, <2>4
<1>6. ASSUME NEW i \in 1 .. m + n  PROVE c[i] = u[i]
  <2>1. CASE i <= m
    <3>1. i \in 1 .. m
      BY <2>1
    <3> QED BY <1>2, <1>4, <1>5, <2>1, <3>1
  <2>2. CASE ~(i <= m)
    <3>1. PICK j \in 1 .. n : j = i - m
      BY <2>2
    <3>2. (a + m) + j - 1 = a + i - 1
      BY <3>1
    <3> QED BY <1>3, <1>4, <1>5, <2>2, <3>1, <3>2
  <2> QED BY <2>1, <2>2
<1>7. c = u
  BY <1>4, <1>5, <1>6, SeqEqual
<1> QED BY <1>2, <1>3, <1>4, <1>5, <1>7

(* Where the next run starts, from b on.                                   *)
Starting(a, n, b) == {c \in RunStarts(a, n) : c >= b} \cup {a + n}
NextRun(a, n, b)  == Min(Starting(a, n, b))

LEMMA NextRunLeast ==
  ASSUME NEW a \in Nat, NEW n \in Nat, NEW b \in a .. a + n
  PROVE  /\ NextRun(a, n, b) \in b .. a + n
         /\ NextRun(a, n, b) = a + n \/ NextRun(a, n, b) \in RunStarts(a, n)
         /\ \A c \in Starting(a, n, b) : NextRun(a, n, b) <= c
<1>1. RunStarts(a, n) \subseteq a .. a + n - 1
  BY DEF RunStarts, Span
<1>2. PICK S : S = Starting(a, n, b)
  OBVIOUS
<1>3. S \in SUBSET Nat /\ a + n \in S /\ \A c \in S : c \in b .. a + n
  BY <1>1, <1>2 DEF Starting
<1>4. Min(S) \in S /\ \A c \in S : Min(S) <= c
  BY <1>3, LeastOf
<1>5. Min(S) = a + n \/ Min(S) \in RunStarts(a, n)
  BY <1>2, <1>4 DEF Starting
<1> QED BY <1>2, <1>3, <1>4, <1>5 DEF NextRun

LEMMA NextRunLaws ==
  ASSUME NEW a \in Nat, NEW n \in Nat, NEW b \in a .. a + n
  PROVE  /\ b = a + n \/ b \in RunStarts(a, n) => NextRun(a, n, b) = b
         /\ b # a + n /\ b \notin RunStarts(a, n) => NextRun(a, n, b) = NextRun(a, n, b + 1)
         /\ \A c \in b .. a + n : c < NextRun(a, n, b) => c \notin RunStarts(a, n)
<1>1. PICK x \in b .. a + n :
        x = NextRun(a, n, b) /\ \A c \in Starting(a, n, b) : x <= c
  BY NextRunLeast
<1>2. ASSUME b = a + n \/ b \in RunStarts(a, n)  PROVE x = b
  <2>1. b \in Starting(a, n, b)
    BY <1>2 DEF Starting
  <2> QED BY <1>1, <2>1
<1>3. ASSUME b # a + n, b \notin RunStarts(a, n)
      PROVE  Starting(a, n, b) = Starting(a, n, b + 1)
  <2>1. RunStarts(a, n) \subseteq Int
    BY DEF RunStarts, Span
  <2>2. \A c \in RunStarts(a, n) : c >= b <=> c >= b + 1
    BY <1>3, <2>1
  <2> QED BY <2>2 DEF Starting
<1>4. ASSUME NEW c \in b .. a + n, c < x  PROVE c \notin RunStarts(a, n)
  <2>1. c \in RunStarts(a, n) => c \in Starting(a, n, b)
    BY DEF Starting
  <2> QED BY <1>1, <1>4, <2>1
<1> QED BY <1>1, <1>2, <1>3, <1>4 DEF NextRun

(* Within a run the tags follow one another.                               *)
LEMMA Continued ==
  ASSUME Types, NEW c \in Addrs, NEW b \in Addrs, b = c - 1, Continues(c), tags[b] # NoTag
  PROVE  tags[c] = [src |-> tags[b].src, index |-> tags[b].index + 1]
<1>1. tags[b] \in Tags
  BY DEF Types
<1>2. PICK k \in Nat, i \in Nat : tags[b] = [src |-> k, index |-> i]
  BY <1>1 DEF Tags
<1>3. tags[c] = [tags[b] EXCEPT !.index = @ + 1]
  BY DEF Continues
<1>4. [tags[b] EXCEPT !.index = @ + 1] = [src |-> k, index |-> i + 1]
  BY <1>2
<1> QED BY <1>2, <1>3, <1>4

LEMMA RunTags ==
  ASSUME Types, NEW a \in Addrs, NEW n \in Nat, InMemory(a, n), NEW b \in RunStarts(a, n),
         tags[b] # NoTag, tags[b].index = 0
  PROVE  \A c \in b .. NextRun(a, n, b + 1) - 1 :
           c \in Addrs /\ tags[c] = [src |-> tags[b].src, index |-> c - b]
<1>1. a \in Nat /\ MemLen \in Nat /\ a + n <= MemLen /\ b \in a .. a + n - 1
  BY SizeAssumption DEF Addrs, InMemory, RunStarts, Span
<1>2. PICK e \in b + 1 .. a + n : e = NextRun(a, n, b + 1)
  <2>1. b + 1 \in a .. a + n
    BY <1>1
  <2> QED BY <1>1, <2>1, NextRunLeast
<1>3. \A c \in b .. e - 1 : c \in Addrs
  BY <1>1, <1>2 DEF Addrs
<1>4. ASSUME NEW c \in b + 1 .. e - 1  PROVE Continues(c)
  <2>1. c \in Span(a, n) /\ c # a /\ b + 1 \in a .. a + n /\ c \in b + 1 .. a + n /\ c < e
    BY <1>1, <1>2 DEF Span
  <2>2. c \notin RunStarts(a, n)
    BY <1>1, <1>2, <2>1, NextRunLaws
  <2> QED BY <2>1, <2>2 DEF RunStarts
<1>5. b \in Addrs /\ tags[b] \in Tags
  <2>1. b \in b .. e - 1
    BY <1>1, <1>2
  <2>2. b \in Addrs
    BY <1>3, <2>1
  <2> QED BY <2>2 DEF Types
<1>6. PICK k \in Nat : tags[b] = [src |-> k, index |-> 0]
  BY <1>5 DEF Tags
<1>7. PICK T : T = {c \in b .. e - 1 : tags[c] = [src |-> k, index |-> c - b]}
  OBVIOUS
<1>8. b \in T
  BY <1>1, <1>2, <1>6, <1>7
<1>9. ASSUME NEW c \in b .. e - 1, b < c, c - 1 \in T  PROVE c \in T
  <2>1. PICK d \in Addrs : d = c - 1
    BY <1>3, <1>7, <1>9
  <2>2. tags[d] = [src |-> k, index |-> d - b] /\ d - b \in Nat
    BY <1>1, <1>7, <1>9, <2>1
  <2>3. tags[d] # NoTag
    <3>1. [src |-> k, index |-> d - b] \in [src : Nat, index : Nat]
      BY <2>2
    <3> QED BY <2>2, <3>1, NoTagAssumption
  <2>4. c \in Addrs /\ Continues(c)
    BY <1>1, <1>3, <1>4, <1>9
  <2>5. tags[c] = [src |-> k, index |-> (d - b) + 1]
    BY <2>1, <2>2, <2>3, <2>4, Continued
  <2>6. (d - b) + 1 = c - b
    BY <1>1, <2>1
  <2> QED BY <1>7, <2>5, <2>6
<1>10. \A c \in b .. e - 1 : c \in T
  <2>1. b \in Nat /\ e - 1 \in Nat
    BY <1>1, <1>2
  <2> QED BY <1>8, <1>9, <2>1, Upward
<1> QED BY <1>2, <1>3, <1>6, <1>7, <1>10

LEMMA RunEnds ==
  ASSUME NEW a \in Nat, NEW n \in Nat, NEW b \in RunStarts(a, n)
  PROVE  /\ RunAt(a, n, b) = [at |-> b, len |-> NextRun(a, n, b + 1) - b]
         /\ RunAt(a, n, b) \in Runs(a, n)
<1>1. b \in Int /\ RunStarts(a, n) \subseteq Int
  BY DEF RunStarts, Span
<1>2. \A c \in RunStarts(a, n) : c > b <=> c >= b + 1
  BY <1>1
<1>3. {c \in RunStarts(a, n) : c > b} \cup {a + n} = Starting(a, n, b + 1)
  BY <1>2 DEF Starting
<1> QED BY <1>3 DEF RunAt, NextRun, Runs

(* The lapses that recover_bytes is charged with.                          *)
LEMMA Charged ==
  ASSUME NEW a, NEW n, NEW r \in Runs(a, n)
  PROVE  /\ IsSource(r) /\ r.len < srcs[tags[r.at].src].len
              => "prefix" \in RecoverLapses(a, n)
         /\ \A w \in Worlds :
              ~IsSource(r) /\ BytesAt(w, r.at, r.len) # BytesAt(Home, r.at, r.len)
                => "elsewhere" \in RecoverLapses(a, n)
BY DEF RecoverLapses, IsSource

(* Where nothing is charged, a part of the expression is its run of bytes. *)
LEMMA PartTrue ==
  ASSUME Types, NEW a \in Addrs, NEW n \in Nat, InMemory(a, n), NEW b \in RunStarts(a, n),
         NEW w \in Worlds, AllBacked(w), Measured(w), "prefix" \notin RecoverLapses(a, n),
         w = Home \/ "elsewhere" \notin RecoverLapses(a, n)
  PROVE  Part(w, RunAt(a, n, b)) = BytesAt(w, b, NextRun(a, n, b + 1) - b)
<1>1. a \in Nat /\ MemLen \in Nat /\ a + n <= MemLen /\ b \in a .. a + n - 1
  BY SizeAssumption DEF Addrs, InMemory, RunStarts, Span
<1>2. PICK e \in b + 1 .. a + n : e = NextRun(a, n, b + 1)
  <2>1. b + 1 \in a .. a + n
    BY <1>1
  <2> QED BY <1>1, <2>1, NextRunLeast
<1>3. PICK m \in Nat \ {0} : m = e - b
  BY <1>1, <1>2
<1>4. PICK r : r = RunAt(a, n, b)
  OBVIOUS
<1>5. r.at = b /\ r.len = m /\ r \in Runs(a, n)
  BY <1>1, <1>2, <1>3, <1>4, RunEnds
<1>6. b \in Nat /\ InMemory(b, m)
  BY <1>1, <1>2, <1>3 DEF InMemory
<1>7. CASE ~IsSource(r)
  <2>1. Part(w, r) = BytesAt(Home, b, m)
    BY <1>5, <1>7 DEF Part
  <2>2. BytesAt(w, b, m) = BytesAt(Home, b, m)
    BY <1>5, <1>7, Charged
  <2> QED BY <1>2, <1>3, <1>4, <2>1, <2>2
<1>8. CASE IsSource(r)
  <2>1. tags[b] # NoTag /\ tags[b].index = 0
    BY <1>5, <1>8 DEF IsSource
  <2>2. \A c \in b .. e - 1 : c \in Addrs /\ tags[c] = [src |-> tags[b].src, index |-> c - b]
    BY <1>2, <2>1, RunTags
  <2>3. PICK k \in 1 .. Len(srcs) : k = tags[b].src
    <3>1. b \in b .. e - 1
      BY <1>1, <1>2
    <3>2. b \in Addrs
      BY <2>2, <3>1
    <3> QED BY <2>1, <3>2 DEF Types, Tags
  <2>4. PICK s \in Sources : s = srcs[k]
    BY DEF Types
  <2>5. PICK v \in Seq(Byte) : v = s.val[w] /\ Len(v) = s.len
    BY <2>4 DEF Sources, Measured
  <2>6. PICK t \in Seq(Byte) : /\ t = BytesAt(w, b, m) /\ Len(t) = m
                               /\ \A i \in 1 .. m : t[i] = mem[w][b + i - 1]
    BY <1>6, BytesRange
  <2>7. ASSUME NEW i \in 1 .. m  PROVE i <= Len(v) /\ t[i] = v[i]
    <3>1. PICK c \in b .. e - 1 : c = b + i - 1 /\ c - b = i - 1 /\ (c - b) + 1 = i
      BY <1>1, <1>2, <1>3
    <3>2. c \in Addrs /\ tags[c] = [src |-> k, index |-> c - b]
      BY <2>2, <2>3
    <3>3. tags[c] # NoTag
      <4>1. [src |-> k, index |-> c - b] \in [src : Nat, index : Nat]
        BY <3>1
      <4> QED BY <3>2, <4>1, NoTagAssumption
    <3>4. c - b < Len(v) /\ mem[w][c] = v[(c - b) + 1]
      BY <2>4, <2>5, <3>2, <3>3 DEF AllBacked, Backed
    <3>5. t[i] = mem[w][c]
      BY <2>6, <3>1
    <3> QED BY <3>1, <3>4, <3>5
  <2>8. m <= Len(v)
    BY <1>3, <2>7
  <2>9. Len(v) <= m
    <3>1. ~(m < s.len)
      BY <1>5, <1>8, <2>3, <2>4, Charged
    <3> QED BY <2>5, <3>1
  <2>10. v = t
    <3>1. Len(t) = Len(v) /\ \A i \in 1 .. Len(t) : t[i] = v[i]
      BY <2>6, <2>7, <2>8, <2>9
    <3> QED BY <3>1, SeqEqual
  <2>11. Part(w, r) = v
    BY <1>5, <1>8, <2>3, <2>4, <2>5 DEF Part
  <2> QED BY <1>2, <1>3, <1>4, <2>6, <2>10, <2>11
<1> QED BY <1>7, <1>8

(* The parts of the runs, from each byte on.                               *)
Froms(w, a, n) ==
  CHOOSE f :
    f = [b \in a .. a + n |->
           IF b = a + n THEN <<>>
           ELSE (IF b \in RunStarts(a, n) THEN Part(w, RunAt(a, n, b)) ELSE <<>>) \o f[b + 1]]

(* What follows from the next run on.                                      *)
Rest(w, a, n, b) == BytesAt(w, NextRun(a, n, b), a + n - NextRun(a, n, b))

(* Where every part is its run of bytes, the rest is the part of the run   *)
(* that starts, and what follows that.                                     *)
LEMMA RestUnfold ==
  ASSUME Types, NEW a \in Nat, NEW n \in Nat, InMemory(a, n), NEW w \in Worlds,
         \A c \in RunStarts(a, n) :
           Part(w, RunAt(a, n, c)) = BytesAt(w, c, NextRun(a, n, c + 1) - c),
         NEW b \in a .. a + n
  PROVE  Rest(w, a, n, b) =
           IF b = a + n THEN <<>>
           ELSE (IF b \in RunStarts(a, n) THEN Part(w, RunAt(a, n, b)) ELSE <<>>)
                  \o Rest(w, a, n, b + 1)
<1>1. CASE b = a + n
  <2>1. NextRun(a, n, b) = b
    BY <1>1, NextRunLaws
  <2>2. BytesAt(w, b, a + n - b) = <<>>
    BY <1>1 DEF BytesAt
  <2> QED BY <1>1, <2>1, <2>2 DEF Rest
<1>2. CASE b # a + n
  <2>1. b + 1 \in a .. a + n /\ b \in Nat
    BY <1>2
  <2>2. PICK e \in b + 1 .. a + n : e = NextRun(a, n, b + 1)
    BY <2>1, NextRunLeast
  <2>3. PICK k \in Nat, m \in Nat : k = e - b /\ m = a + n - e /\ k + m = a + n - b /\ b + k = e
    BY <2>1, <2>2
  <2>4. Rest(w, a, n, b + 1) = BytesAt(w, e, m)
    BY <2>2, <2>3 DEF Rest
  <2>5. CASE b \in RunStarts(a, n)
    <3>1. Rest(w, a, n, b) = BytesAt(w, b, k + m)
      BY <2>3, <2>5, NextRunLaws DEF Rest
    <3>2. Part(w, RunAt(a, n, b)) = BytesAt(w, b, k)
      BY <2>2, <2>3, <2>5
    <3>3. InMemory(b, k + m)
      BY <2>1, <2>3, SizeAssumption DEF InMemory
    <3>4. BytesAt(w, b, k) \o BytesAt(w, e, m) = BytesAt(w, b, k + m)
      BY <2>1, <2>3, <3>3, Joined
    <3> QED BY <1>2, <2>4, <2>5, <3>1, <3>2, <3>4
  <2>6. CASE b \notin RunStarts(a, n)
    <3>1. Rest(w, a, n, b) = BytesAt(w, e, m)
      BY <1>2, <2>2, <2>3, <2>6, NextRunLaws DEF Rest
    <3>2. e \in Nat /\ InMemory(e, m)
      BY <2>1, <2>2, <2>3, SizeAssumption DEF InMemory
    <3>3. BytesAt(w, e, m) \in Seq(Byte)
      BY <3>2, BytesRange
    <3>4. <<>> \o BytesAt(w, e, m) = BytesAt(w, e, m)
      BY <3>3, ConcatEmptySeq
    <3> QED BY <1>2, <2>4, <2>6, <3>1, <3>4
  <2> QED BY <2>5, <2>6
<1> QED BY <1>1, <1>2

(* What is recovered is then the bytes themselves.                         *)
LEMMA Recovers ==
  ASSUME Types, NEW a \in Nat, NEW n \in Nat \ {0}, InMemory(a, n), NEW w \in Worlds,
         \A c \in RunStarts(a, n) :
           Part(w, RunAt(a, n, c)) = BytesAt(w, c, NextRun(a, n, c + 1) - c)
  PROVE  Recovered(w, a, n) = BytesAt(w, a, n)
<1>1. PICK g : g = [b \in a .. a + n |-> Rest(w, a, n, b)]
  OBVIOUS
<1>2. \A b \in a .. a + n : b # a + n => b + 1 \in a .. a + n
  OBVIOUS
<1>3. \A b \in a .. a + n :
        g[b] = IF b = a + n THEN <<>>
               ELSE (IF b \in RunStarts(a, n) THEN Part(w, RunAt(a, n, b)) ELSE <<>>)
                      \o g[b + 1]
  <2>1. ASSUME NEW b \in a .. a + n
        PROVE  g[b] = IF b = a + n THEN <<>>
                      ELSE (IF b \in RunStarts(a, n) THEN Part(w, RunAt(a, n, b)) ELSE <<>>)
                             \o g[b + 1]
    <3>1. g[b] = Rest(w, a, n, b) /\ (b # a + n => g[b + 1] = Rest(w, a, n, b + 1))
      BY <1>1, <1>2
    <3>2. Rest(w, a, n, b) =
           IF b = a + n THEN <<>>
           ELSE (IF b \in RunStarts(a, n) THEN Part(w, RunAt(a, n, b)) ELSE <<>>)
                  \o Rest(w, a, n, b + 1)
      BY RestUnfold
    <3> QED BY <3>1, <3>2
  <2> QED BY <2>1
<1>4. g = [b \in a .. a + n |->
             IF b = a + n THEN <<>>
             ELSE (IF b \in RunStarts(a, n) THEN Part(w, RunAt(a, n, b)) ELSE <<>>) \o g[b + 1]]
  BY <1>1, <1>3
<1>5. PICK f : f = Froms(w, a, n)
  OBVIOUS
<1>6. f = [b \in a .. a + n |->
             IF b = a + n THEN <<>>
             ELSE (IF b \in RunStarts(a, n) THEN Part(w, RunAt(a, n, b)) ELSE <<>>) \o f[b + 1]]
  BY <1>4, <1>5 DEF Froms
<1>7. PICK T : T = {b \in a .. a + n : f[b] = g[b]}
  OBVIOUS
<1>8. a + n \in T
  BY <1>3, <1>6, <1>7
<1>9. ASSUME NEW b \in a .. a + n, b < a + n, b + 1 \in T  PROVE b \in T
  BY <1>3, <1>6, <1>7, <1>9
<1>10. a + n \in Nat /\ a <= a + n /\ a \in a .. a + n
  OBVIOUS
<1>11. \A b \in a .. a + n : b \in T
  BY <1>8, <1>9, <1>10, Downward
<1>12. f[a] = Rest(w, a, n, a)
  BY <1>1, <1>7, <1>10, <1>11
<1>13. Recovered(w, a, n) = f[a]
  BY <1>5 DEF Recovered, Froms
<1>14. NextRun(a, n, a) = a
  <2>1. a \in RunStarts(a, n)
    BY DEF RunStarts, Span
  <2> QED BY <1>10, <2>1, NextRunLaws
<1>15. Rest(w, a, n, a) = BytesAt(w, a, n)
  <2>1. a + n - a = n
    OBVIOUS
  <2> QED BY <1>14, <2>1 DEF Rest
<1> QED BY <1>12, <1>13, <1>15

LEMMA RespondKeeps ==
  ASSUME IInv, NEW a \in Addrs, NEW n \in 1 .. MemLen, Respond(a, n)
  PROVE  IInv'
<1>1. Types /\ n \in Nat \ {0} /\ InMemory(a, n) /\ a \in Nat /\ Home \in Worlds
  BY SizeAssumption DEF IInv, Respond, Addrs
<1>2. /\ UNCHANGED <<env, mem, tags, srcs, vs>>
      /\ lapses' = lapses \cup RecoverLapses(a, n)
      /\ response' = [lifted   |-> [w \in Worlds |-> Recovered(w, a, n)],
                      returned |-> [w \in Worlds |-> BytesAt(w, a, n)]]
  BY DEF Respond
<1>3. ASSUME NEW w \in Worlds, CleanIn(w)', "prefix" \notin lapses'
      PROVE  Recovered(w, a, n) = BytesAt(w, a, n)
  <2>1. CleanIn(w)
    BY <1>2, <1>3 DEF CleanIn
  <2>2. AllBacked(w) /\ Measured(w)
    BY <2>1 DEF IInv, Holds
  <2>3. "prefix" \notin RecoverLapses(a, n) /\ (w = Home \/ "elsewhere" \notin RecoverLapses(a, n))
    BY <1>2, <1>3 DEF CleanIn
  <2>4. \A c \in RunStarts(a, n) :
          Part(w, RunAt(a, n, c)) = BytesAt(w, c, NextRun(a, n, c + 1) - c)
    BY <1>1, <2>2, <2>3, PartTrue
  <2> QED BY <1>1, <2>4, Recovers
<1>4. ASSUME lapses' \subseteq {"elsewhere"}
      PROVE  response'.lifted[Home] = response'.returned[Home]
  <2>1. CleanIn(Home)' /\ "prefix" \notin lapses'
    BY <1>4 DEF CleanIn
  <2> QED BY <1>1, <1>2, <1>3, <2>1
<1>5. ASSUME lapses' = {}  PROVE response'.lifted = response'.returned
  <2>1. \A w \in Worlds : CleanIn(w)' /\ "prefix" \notin lapses'
    BY <1>5 DEF CleanIn
  <2>2. \A w \in Worlds : Recovered(w, a, n) = BytesAt(w, a, n)
    BY <1>3, <2>1
  <2> QED BY <1>2, <2>2
<1>6. LiftFaithful'
  BY <1>4, <1>5 DEF LiftFaithful
<1>7. vs' \in Seq(Values)
  BY <1>1, <1>2 DEF Types
<1>8. \A w \in Worlds : CleanIn(w)' /\ Holds(w) => AllAgree(w, vs')
  BY <1>2 DEF Holds
<1> QED BY <1>2, <1>6, <1>7, <1>8, Computed

----------------------------------------------------------------------------
(* The interpreter *)

LEMMA InitInv == Init => IInv
<1> SUFFICES ASSUME Init  PROVE IInv
  OBVIOUS
<1>1. Types
  <2>1. 0 \in Byte
    BY BaseType DEF Byte
  <2>2. [a \in Addrs |-> 0] \in [Addrs -> Byte]
    BY <2>1
  <2>3. mem \in [Worlds -> [Addrs -> Byte]]
    BY <2>2 DEF Init
  <2>4. srcs \in Seq(Sources) /\ vs \in Seq(Values)
    BY DEF Init
  <2>5. tags \in [Addrs -> Tags \cup {NoTag}]
    BY DEF Init
  <2> QED BY <2>3, <2>4, <2>5 DEF Init, Types
<1>2. NumberSources
  BY DEF Init, NumberSources
<1>3. ASSUME NEW w \in Worlds  PROVE Holds(w)
  <2>1. AllBacked(w)
    BY DEF Init, AllBacked, Backed
  <2>2. Measured(w) /\ AllAgree(w, vs)
    BY DEF Init, Measured, AllAgree
  <2> QED BY <2>1, <2>2 DEF Holds
<1>4. LiftFaithful
  BY DEF Init, LiftFaithful
<1> QED BY <1>1, <1>2, <1>3, <1>4 DEF IInv

LEMMA StaysInv ==
  ASSUME IInv, UNCHANGED <<env, mem, tags, srcs, vs, lapses>>, LiftFaithful'
  PROVE  IInv'
<1>1. vs' \in Seq(Values)
  BY DEF IInv, Types
<1>2. \A w \in Worlds : CleanIn(w)' /\ Holds(w) => AllAgree(w, vs')
  BY DEF Holds
<1> QED BY <1>1, <1>2, Computed

LEMMA StepInv == IInv /\ [Next]_vars => IInv'
<1> SUFFICES ASSUME IInv, [Next]_vars  PROVE IInv'
  OBVIOUS
<1>1. ASSUME NEW a \in Addrs, LoadContext(a) \/ RequestStorage(a) \/ Height(a)  PROVE IInv'
  BY <1>1, LoadContextKeeps, RequestStorageKeeps, HeightKeeps
<1>2. ASSUME NEW a \in Addrs, NEW p \in Addrs, LoadStorage(p, a)  PROVE IInv'
  BY <1>2, LoadStorageKeeps
<1>3. ASSUME NEW a \in Addrs, NEW n \in Widths, Store(a, n)  PROVE IInv'
  BY <1>3, StoreKeeps
<1>4. ASSUME NEW a \in Addrs, NEW n \in Widths, NEW signed \in BOOLEAN, Load(a, n, signed)
      PROVE  IInv'
  BY <1>4, LoadKeeps
<1>5. ASSUME NEW a \in Addrs, NEW n \in Sizes, NEW s \in Addrs, MemoryCopy(a, s, n)  PROVE IInv'
  BY <1>5, MemoryCopyKeeps
<1>6. ASSUME NEW a \in Addrs, NEW n \in Sizes, NEW v \in Byte, MemoryFill(a, n, v)  PROVE IInv'
  BY <1>6, MemoryFillKeeps
<1>7. ASSUME NEW a \in Addrs, NEW n \in 1 .. MemLen, Respond(a, n)  PROVE IInv'
  BY <1>7, RespondKeeps
<1>8. ASSUME NEW c \in Byte, PushConstant(c)  PROVE IInv'
  BY <1>8, PushConstantKeeps
<1>9. ASSUME NEW op \in BinaryOps, NEW n \in {Int32, Int64}, Symbolic(op, n)  PROVE IInv'
  BY <1>9, SymbolicKeeps
<1>10. CASE Untagged
  BY <1>10, UntaggedKeeps
<1>11. ASSUME NEW signed \in BOOLEAN, Convert(signed)  PROVE IInv'
  BY <1>11, ConvertKeeps
<1>12. CASE Trap
  <2>1. LiftFaithful'
    BY <1>12 DEF Trap, LiftFaithful
  <2>2. UNCHANGED <<env, mem, tags, srcs, vs, lapses>>
    BY <1>12 DEF Trap
  <2> QED BY <2>1, <2>2, StaysInv
<1>13. CASE UNCHANGED vars
  <2>1. LiftFaithful'
    BY <1>13 DEF vars, LiftFaithful, IInv
  <2>2. UNCHANGED <<env, mem, tags, srcs, vs, lapses>>
    BY <1>13 DEF vars
  <2> QED BY <2>1, <2>2, StaysInv
<1> QED BY <1>1, <1>2, <1>3, <1>4, <1>5, <1>6, <1>7, <1>8, <1>9, <1>10, <1>11, <1>12, <1>13
        DEF Next

(* Whatever a guest writes, copies, fills and loads: memory holds bytes,   *)
(* tags name sources there are, what is tagged as the bytes of a number is *)
(* these bytes, and in each world where nothing was slipped the tags, the  *)
(* lengths of the sources and the numbers are what they say (Interp,       *)
(* exec_body).                                                             *)
THEOREM Invariant == Spec => []IInv
BY InitInv, StepInv, PTL DEF Spec

(* A tag is never stale, for every memory and every guest: unless a load   *)
(* was of another key than the last request, a number was stored wider     *)
(* than it was read, or a division or shift brought down high bits that    *)
(* the guest had dropped (write_mem, tag_bytes, memory.copy).              *)
THEOREM TagsTrue == Spec => []TagsSound
<1>1. ASSUME IInv, lapses \cap {"key", "width", "high"} = {}  PROVE Sound(Home)
  <2>1. Home \in Worlds /\ CleanIn(Home)
    BY <1>1, SizeAssumption DEF CleanIn
  <2>2. AllBacked(Home)
    BY <1>1, <2>1 DEF IInv, Holds
  <2> QED BY <2>2 DEF AllBacked, Backed, Sound
<1>2. IInv => TagsSound
  BY <1>1 DEF TagsSound
<1> QED BY <1>2, Invariant, PTL

(* A number and its expression agree in the bytes that were read as one,   *)
(* for every base and width of numbers and all ten operators with          *)
(* expressions, however they wrap or extend (recover_num, exec_numeric).   *)
THEOREM NumbersTrue == Spec => []NumbersAgree
<1>1. ASSUME IInv, lapses \cap {"key", "width", "high"} = {}  PROVE AllAgree(Home, vs)
  <2>1. Home \in Worlds /\ CleanIn(Home)
    BY <1>1, SizeAssumption DEF CleanIn
  <2> QED BY <1>1, <2>1 DEF IInv, Holds
<1>2. IInv => NumbersAgree
  BY <1>1 DEF NumbersAgree, AllAgree, Agrees, Same
<1> QED BY <1>2, Invariant, PTL

(* The plan that recover_bytes makes of the response evaluates to what the *)
(* guest returned, unless by one of the named slips; and without them to   *)
(* what it returns in every other world too, for every memory, every       *)
(* layout of sources in it and every number of worlds (extract_response).  *)
THEOREM Faithful == Spec => []LiftFaithful
<1>1. IInv => LiftFaithful
  BY DEF IInv
<1> QED BY <1>1, Invariant, PTL
=============================================================================
