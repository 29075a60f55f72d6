------------------------------ MODULE LiftMemory ------------------------------
(***************************************************************************)
(* The provenance that the concolic interpreter keeps: while a method runs *)
(* concretely in one world, memory bytes are tagged with the source they   *)
(* came from and numbers with the expression they are, and the tags of the *)
(* response become the plan.                                               *)
(*                                                                         *)
(* The guest is any straight-line program; addresses are concrete, as they *)
(* are to the interpreter.  An expression is represented by what it        *)
(* evaluates to in each world, so that a plan can be compared with what    *)
(* the same guest would have returned elsewhere.  The parameters shrink    *)
(* bytes, numbers and memory; their order is kept.  Locals only move       *)
(* values, and globals forget their expressions: neither is modelled.      *)
(***************************************************************************)
EXTENDS ByteNumbers, FiniteSetsExt

CONSTANTS
  Worlds, Home,   \* the worlds, and the one the lift runs in
  Envs,           \* [storage, calldata, height], each per world
  MemLen,         \* bytes of memory
  KeyLen,         \* bytes of a storage key in memory
  HeightLen,      \* bytes that __height writes
  Int32, Int64,   \* bytes of an i32 and of an i64
  ByteBits,       \* bits of a byte
  MaxSteps,       \* operators the guest executes
  Sizes,          \* lengths of the ranges it copies or fills
  NoTag, NoSym, NoKey

ASSUME SizeAssumption ==
  /\ {MemLen, KeyLen, HeightLen, Int32, Int64, ByteBits} \subseteq Nat \ {0}
  /\ Int32 <= Int64 /\ Int64 <= PlanLen /\ HeightLen <= Int64
  /\ Home \in Worlds /\ MaxSteps \in Nat /\ Sizes \subseteq Nat

ASSUME NoTagAssumption == NoTag \notin [src : Nat, index : Nat]

Addrs == 0 .. MemLen - 1

(* A world holds byte strings in storage, arguments that are as long in    *)
(* every world, and a height.                                              *)
ASSUME EnvAssumption ==
  \A e \in Envs :
    /\ \A w \in Worlds : \A k \in DOMAIN e.storage[w] : e.storage[w][k] \in Seq(Byte)
    /\ e.calldata \in [Worlds -> Seq(Byte)]
    /\ \A w \in Worlds : Len(e.calldata[w]) = Len(e.calldata[Home])
    /\ e.height \in [Worlds -> Num]

Bits(n) == n * ByteBits

(* The bitwise operators work on the lowest n bytes as on numbers of n     *)
(* bytes.                                                                  *)
ASSUME PlanAssumption ==
  /\ NumBits = Bits(PlanLen) /\ NumBits <= Modulus
  /\ \A f \in {BitAnd, BitOr, BitXor}, n \in 0 .. PlanLen, x \in Num, y \in Num :
       f[x][y] % Power(n) = f[x % Power(n)][y % Power(n)]

(* What a plan reads of bytes: the number of as many as its numbers have.  *)
Read(bytes) == FromLe(bytes) % Modulus

VARIABLES
  env,      \* what the worlds hold; never changes
  mem,      \* mem[w]: the memory, address by address, as it would be in w
  tags,     \* per address the provenance [src, index], or NoTag
  srcs,     \* the byte strings tags refer to, in the order of their creation
  vs,       \* the value stack
  pending,  \* pending_key: the key of the last request, or NoKey
  steps, status,
  response, \* what is lifted and what the guest returns, per world
  lapses    \* history: how tags came to say more than they may

vars == <<env, mem, tags, srcs, vs, pending, steps, status, response, lapses>>

(* A source stands for the bytes val[w] in world w; a value has concrete   *)
(* bits c[w] and perhaps the number s[w] that its expression evaluates to. *)
(* Of those, the lowest "sure" bytes were read or computed as one.         *)
Value(c, s, sure) == [c |-> c, s |-> s, sure |-> sure]
Constant(c) == Value(c, NoSym, Int64)

NoResponse == [lifted |-> <<>>, returned |-> <<>>]

Init ==
  /\ env \in Envs
  /\ mem = [w \in Worlds |-> [a \in Addrs |-> 0]]
  /\ tags = [a \in Addrs |-> NoTag]
  /\ srcs = <<>> /\ vs = <<>> /\ pending = NoKey
  /\ steps = 0 /\ status = "running" /\ response = NoResponse
  /\ lapses = {}

InMemory(a, n) == a + n <= MemLen
Span(a, n)     == a .. a + n - 1
BytesAt(w, a, n) == [i \in 1 .. n |-> mem[w][a + i - 1]]

(* One operator within the guest's straight line. *)
Step ==
  /\ status = "running" /\ steps < MaxSteps
  /\ steps' = steps + 1
  /\ UNCHANGED <<env, status, response>>

(* write_mem: the bytes of each world, and no tag where they are.          *)
Write(a, n, data) ==
  mem' = [w \in Worlds |->
            [b \in Addrs |-> IF b \in Span(a, n) THEN data[w][b - a + 1] ELSE mem[w][b]]]

(* tag_bytes after write_mem has cleared what was there.                   *)
TagAs(a, n, src) ==
  tags' = [b \in Addrs |->
             IF b \in Span(a, n) THEN [src |-> src, index |-> b - a] ELSE tags[b]]

Clear(a, n) == tags' = [b \in Addrs |-> IF b \in Span(a, n) THEN NoTag ELSE tags[b]]

(* The bytes of a number are the source of that number, others of none.    *)
Source(kind, len, val, of) == [kind |-> kind, len |-> len, val |-> val, of |-> of]
NewSource(s) == srcs' = Append(srcs, s)
NewId == Len(srcs) + 1

----------------------------------------------------------------------------
(* recover_bytes: the runs of bytes that continue one source, or none.     *)

Continues(a) ==
  IF tags[a] = NoTag \/ tags[a - 1] = NoTag THEN tags[a] = tags[a - 1]
  ELSE tags[a] = [tags[a - 1] EXCEPT !.index = @ + 1]

RunStarts(a, n) == {b \in Span(a, n) : b = a \/ ~Continues(b)}

(* The run that starts at b, of those from a up to the end.                *)
RunAt(a, n, b) ==
  [at |-> b, len |-> Min({c \in RunStarts(a, n) : c > b} \cup {a + n}) - b]

Runs(a, n) == {RunAt(a, n, b) : b \in RunStarts(a, n)}

AnyIndex(r) == tags[r.at] # NoTag

(* A run from the first byte of its source on is taken for the source; any *)
(* other, and bytes without a tag, become a constant.                      *)
IsSource(r) == tags[r.at] # NoTag /\ tags[r.at].index = 0

Part(w, r) == IF IsSource(r) THEN srcs[tags[r.at].src].val[w] ELSE BytesAt(Home, r.at, r.len)

(* What the recovered bytes evaluate to in w: the parts of all runs.       *)
Recovered(w, a, n) ==
  LET starts == RunStarts(a, n)
      from[b \in a .. a + n] ==
        IF b = a + n THEN <<>>
        ELSE (IF b \in starts THEN Part(w, RunAt(a, n, b)) ELSE <<>>) \o from[b + 1]
  IN  from[a]

(* Where the expression recovered from a range may say something else.    *)
RecoverLapses(a, n) ==
  LET whole(r) == tags[r.at] # NoTag /\ tags[r.at].index = 0
      varies(r) == \E w \in Worlds : BytesAt(w, r.at, r.len) # BytesAt(Home, r.at, r.len)
  IN  {"prefix" : r \in {x \in Runs(a, n) : whole(x) /\ x.len < srcs[tags[x.at].src].len}}
        \cup {"elsewhere" : r \in {x \in Runs(a, n) : ~whole(x) /\ varies(x)}}

----------------------------------------------------------------------------
(* host_call *)

(* Every byte of the calldata gets a source of its own, each of which is   *)
(* the whole calldata.  The rest of the context has no tags.               *)
LoadContext(a) ==
  /\ Step
  /\ LET data == env.calldata
         n    == Len(data[Home])
     IN  /\ InMemory(a, n)
         /\ Write(a, n, data)
         /\ srcs' = srcs \o [j \in 1 .. n |-> Source("calldata", n, data, NoSym)]
         /\ tags' = [b \in Addrs |->
                       IF b \in Span(a, n) THEN [src |-> NewId + b - a, index |-> b - a]
                       ELSE tags[b]]
  /\ UNCHANGED <<vs, pending, lapses>>

KeyEnd(p)      == Min({KeyLen, MemLen - p})
KeyAt(w, p)    == BytesAt(w, p, KeyEnd(p))
SymKey(p)      == [w \in Worlds |-> Recovered(w, p, KeyEnd(p))]
Stored(w, key) == IF key \in DOMAIN env.storage[w] THEN env.storage[w][key] ELSE <<>>

RequestStorage(p) ==
  /\ Step
  /\ pending' = SymKey(p)
  /\ vs' = Append(vs, Constant([w \in Worlds |-> Len(Stored(w, KeyAt(w, p)))]))
  /\ UNCHANGED <<mem, tags, srcs, lapses>>

(* The value is read under the key in memory; its tags say it was read     *)
(* under the key of the last request.                                      *)
LoadStorage(p, a) ==
  /\ Step
  /\ LET key  == IF pending = NoKey THEN SymKey(p) ELSE pending
         data == [w \in Worlds |-> Stored(w, KeyAt(w, p))]
         n    == Len(data[Home])
     IN  /\ InMemory(a, n) /\ \A w \in Worlds : Len(data[w]) = n
         /\ Write(a, n, data)
         /\ NewSource(Source("storage", n, [w \in Worlds |-> Stored(w, key[w])], NoSym))
         /\ TagAs(a, n, NewId)
         /\ lapses' = lapses
              \cup (IF key[Home] # KeyAt(Home, p) THEN {"key"} ELSE {})
              \cup (IF \E w \in Worlds : key[w] # KeyAt(w, p) THEN {"elsewhere"} ELSE {})
  /\ UNCHANGED <<vs, pending>>

Height(a) ==
  /\ Step /\ InMemory(a, HeightLen)
  /\ LET data == [w \in Worlds |-> LeBytes(env.height[w], HeightLen)]
     IN  /\ Write(a, HeightLen, data)
         /\ NewSource(Source("le", HeightLen, data, env.height))
  /\ TagAs(a, HeightLen, NewId)
  /\ UNCHANGED <<vs, pending, lapses>>

----------------------------------------------------------------------------
(* Memory operators *)

AnyBeginning(a, n) ==
  LET first == tags[a]
      src   == srcs[first.src]
  IN  IF \/ first = NoTag
         \/ \E j \in 0 .. n - 1 :
              tags[a + j] # [src |-> first.src, index |-> first.index + j]
      THEN NoSym
      ELSE IF src.kind = "le" /\ src.len = n THEN src.of
      ELSE IF src.kind = "storage" THEN [w \in Worlds |-> Read(src.val[w])]
      ELSE NoSym

(* recover_num: bytes that are the beginning of one source are a number if *)
(* that is the number's own bytes, or a storage value, however long.       *)
RecoverNum(a, n) ==
  LET first == tags[a]
      src   == srcs[first.src]
  IN  IF \/ first = NoTag
         \/ \E j \in 0 .. n - 1 : tags[a + j] # [src |-> first.src, index |-> j]
      THEN NoSym
      ELSE IF src.kind = "le" /\ src.len = n THEN src.of
      ELSE IF src.kind = "storage" THEN [w \in Worlds |-> Read(src.val[w])]
      ELSE NoSym

(* Bits of a number of n bytes, spread over an i64 by its highest bit.     *)
SignExtend(c, n) ==
  IF 2 * c >= Power(n) THEN c + Power(Int64) - Power(n) ELSE c

Load(a, n, signed) ==
  /\ Step /\ InMemory(a, n)
  /\ LET c(w) == FromLe(BytesAt(w, a, n))
     IN  vs' = Append(vs, Value([w \in Worlds |-> IF signed THEN SignExtend(c(w), n) ELSE c(w)],
                                RecoverNum(a, n), n))
  /\ UNCHANGED <<mem, tags, srcs, pending, lapses>>

Top == vs[Len(vs)]
Pop(n) == SubSeq(vs, 1, Len(vs) - n)

(* A number with an expression tags the bytes as that number's.            *)
Store(a, n) ==
  /\ Step /\ InMemory(a, n) /\ vs # <<>>
  /\ Write(a, n, [w \in Worlds |-> LeBytes(Top.c[w], n)])
  /\ IF Top.s = NoSym
     THEN Clear(a, n) /\ UNCHANGED srcs
     ELSE /\ NewSource(Source("le", n, [w \in Worlds |-> LeBytes(Top.s[w], n)], Top.s))
          /\ TagAs(a, n, NewId)
  /\ vs' = Pop(1)
  /\ lapses' = lapses \cup (IF Top.s # NoSym /\ Top.sure < n THEN {"width"} ELSE {})
  /\ UNCHANGED pending

CopyInPlace(d, s, n) ==
  /\ Step /\ InMemory(s, n) /\ InMemory(d, n)
  /\ Write(d, n, [w \in Worlds |-> BytesAt(w, s, n)])
  /\ tags' = [b \in Addrs |-> IF b \in Span(d, n) /\ tags[b - d + s] # NoTag
                              THEN tags[b - d + s] ELSE tags[b]]
  /\ UNCHANGED <<srcs, vs, pending, lapses>>

(* memory.copy takes the provenance along, of overlapping ranges too.      *)
MemoryCopy(d, s, n) ==
  /\ Step /\ InMemory(s, n) /\ InMemory(d, n)
  /\ Write(d, n, [w \in Worlds |-> BytesAt(w, s, n)])
  /\ tags' = [b \in Addrs |-> IF b \in Span(d, n) THEN tags[b - d + s] ELSE tags[b]]
  /\ UNCHANGED <<srcs, vs, pending, lapses>>

MemoryFill(d, n, v) ==
  /\ Step /\ InMemory(d, n)
  /\ Write(d, n, [w \in Worlds |-> [i \in 1 .. n |-> v]])
  /\ Clear(d, n)
  /\ UNCHANGED <<srcs, vs, pending, lapses>>

----------------------------------------------------------------------------
(* exec_numeric *)

PushConstant(c) ==
  /\ Step
  /\ vs' = Append(vs, Constant([w \in Worlds |-> c]))
  /\ UNCHANGED <<mem, tags, srcs, pending, lapses>>

(* An operand without an expression is the constant it is at home.         *)
AsSym(v, n) ==
  IF v.s # NoSym THEN v.s ELSE [w \in Worlds |-> v.c[Home] % Power(n)]

Materialized(v) ==
  IF v.s = NoSym /\ \E w \in Worlds : v.c[w] # v.c[Home] THEN {"elsewhere"} ELSE {}

(* The operators whose result depends on all of an operand, and not only   *)
(* in its lowest bytes on the lowest bytes of the operand.                 *)
WholeLeft  == {"div", "mod", "shr"}
WholeRight == WholeLeft \cup {"shl"}

(* The guest's operands in a world; a shift is by less than the width.     *)
Left(v, n, w)      == v.c[w] % Power(n)
Right(op, v, n, w) == v.c[w] % (IF op \in {"shl", "shr"} THEN Bits(n) ELSE Power(n))

(* Where a division fails the plan and the guest end; 0 takes the place of *)
(* what they would have gone on with.                                      *)
Outcome(op, x, y) == IF Apply(op, x, y) = Err THEN 0 ELSE Apply(op, x, y)

(* add, sub, mul, div_u, rem_u, the bitwise operators, shl and shr_u: the  *)
(* guest computes in n bytes, the plan in its own.                         *)
Symbolic(op, n) ==
  /\ Step /\ Len(vs) > 1
  /\ LET y == Top
         x == vs[Len(vs) - 1]
         c == [w \in Worlds |-> Outcome(op, Left(x, n, w), Right(op, y, n, w)) % Power(n)]
         s == [w \in Worlds |-> Outcome(op, AsSym(x, n)[w], AsSym(y, n)[w])]
         strays(w) == \/ op \in WholeLeft  /\ AsSym(x, n)[w] # Left(x, n, w)
                      \/ op \in WholeRight /\ AsSym(y, n)[w] # Right(op, y, n, w)
         sure == Min({n} \cup {x.sure : o \in {op} \ WholeLeft}
                         \cup {y.sure : o \in {op} \ WholeRight})
     IN  /\ op \in {"div", "mod"} => Right(op, y, n, Home) # 0
         /\ IF x.s = NoSym /\ y.s = NoSym
            THEN vs' = Append(Pop(2), Constant(c)) /\ UNCHANGED lapses
            ELSE /\ vs' = Append(Pop(2), Value(c, s, sure))
                 /\ lapses' = lapses \cup Materialized(x) \cup Materialized(y)
                      \cup (IF strays(Home) THEN {"high"} ELSE {})
                      \cup (IF \E w \in Worlds : strays(w) THEN {"elsewhere"} ELSE {})
  /\ UNCHANGED <<mem, tags, srcs, pending>>

(* Comparisons, signed and counting operators: a number without expression *)
(* (the condition a comparison carries is for select, which is left out).  *)
Untagged ==
  /\ Step /\ Len(vs) > 1
  /\ vs' = Append(Pop(2), Constant([w \in Worlds |->
                                      IF vs[Len(vs) - 1].c[w] < Top.c[w] THEN 1 ELSE 0]))
  /\ UNCHANGED <<mem, tags, srcs, pending, lapses>>

(* Conversions between i32 and i64 keep the expression as it is.           *)
Convert(signed) ==
  /\ Step /\ vs # <<>>
  /\ LET low(w) == Top.c[w] % Power(Int32)
     IN  vs' = Append(Pop(1),
                 Value([w \in Worlds |-> IF signed THEN SignExtend(low(w), Int32) ELSE low(w)],
                       Top.s, Min({Top.sure, Int32})))
  /\ UNCHANGED <<mem, tags, srcs, pending, lapses>>

----------------------------------------------------------------------------
(* The guest leaves memory, or stops. *)
Trap ==
  /\ status = "running"
  /\ status' = "trapped"
  /\ UNCHANGED <<env, mem, tags, srcs, vs, pending, steps, response, lapses>>

(* extract_response: the data of the response, recovered from its tags.    *)
Respond(a, n) ==
  /\ status = "running" /\ InMemory(a, n)
  /\ status' = "lifted"
  /\ response' = [lifted   |-> [w \in Worlds |-> Recovered(w, a, n)],
                  returned |-> [w \in Worlds |-> BytesAt(w, a, n)]]
  /\ lapses' = lapses \cup RecoverLapses(a, n)
  /\ UNCHANGED <<env, mem, tags, srcs, vs, pending, steps>>

Widths == 1 .. Int64

Next ==
  \/ \E a \in Addrs :
       \/ LoadContext(a) \/ RequestStorage(a) \/ Height(a)
       \/ \E p \in Addrs : LoadStorage(p, a)
       \/ \E n \in Widths : Store(a, n) \/ \E signed \in BOOLEAN : Load(a, n, signed)
       \/ \E n \in Sizes :
            \/ \E s \in Addrs : MemoryCopy(a, s, n)
            \/ \E v \in Byte : MemoryFill(a, n, v)
       \/ \E n \in 1 .. MemLen : Respond(a, n)
  \/ \E c \in Byte : PushConstant(c)
  \/ \E op \in BinaryOps, n \in {Int32, Int64} : Symbolic(op, n)
  \/ Untagged
  \/ \E signed \in BOOLEAN : Convert(signed)
  \/ Trap

Spec == Init /\ [][Next]_vars

----------------------------------------------------------------------------
(* Tags are never stale: each tagged byte is the byte of its source that   *)
(* the tag names, whatever was written, moved or cleared since; unless a   *)
(* load was of another key than the last request ("key"), a number was     *)
(* stored wider than it was read ("width"), or high bits that the guest    *)
(* dropped and the plan keeps came down by a division or shift ("high").   *)
Sound(w) ==
  \A a \in Addrs : tags[a] # NoTag =>
    /\ tags[a].index < Len(srcs[tags[a].src].val[w])
    /\ mem[w][a] = srcs[tags[a].src].val[w][tags[a].index + 1]
TagsSound == lapses \cap {"key", "width", "high"} = {} => Sound(Home)

(* A number agrees with its expression in the bytes that were read as one: *)
(* wrapping, extension and the wider arithmetic of the plan do not differ  *)
(* there, but for the same three slips.                                    *)
NumbersAgree ==
  lapses \cap {"key", "width", "high"} = {} =>
    \A i \in 1 .. Len(vs) : vs[i].s # NoSym =>
      vs[i].s[Home] % Power(vs[i].sure) = vs[i].c[Home] % Power(vs[i].sure)

(* The lifted plan reproduces the run it was lifted from, unless by one of *)
(* these slips or by a run of bytes cut short ("prefix"); and if neither   *)
(* data nor operands are different elsewhere from what the lift took them  *)
(* for, it computes what the guest returns in every world.                 *)
LiftFaithful ==
  status = "lifted" =>
    /\ lapses \subseteq {"elsewhere"} => response.lifted[Home] = response.returned[Home]
    /\ lapses = {} => response.lifted = response.returned
=============================================================================
