--------------------------- MODULE ProbeHostProofs ---------------------------
(***************************************************************************)
(* What a probe run reports, for every guest, world and budget.            *)
(***************************************************************************)
EXTENDS ProbeHost, WellFoundedInduction, TLAPS

(* The handlers keep the record of requests complete, and the first reason *)
(* for a disqualification; a run in progress has no outcome yet.           *)
Recorded ==
  /\ keys = asked
  /\ asked \in Seq(Keys)
  /\ reached \in Seq(Foreign)
  /\ disqualified = IF reached = <<>> THEN None ELSE Facility(reached[1])
  /\ phase \in {"start", "execute", "ended"}
  /\ phase # "ended" => outcome = <<"none">>

HInv == Recorded /\ KeysExplain /\ Verdict

(* A run that an error ends now is reported by what it reached: Conclude   *)
(* looks at the disqualification first.                                    *)
LEMMA AbandonVerdict ==
  ASSUME Recorded, phase \in {"start", "execute"},
         Abandon, reached' = reached
  PROVE  Verdict' /\ phase' = "ended"
<1>1. CASE phase = "start"
  BY <1>1 DEF Abandon, GiveUp, Verdict
<1>2. CASE phase = "execute"
  <2>1. outcome' = IF disqualified # None THEN <<"disqualified", disqualified>>
                   ELSE <<"trap">>
    BY <1>2 DEF Abandon, Conclude
  <2>2. CASE reached = <<>>
    BY <1>2, <2>1, <2>2 DEF Recorded, Abandon, Conclude, Verdict
  <2>3. CASE reached # <<>>
    <3>1. reached[1] \in Foreign
      BY <2>3 DEF Recorded
    <3>2. disqualified # None /\ disqualified = Facility(reached[1])
      BY <2>3, <3>1, FacilityAssumption DEF Recorded
    <3> QED BY <1>2, <2>1, <2>3, <3>2 DEF Abandon, Conclude, Verdict
  <2> QED BY <2>2, <2>3
<1> QED BY <1>1, <1>2

(* What a call leaves of the verdict, whatever the host replies.           *)
LEMMA ReplyVerdict ==
  ASSUME Recorded, Verdict, NEW here, NEW there, Reply(here, there),
         reached' = reached \/ here = Ok(None)
  PROVE  /\ Verdict'
         /\ phase' \in {"start", "execute", "ended"}
         /\ phase' # "ended" => outcome' = <<"none">>
<1>0. phase \in {"start", "execute"} /\ outcome = <<"none">>
  BY DEF Reply, Burn, Recorded
<1>1. CASE here.kind = "ok" /\ UNCHANGED <<phase, result>>
  BY <1>0, <1>1 DEF result, Verdict
<1>2. CASE here.kind = "err" /\ Abandon
  BY <1>0, <1>2, AbandonVerdict DEF Ok
<1>3. CASE here.kind = "panic" /\ Panic
  BY <1>0, <1>3 DEF Panic, Verdict
<1> QED BY <1>1, <1>2, <1>3 DEF Reply

(* Before the run nothing is recorded, and nothing was asked.              *)
LEMMA InitRecorded == Init => HInv
BY DEF Init, HInv, Recorded, KeysExplain, Verdict

(* The bookkeeping and the verdict: only a request touches keys and asked, *)
(* and only a foreign call reached and disqualified, together.             *)
LEMMA RecordedStep ==
  ASSUME Recorded, Verdict, [Next]_vars
  PROVE  Recorded' /\ Verdict'
<1>1. CASE RequestContext \/ Log \/ Abort \/ \E p \in Pointers : LoadContext(p) \/ Height(p)
  <2>1. /\ UNCHANGED <<state, history>>
        /\ \E here, there : Reply(here, there)
    BY <1>1 DEF RequestContext, Log, Abort, LoadContext, Height
  <2>2. UNCHANGED <<keys, disqualified, asked, reached>>
    BY <2>1 DEF state, history
  <2> QED BY <2>1, <2>2, ReplyVerdict DEF Recorded
<1>2. ASSUME NEW k \in Keys \cup {BadKey}, RequestStorage(k)
      PROVE  Recorded' /\ Verdict'
  <2>1. /\ Reply(RequestReply(k, world), RequestReply(k, other))
        /\ UNCHANGED <<disqualified, reached>>
    BY <1>2 DEF RequestStorage
  <2>2. keys' = asked' /\ asked' \in Seq(Keys)
    <3>1. CASE RequestReply(k, world).kind = "ok"
      <4>1. k \in Keys
        BY <3>1 DEF RequestReply, Err
      <4>2. keys' = Append(keys, k) /\ asked' = Append(asked, k)
        BY <1>2, <3>1 DEF RequestStorage
      <4>3. keys = asked /\ asked \in Seq(Keys)
        BY DEF Recorded
      <4> QED BY <4>1, <4>2, <4>3
    <3>2. CASE RequestReply(k, world).kind # "ok"
      BY <1>2, <3>2 DEF RequestStorage, Recorded
    <3> QED BY <3>1, <3>2
  <2> QED BY <2>1, <2>2, ReplyVerdict DEF Recorded
<1>3. ASSUME NEW k \in Keys \cup {BadKey}, NEW p \in Pointers, LoadStorage(k, p)
      PROVE  Recorded' /\ Verdict'
  <2>1. /\ Reply(LoadReply(k, p, world), LoadReply(k, p, other))
        /\ UNCHANGED <<keys, disqualified, asked, reached>>
    BY <1>3 DEF LoadStorage, state
  <2> QED BY <2>1, ReplyVerdict DEF Recorded
<1>4. ASSUME NEW name \in Foreign, Reach(name)
      PROVE  Recorded' /\ Verdict'
  <2>1. /\ Reply(Ok(None), Ok(None))
        /\ disqualified' = IF disqualified = None THEN Facility(name) ELSE disqualified
        /\ reached' = Append(reached, name)
        /\ UNCHANGED <<keys, asked>>
    BY <1>4 DEF Reach
  <2>2. reached' # <<>> /\ reached' \in Seq(Foreign)
    BY <2>1 DEF Recorded
  <2>3. disqualified' = Facility(reached'[1])
    <3>1. CASE reached = <<>>
      BY <2>1, <3>1 DEF Recorded
    <3>2. CASE reached # <<>>
      <4>1. reached[1] \in Foreign /\ reached'[1] = reached[1]
        BY <2>1, <3>2 DEF Recorded
      <4> QED BY <2>1, <3>2, <4>1, FacilityAssumption DEF Recorded
    <3> QED BY <3>1, <3>2
  <2>4. /\ Verdict'
        /\ phase' \in {"start", "execute", "ended"}
        /\ phase' # "ended" => outcome' = <<"none">>
    BY <2>1, ReplyVerdict
  <2> QED BY <2>1, <2>2, <2>3, <2>4 DEF Recorded
<1>5. CASE StartReturns
  <2>1. UNCHANGED <<keys, disqualified, asked, reached>> /\ phase = "start"
    BY <1>5 DEF StartReturns, state, history
  <2>2. CASE hasExecute
    BY <1>5, <2>1, <2>2 DEF StartReturns, Recorded, Verdict, result
  <2>3. CASE ~hasExecute
    BY <1>5, <2>1, <2>3 DEF StartReturns, GiveUp, Recorded, Verdict
  <2> QED BY <2>2, <2>3
<1>6. ASSUME NEW parses \in BOOLEAN, ExecuteReturns(parses)
      PROVE  Recorded' /\ Verdict'
  <2>1. /\ UNCHANGED <<keys, disqualified, asked, reached>> /\ phase = "execute"
        /\ phase' = "ended"
    BY <1>6 DEF ExecuteReturns, state, history, GiveUp, Conclude
  <2>2. CASE reached = <<>>
    BY <1>6, <2>1, <2>2 DEF ExecuteReturns, GiveUp, Conclude, Recorded, Verdict
  <2>3. CASE reached # <<>>
    <3>1. reached[1] \in Foreign
      BY <2>3 DEF Recorded
    <3>2. disqualified # None /\ disqualified = Facility(reached[1])
      BY <2>3, <3>1, FacilityAssumption DEF Recorded
    <3> QED BY <1>6, <2>1, <2>3, <3>2 DEF ExecuteReturns, Conclude, Recorded, Verdict
  <2> QED BY <2>2, <2>3
<1>7. CASE GuestTraps
  <2>1. UNCHANGED <<keys, disqualified, asked, reached>> /\ phase \in {"start", "execute"}
    BY <1>7 DEF GuestTraps, state, history
  <2>2. Abandon
    BY <1>7 DEF GuestTraps
  <2>3. Verdict' /\ phase' = "ended"
    BY <2>1, <2>2, AbandonVerdict
  <2> QED BY <2>1, <2>3 DEF Recorded
<1>8. CASE UNCHANGED vars
  BY <1>8 DEF vars, state, history, result, Recorded, Verdict
<1> QED BY <1>1, <1>2, <1>3, <1>4, <1>5, <1>6, <1>7, <1>8 DEF Next

(* A write depends on the world through what is written alone.             *)
LEMMA RepliesFollowTheWorld ==
  ASSUME NEW p, world \in Worlds, other \in Worlds
  PROVE  /\ world.context = other.context => ContextReply(p, world) = ContextReply(p, other)
         /\ world.height = other.height => HeightReply(p, world) = HeightReply(p, other)
         /\ \A k : k = BadKey \/ world.storage[k] = other.storage[k]
               => /\ RequestReply(k, world) = RequestReply(k, other)
                  /\ LoadReply(k, p, world) = LoadReply(k, p, other)
BY DEF ContextReply, HeightReply, RequestReply, LoadReply

(* A call whose replies differ, or agree, with what then is to be shown.   *)
LEMMA ExplainReply ==
  ASSUME KeysExplain, NEW here, NEW there, Reply(here, there),
         \/ here = there
         \/ world.height # other.height \/ world.context # other.context
         \/ \E k \in ToSet(keys') : world.storage[k] # other.storage[k]
         \/ unasked' # {},
         ToSet(keys) \subseteq ToSet(keys'), unasked \subseteq unasked'
  PROVE  KeysExplain'
BY DEF KeysExplain, Reply, Burn, rigid

(* Each call can tell the worlds apart only by something KeysExplain names.*)
LEMMA ExplainStep ==
  ASSUME Recorded, Recorded', KeysExplain, [Next]_vars,
         world \in Worlds, other \in Worlds
  PROVE  KeysExplain'
<1>1. CASE RequestContext \/ Log \/ Abort
  BY <1>1, ExplainReply DEF RequestContext, Log, Abort, state, history
<1>2. ASSUME NEW p \in Pointers, LoadContext(p) \/ Height(p)
      PROVE  KeysExplain'
  BY <1>2, RepliesFollowTheWorld, ExplainReply DEF LoadContext, Height, state, history
<1>3. ASSUME NEW k \in Keys \cup {BadKey}, RequestStorage(k)
      PROVE  KeysExplain'
  <2>1. /\ Reply(RequestReply(k, world), RequestReply(k, other))
        /\ unasked' = unasked
    BY <1>3 DEF RequestStorage
  <2>2. CASE RequestReply(k, world).kind = "ok"
    <3>1. keys' = Append(keys, k) /\ keys \in Seq(Keys)
      BY <1>3, <2>2 DEF RequestStorage, Recorded
    <3>2. ToSet(keys') = ToSet(keys) \cup {k}
      BY <3>1 DEF ToSet
    <3> QED BY <2>1, <3>2, RepliesFollowTheWorld, ExplainReply
  <2>3. CASE RequestReply(k, world).kind # "ok"
    <3>1. RequestReply(k, world) = RequestReply(k, other) /\ keys' = keys
      BY <1>3, <2>3 DEF RequestStorage, RequestReply, Ok
    <3> QED BY <2>1, <3>1, ExplainReply
  <2> QED BY <2>2, <2>3
<1>4. ASSUME NEW k \in Keys \cup {BadKey}, NEW p \in Pointers, LoadStorage(k, p)
      PROVE  KeysExplain'
  <2>1. /\ Reply(LoadReply(k, p, world), LoadReply(k, p, other))
        /\ unasked' = unasked \cup ({k} \ (ToSet(asked) \cup {BadKey}))
        /\ keys' = keys /\ keys = asked
    BY <1>4 DEF LoadStorage, state, Recorded
  <2>2. CASE k = BadKey \/ k \in ToSet(keys)
    BY <2>1, <2>2, RepliesFollowTheWorld, ExplainReply
  <2>3. CASE k # BadKey /\ k \notin ToSet(keys)
    BY <2>1, <2>3, ExplainReply
  <2> QED BY <2>2, <2>3
<1>5. ASSUME NEW name \in Foreign, Reach(name)
      PROVE  KeysExplain'
  BY <1>5, ExplainReply DEF Reach
<1>6. CASE \/ StartReturns \/ GuestTraps \/ UNCHANGED vars
           \/ \E parses \in BOOLEAN : ExecuteReturns(parses)
  BY <1>6 DEF StartReturns, GuestTraps, ExecuteReturns, vars, rigid, state, history,
              KeysExplain
<1> QED BY <1>1, <1>2, <1>3, <1>4, <1>5, <1>6 DEF Next

(* The two worlds stay what they are. *)
LEMMA WorldsStay == Spec => [](world \in Worlds /\ other \in Worlds)
<1>1. Init => world \in Worlds /\ other \in Worlds
  BY DEF Init
<1>2. world \in Worlds /\ other \in Worlds /\ [Next]_vars
        => (world \in Worlds /\ other \in Worlds)'
  BY DEF Next, vars, rigid, RequestContext, Log, Abort, LoadContext, Height,
         RequestStorage, LoadStorage, Reach, StartReturns, ExecuteReturns,
         GuestTraps, Reply, Burn
<1> QED BY <1>1, <1>2, PTL DEF Spec

(* The inductive invariant: what is recorded, and what is said about it.   *)
(* KeysExplain needs keys = asked, for a load may rely on a request; the   *)
(* verdict needs the first reason.                                         *)
THEOREM Invariance == Spec => []HInv
<1>1. HInv /\ world \in Worlds /\ other \in Worlds /\ [Next]_vars => HInv'
  BY RecordedStep, ExplainStep DEF HInv
<1> QED BY InitRecorded, WorldsStay, <1>1, PTL DEF Spec

(* Whatever the guest does and whatever the worlds hold, the recorded keys *)
(* explain all that it could see of its storage.                           *)
THEOREM KeysSuffice == Spec => []KeysExplain
BY Invariance, PTL DEF HInv

(* Every reported run that reached beyond a plan's means is disqualified,  *)
(* by its first such call, and no other run is.                            *)
THEOREM VerdictHolds == Spec => []Verdict
BY Invariance, PTL DEF HInv
----------------------------------------------------------------------------
(* The keys of a result. *)

(* A nonempty set of numbers has a least one, in place of induction.       *)
LEMMA Smallest ==
  ASSUME NEW T \in SUBSET Nat, T # {}
  PROVE  \E x \in T : \A y \in T : x <= y
<1>1. PICK R : R = {ss \in Nat \X Nat : ss[1] < ss[2]}
  OBVIOUS
<1>2. IsWellFoundedOn(R, Nat)
  BY <1>1, NatLessThanWellFounded DEF OpToRel
<1>3. PICK x \in T : \A y \in T : ~(<<y, x>> \in R)
  BY <1>2, WFMin
<1>4. \A y \in T : ~(y < x)
  BY <1>1, <1>3
<1> QED BY <1>4

(* The recursion of Distinct, as far as the first n elements.              *)
Add(d, k) == IF Contains(d, k) THEN d ELSE Append(d, k)
Grows(f, s, n) ==
  /\ f \in [0 .. n -> Seq(Keys)]
  /\ f[0] = <<>> /\ \A i \in 1 .. n : f[i] = Add(f[i - 1], s[i])

(* It has a value for every sequence.                                      *)
LEMMA CanGrow ==
  ASSUME NEW s \in Seq(Keys), NEW n \in 0 .. Len(s)
  PROVE  \E f : Grows(f, s, n)
<1> DEFINE T == {m \in 0 .. Len(s) : ~\E f : Grows(f, s, m)}
<1>1. SUFFICES ASSUME T # {}  PROVE FALSE
  OBVIOUS
<1>2. PICK m \in T : \A y \in T : m <= y
  <2>1. T \in SUBSET Nat
    OBVIOUS
  <2> HIDE DEF T
  <2> QED BY <1>1, <2>1, Smallest
<1>3. CASE m = 0
  <2>1. Grows([i \in 0 .. 0 |-> <<>>], s, 0)
    BY DEF Grows
  <2> QED BY <1>3, <2>1
<1>4. CASE m # 0
  <2>1. m - 1 \in 0 .. Len(s) /\ m - 1 \notin T
    BY <1>2, <1>4
  <2>2. PICK g : Grows(g, s, m - 1)
    BY <2>1
  <2>3. PICK f : f = [i \in 0 .. m |-> IF i < m THEN g[i] ELSE Add(g[m - 1], s[m])]
    OBVIOUS
  <2>4. s[m] \in Keys /\ g[m - 1] \in Seq(Keys)
    BY <1>4, <2>1, <2>2 DEF Grows
  <2>5. Add(g[m - 1], s[m]) \in Seq(Keys)
    BY <2>4 DEF Add
  <2>6. f \in [0 .. m -> Seq(Keys)]
    BY <2>1, <2>2, <2>3, <2>5 DEF Grows
  <2>7. f[0] = <<>>
    BY <1>4, <2>1, <2>2, <2>3 DEF Grows
  <2>8. ASSUME NEW i \in 1 .. m  PROVE f[i] = Add(f[i - 1], s[i])
    <3>1. CASE i = m
      BY <2>1, <2>3, <3>1
    <3>2. CASE i < m
      BY <2>1, <2>2, <2>3, <3>2 DEF Grows
    <3> QED BY <2>1, <3>1, <3>2
  <2> QED BY <2>6, <2>7, <2>8 DEF Grows
<1> QED BY <1>3, <1>4


(* Distinct is what its recursion computes.                                *)
LEMMA DistinctGrows ==
  ASSUME NEW s \in Seq(Keys)
  PROVE  \E f : Grows(f, s, Len(s)) /\ Distinct(s) = f[Len(s)]
<1>1. PICK g : Grows(g, s, Len(s))
  BY CanGrow
<1> DEFINE V(f, i) == IF i = 0 THEN <<>>
                      ELSE IF Contains(f[i - 1], s[i]) THEN f[i - 1]
                      ELSE Append(f[i - 1], s[i])
           F(f) == f = [i \in 0 .. Len(s) |-> V(f, i)]
<1>v. ASSUME NEW f  PROVE V(f, 0) = <<>> /\ \A i \in 1 .. Len(s) : V(f, i) = Add(f[i - 1], s[i])
  BY DEF Add
<1>d. Distinct(s) = (CHOOSE f : F(f))[Len(s)]
  BY DEF Distinct
<1> HIDE DEF V
<1>2. F(g)
  <2>1. g = [i \in 0 .. Len(s) |-> g[i]]
    BY <1>1 DEF Grows
  <2>2. ASSUME NEW i \in 0 .. Len(s)  PROVE g[i] = V(g, i)
    <3>1. i = 0 \/ i \in 1 .. Len(s)
      OBVIOUS
    <3> QED BY <1>1, <1>v, <3>1 DEF Grows
  <2> QED BY <2>1, <2>2
<1>3. PICK f : F(f) /\ Distinct(s) = f[Len(s)]
  BY <1>2, <1>d
<1>4. /\ f = [i \in 0 .. Len(s) |-> f[i]] /\ f[0] = <<>>
      /\ \A i \in 1 .. Len(s) : f[i] = Add(f[i - 1], s[i])
  <2>1. \A i \in 0 .. Len(s) : f[i] = V(f, i)
    BY <1>3
  <2>2. f = [i \in 0 .. Len(s) |-> f[i]]
    BY <1>3, <2>1
  <2>3. 0 \in 0 .. Len(s) /\ \A i \in 1 .. Len(s) : i \in 0 .. Len(s)
    OBVIOUS
  <2> QED BY <1>v, <2>1, <2>2, <2>3
<1> HIDE DEF F
<1>5. ASSUME NEW i \in 0 .. Len(s)  PROVE f[i] \in Seq(Keys)
  <2> DEFINE T == {j \in 0 .. Len(s) : f[j] \notin Seq(Keys)}
  <2>1. SUFFICES ASSUME T # {}  PROVE FALSE
    OBVIOUS
  <2>2. PICK m \in T : \A y \in T : m <= y
    <3>1. T \in SUBSET Nat
      OBVIOUS
    <3> HIDE DEF T
    <3> QED BY <2>1, <3>1, Smallest
  <2>3. m # 0
    BY <1>4, <2>2
  <2>4. m - 1 \in 0 .. Len(s) /\ m - 1 \notin T
    BY <2>2, <2>3
  <2>5. f[m - 1] \in Seq(Keys) /\ s[m] \in Keys
    BY <2>3, <2>4
  <2>6. f[m] = Add(f[m - 1], s[m])
    <3>1. m \in 1 .. Len(s)
      BY <2>3
    <3> QED BY <1>4, <3>1
  <2>7. Add(f[m - 1], s[m]) \in Seq(Keys)
    BY <2>5 DEF Add
  <2> QED BY <2>2, <2>6, <2>7
<1> QED BY <1>3, <1>4, <1>5 DEF Grows

(* Where an element of a sequence occurs first.                            *)
FirstIn(s, k) == CHOOSE i \in 1 .. Len(s) : s[i] = k /\ \A j \in 1 .. i - 1 : s[j] # k

LEMMA FirstExists ==
  ASSUME NEW s \in Seq(Keys), NEW n \in 1 .. Len(s)
  PROVE  /\ FirstIn(s, s[n]) \in 1 .. n /\ s[FirstIn(s, s[n])] = s[n]
         /\ (\A j \in 1 .. n - 1 : s[j] # s[n]) => FirstIn(s, s[n]) = n
<1> DEFINE T == {j \in 1 .. n : s[j] = s[n]}
<1>1. PICK m \in T : \A y \in T : m <= y
  <2>1. T \in SUBSET Nat /\ n \in T
    OBVIOUS
  <2> HIDE DEF T
  <2> QED BY <2>1, Smallest
<1>2. m \in 1 .. Len(s) /\ s[m] = s[n] /\ \A j \in 1 .. m - 1 : s[j] # s[n]
  BY <1>1
<1>3. PICK p : p = FirstIn(s, s[n])
  OBVIOUS
<1>4. p \in 1 .. Len(s) /\ s[p] = s[n] /\ \A j \in 1 .. p - 1 : s[j] # s[n]
  BY <1>2, <1>3 DEF FirstIn
<1>5. p <= n
  BY <1>4
<1>6. (\A j \in 1 .. n - 1 : s[j] # s[n]) => p = n
  BY <1>4, <1>5
<1> QED BY <1>3, <1>4, <1>5, <1>6

(* The first n elements, each once, by their first occurrence.             *)
Sorted(d, s, n) ==
  /\ \A a \in 1 .. Len(d) : \E j \in 1 .. n : d[a] = s[j]
  /\ \A j \in 1 .. n : Contains(d, s[j])
  /\ \A a, b \in 1 .. Len(d) : a < b => FirstIn(s, d[a]) < FirstIn(s, d[b])

LEMMA AddSorted ==
  ASSUME NEW s \in Seq(Keys), NEW n \in 1 .. Len(s), NEW d \in Seq(Keys), Sorted(d, s, n - 1)
  PROVE  Sorted(Add(d, s[n]), s, n)
<1>1. CASE Contains(d, s[n])
  <2>1. Add(d, s[n]) = d
    BY <1>1 DEF Add
  <2>2. \A j \in 1 .. n : Contains(d, s[j])
    BY <1>1 DEF Sorted
  <2>3. \A a \in 1 .. Len(d) : \E j \in 1 .. n : d[a] = s[j]
    BY DEF Sorted
  <2> QED BY <2>1, <2>2, <2>3 DEF Sorted
<1>2. CASE ~Contains(d, s[n])
  <2>1. Add(d, s[n]) = Append(d, s[n])
    BY <1>2 DEF Add
  <2>2. PICK e, l : e = Append(d, s[n]) /\ l = Len(d)
    OBVIOUS
  <2>3. /\ l \in Nat /\ Len(e) = l + 1 /\ e[l + 1] = s[n] /\ \A a \in 1 .. l : e[a] = d[a]
    BY <2>2
  <2>4. FirstIn(s, s[n]) = n
    <3>1. \A j \in 1 .. n - 1 : s[j] # s[n]
      BY <1>2 DEF Sorted
    <3> QED BY <3>1, FirstExists
  <2>5. ASSUME NEW a \in 1 .. l
        PROVE  FirstIn(s, d[a]) \in 1 .. n - 1
    <3>1. PICK j \in 1 .. n - 1 : d[a] = s[j]
      BY <2>2 DEF Sorted
    <3>2. j \in 1 .. Len(s)
      OBVIOUS
    <3>3. FirstIn(s, s[j]) \in 1 .. j
      BY <3>2, FirstExists
    <3> QED BY <3>1, <3>3
  <2>6. ASSUME NEW a \in 1 .. l + 1  PROVE \E j \in 1 .. n : e[a] = s[j]
    <3>1. CASE a = l + 1
      BY <2>3, <3>1
    <3>2. CASE a \in 1 .. l
      BY <2>2, <2>3, <3>2 DEF Sorted
    <3> QED BY <2>3, <3>1, <3>2
  <2>7. ASSUME NEW j \in 1 .. n  PROVE Contains(e, s[j])
    <3>1. CASE j = n
      BY <2>3, <3>1 DEF Contains
    <3>2. CASE j # n
      <4>1. Contains(d, s[j])
        BY <3>2 DEF Sorted
      <4>2. PICK a \in 1 .. l : d[a] = s[j]
        BY <2>2, <4>1 DEF Contains
      <4>3. a \in 1 .. Len(e) /\ e[a] = s[j]
        BY <2>3, <4>2
      <4> QED BY <4>3 DEF Contains
    <3> QED BY <3>1, <3>2
  <2>8. ASSUME NEW a \in 1 .. l + 1, NEW b \in 1 .. l + 1, a < b
        PROVE  FirstIn(s, e[a]) < FirstIn(s, e[b])
    <3>1. a \in 1 .. l /\ (b \in 1 .. l \/ b = l + 1)
      BY <2>3, <2>8
    <3>2. CASE b \in 1 .. l
      BY <2>2, <2>3, <2>8, <3>1, <3>2 DEF Sorted
    <3>3. CASE b = l + 1
      BY <2>3, <2>4, <2>5, <3>1, <3>3
    <3> QED BY <3>1, <3>2, <3>3
  <2> QED BY <2>1, <2>2, <2>3, <2>6, <2>7, <2>8 DEF Sorted
<1> QED BY <1>1, <1>2

(* What Distinct keeps: each element once, at its first occurrence.        *)
LEMMA DistinctSorted ==
  ASSUME NEW s \in Seq(Keys)
  PROVE  Sorted(Distinct(s), s, Len(s)) /\ Distinct(s) \in Seq(Keys)
<1>1. PICK f : Grows(f, s, Len(s)) /\ Distinct(s) = f[Len(s)]
  BY DistinctGrows
<1> DEFINE T == {j \in 0 .. Len(s) : ~Sorted(f[j], s, j)}
<1>2. SUFFICES ASSUME T # {}  PROVE FALSE
  BY <1>1 DEF Grows
<1>3. PICK m \in T : \A y \in T : m <= y
  <2>1. T \in SUBSET Nat
    OBVIOUS
  <2> HIDE DEF T
  <2> QED BY <1>2, <2>1, Smallest
<1>4. m # 0
  <2>1. Sorted(<<>>, s, 0)
    BY DEF Sorted
  <2> QED BY <1>1, <1>3, <2>1 DEF Grows
<1>5. m - 1 \in 0 .. Len(s) /\ m - 1 \notin T /\ m \in 1 .. Len(s)
  BY <1>3, <1>4
<1>6. Sorted(f[m - 1], s, m - 1) /\ f[m - 1] \in Seq(Keys) /\ f[m] = Add(f[m - 1], s[m])
  BY <1>1, <1>5 DEF Grows
<1>7. Sorted(f[m], s, m)
  BY <1>5, <1>6, AddSorted
<1> QED BY <1>3, <1>7

(* A run that is reported is so with the keys recorded.                    *)
Reports ==
  outcome[1] \in {"success", "trap", "disqualified"} => reported = Distinct(keys)

LEMMA ReportStep ==
  ASSUME Recorded, Reports, [Next]_vars
  PROVE  Reports'
<1>1. CASE UNCHANGED <<keys, outcome, reported>>
  BY <1>1 DEF Reports
<1>2. CASE outcome' = <<"none">>
  BY <1>2 DEF Reports
<1>3. ASSUME GiveUp \/ Panic  PROVE Reports'
  BY <1>3 DEF GiveUp, Panic, Reports
<1>4. ASSUME NEW o, Conclude(o), UNCHANGED keys  PROVE Reports'
  BY <1>4 DEF Conclude, Reports
<1>5. ASSUME Abandon, UNCHANGED keys  PROVE Reports'
  BY <1>3, <1>4, <1>5 DEF Abandon
<1>6. ASSUME NEW here, NEW there, Reply(here, there), here.kind = "ok" \/ UNCHANGED keys
      PROVE  Reports'
  <2>1. phase \in {"start", "execute"} /\ outcome = <<"none">>
    BY <1>6 DEF Reply, Burn, Recorded
  <2>2. \/ UNCHANGED outcome
        \/ here.kind = "err" /\ Abandon
        \/ Panic
    BY <1>6 DEF Reply, result
  <2> QED BY <1>2, <1>3, <1>5, <1>6, <2>1, <2>2
<1>7. CASE RequestContext \/ Log \/ Abort \/ \E p \in Pointers : LoadContext(p) \/ Height(p)
  <2>1. UNCHANGED keys /\ \E here, there : Reply(here, there)
    BY <1>7 DEF RequestContext, Log, Abort, LoadContext, Height, state
  <2> QED BY <1>6, <2>1
<1>8. ASSUME NEW k \in Keys \cup {BadKey}, RequestStorage(k)  PROVE Reports'
  <2>1. /\ Reply(RequestReply(k, world), RequestReply(k, other))
        /\ RequestReply(k, world).kind = "ok" \/ UNCHANGED keys
    BY <1>8 DEF RequestStorage
  <2> QED BY <1>6, <2>1
<1>9. ASSUME NEW k \in Keys \cup {BadKey}, NEW p \in Pointers, LoadStorage(k, p)  PROVE Reports'
  <2>1. UNCHANGED keys /\ Reply(LoadReply(k, p, world), LoadReply(k, p, other))
    BY <1>9 DEF LoadStorage, state
  <2> QED BY <1>6, <2>1
<1>10. ASSUME NEW name \in Foreign, Reach(name)  PROVE Reports'
  <2>1. UNCHANGED keys /\ Reply(Ok(None), Ok(None))
    BY <1>10 DEF Reach
  <2> QED BY <1>6, <2>1
<1>11. CASE StartReturns
  <2>1. UNCHANGED <<outcome, reported, keys>> \/ GiveUp
    BY <1>11 DEF StartReturns, result, state
  <2> QED BY <1>1, <1>3, <2>1
<1>12. ASSUME NEW parses \in BOOLEAN, ExecuteReturns(parses)  PROVE Reports'
  <2>1. UNCHANGED keys /\ (GiveUp \/ \E o : Conclude(o))
    BY <1>12 DEF ExecuteReturns, state
  <2> QED BY <1>3, <1>4, <2>1
<1>13. CASE GuestTraps
  <2>1. UNCHANGED keys /\ Abandon
    BY <1>13 DEF GuestTraps, state
  <2> QED BY <1>5, <2>1
<1>14. CASE UNCHANGED vars
  <2>1. UNCHANGED <<keys, outcome, reported>>
    BY <1>14 DEF vars, state, result
  <2> QED BY <1>1, <2>1
<1> QED BY <1>7, <1>8, <1>9, <1>10, <1>11, <1>12, <1>13, <1>14 DEF Next

(* The keys of a result are exactly those the guest requested, each once,  *)
(* by their first request, however long the run was (Prober::run).         *)
THEOREM KeysOrdered == Spec => []KeysReported
<1>1. Init => Reports
  BY DEF Init, Reports
<1>2. Reports /\ HInv /\ [Next]_vars => Reports'
  BY ReportStep DEF HInv
<1>3. HInv /\ Reports => KeysReported
  <2> SUFFICES ASSUME HInv, Reports, outcome[1] \in {"success", "trap", "disqualified"}
               PROVE  /\ ToSet(reported) = ToSet(asked)
                      /\ \A i, j \in 1 .. Len(reported) :
                           i < j => FirstAt(reported[i]) < FirstAt(reported[j])
    BY DEF KeysReported
  <2>1. asked \in Seq(Keys) /\ reported = Distinct(asked)
    BY DEF HInv, Recorded, Reports
  <2>2. Sorted(reported, asked, Len(asked)) /\ reported \in Seq(Keys)
    BY <2>1, DistinctSorted
  <2>3. \A k : FirstAt(k) = FirstIn(asked, k)
    BY DEF FirstAt, FirstIn
  <2>4. ToSet(reported) = ToSet(asked)
    <3>1. ASSUME NEW k \in ToSet(reported)  PROVE k \in ToSet(asked)
      <4>1. PICK a \in 1 .. Len(reported) : k = reported[a]
        BY <3>1 DEF ToSet
      <4>2. \E j \in 1 .. Len(asked) : reported[a] = asked[j]
        BY <2>2 DEF Sorted
      <4> QED BY <4>1, <4>2 DEF ToSet
    <3>2. ASSUME NEW k \in ToSet(asked)  PROVE k \in ToSet(reported)
      <4>1. PICK j \in 1 .. Len(asked) : k = asked[j]
        BY <3>2 DEF ToSet
      <4>2. Contains(reported, asked[j])
        BY <2>2 DEF Sorted
      <4> QED BY <4>1, <4>2 DEF ToSet, Contains
    <3> QED BY <3>1, <3>2
  <2> QED BY <2>2, <2>3, <2>4 DEF Sorted
<1> QED BY <1>1, <1>2, <1>3, Invariance, PTL DEF Spec
----------------------------------------------------------------------------
(* The types. *)

Reported == phase \in {"start", "execute", "ended"} /\ outcome[1] \in Kinds /\ reported \in Seq(Keys)

LEMMA ConcludeTyped ==
  ASSUME NEW o, o[1] \in Kinds, keys \in Seq(Keys), Conclude(o)
  PROVE  Reported'
<1>1. reported' \in Seq(Keys)
  BY DistinctSorted DEF Conclude
<1>2. outcome'[1] \in Kinds
  <2>1. CASE disqualified # None
    BY <2>1 DEF Conclude, Kinds
  <2>2. CASE disqualified = None
    BY <2>2 DEF Conclude
  <2> QED BY <2>1, <2>2
<1> QED BY <1>1, <1>2 DEF Reported, Conclude

LEMMA GiveUpTyped ==
  ASSUME reported \in Seq(Keys), GiveUp \/ Panic
  PROVE  Reported'
BY DEF GiveUp, Panic, Reported, Kinds

LEMMA AbandonTyped ==
  ASSUME TypeOK, Abandon
  PROVE  Reported'
<1>1. keys \in Seq(Keys) /\ reported \in Seq(Keys)
  BY DEF TypeOK
<1>2. <<"trap">>[1] \in Kinds
  BY DEF Kinds
<1> QED BY <1>1, <1>2, ConcludeTyped, GiveUpTyped DEF Abandon

LEMMA ReplyTyped ==
  ASSUME TypeOK, NEW here, NEW there, Reply(here, there)
  PROVE  /\ Reported' /\ fuel' \in 0 .. Fuel /\ same' \in BOOLEAN /\ UNCHANGED rigid
<1>1. fuel' \in 0 .. Fuel
  BY SizeAssumption DEF TypeOK, Reply, Burn
<1>2. same' \in BOOLEAN /\ UNCHANGED rigid
  BY DEF Reply, Burn
<1>3. Reported'
  <2>1. CASE UNCHANGED <<phase, result>>
    BY <2>1 DEF result, Reported, TypeOK
  <2>2. CASE Abandon
    BY <2>2, AbandonTyped
  <2>3. CASE Panic
    BY <2>3, GiveUpTyped DEF TypeOK
  <2> QED BY <2>1, <2>2, <2>3 DEF Reply
<1> QED BY <1>1, <1>2, <1>3

LEMMA TypeStep ==
  ASSUME TypeOK, [Next]_vars
  PROVE  TypeOK'
<1> DEFINE Recording == /\ keys' \in Seq(Keys) /\ asked' \in Seq(Keys) /\ unasked' \subseteq Keys
                        /\ reached' \in Seq(Foreign)
<1>1. ASSUME UNCHANGED rigid, Reported', fuel' \in 0 .. Fuel, same' \in BOOLEAN, Recording
      PROVE  TypeOK'
  <2>1. /\ (world \in Worlds /\ other \in Worlds)'
        /\ (hasMemory \in BOOLEAN /\ hasExecute \in BOOLEAN)'
    BY <1>1 DEF TypeOK, rigid
  <2> QED BY <1>1, <2>1 DEF TypeOK, Reported
<1>2. ASSUME NEW here, NEW there, Reply(here, there), Recording  PROVE TypeOK'
  BY <1>1, <1>2, ReplyTyped
<1>3. ASSUME UNCHANGED <<state, history>>  PROVE Recording
  BY <1>3 DEF TypeOK, state, history
<1>4. ASSUME UNCHANGED <<rigid, fuel, state, same, history>>, Reported'  PROVE TypeOK'
  <2>1. fuel' \in 0 .. Fuel /\ same' \in BOOLEAN /\ UNCHANGED rigid
    BY <1>4 DEF TypeOK
  <2>2. Recording
    BY <1>3, <1>4
  <2> HIDE DEF Recording
  <2> QED BY <1>1, <1>4, <2>1, <2>2
<1>5. CASE RequestContext \/ Log \/ Abort \/ \E p \in Pointers : LoadContext(p) \/ Height(p)
  <2>1. UNCHANGED <<state, history>> /\ \E here, there : Reply(here, there)
    BY <1>5 DEF RequestContext, Log, Abort, LoadContext, Height
  <2>2. Recording
    BY <1>3, <2>1
  <2> HIDE DEF Recording
  <2> QED BY <1>2, <2>1, <2>2
<1>6. ASSUME NEW k \in Keys \cup {BadKey}, RequestStorage(k)  PROVE TypeOK'
  <2>1. k \in Keys \/ UNCHANGED <<keys, asked>>
    <3>1. CASE k = BadKey
      BY <1>6, <3>1 DEF RequestStorage, RequestReply, Err
    <3> QED BY <3>1
  <2>2. Recording
    <3>1. keys' \in Seq(Keys) /\ asked' \in Seq(Keys)
      <4>1. CASE UNCHANGED <<keys, asked>>
        BY <4>1 DEF TypeOK
      <4>2. CASE k \in Keys /\ keys' = Append(keys, k) /\ asked' = Append(asked, k)
        BY <4>2 DEF TypeOK
      <4> QED BY <1>6, <2>1, <4>1, <4>2 DEF RequestStorage
    <3>2. unasked' \subseteq Keys /\ reached' \in Seq(Foreign)
      BY <1>6 DEF RequestStorage, TypeOK
    <3> QED BY <3>1, <3>2
  <2>3. Reply(RequestReply(k, world), RequestReply(k, other))
    BY <1>6 DEF RequestStorage
  <2> HIDE DEF Recording
  <2> QED BY <1>2, <2>2, <2>3
<1>7. ASSUME NEW k \in Keys \cup {BadKey}, NEW p \in Pointers, LoadStorage(k, p)  PROVE TypeOK'
  <2>1. Recording
    BY <1>7 DEF LoadStorage, state, TypeOK
  <2>2. Reply(LoadReply(k, p, world), LoadReply(k, p, other))
    BY <1>7 DEF LoadStorage
  <2> HIDE DEF Recording
  <2> QED BY <1>2, <2>1, <2>2
<1>8. ASSUME NEW name \in Foreign, Reach(name)  PROVE TypeOK'
  <2>1. Recording
    BY <1>8 DEF Reach, TypeOK
  <2>2. Reply(Ok(None), Ok(None))
    BY <1>8 DEF Reach
  <2> HIDE DEF Recording
  <2> QED BY <1>2, <2>1, <2>2
<1>9. CASE StartReturns
  <2>1. Reported'
    <3>1. CASE phase' = "execute" /\ UNCHANGED result
      BY <3>1 DEF result, Reported, TypeOK
    <3>2. CASE GiveUp
      BY <3>2, GiveUpTyped DEF TypeOK
    <3> QED BY <1>9, <3>1, <3>2 DEF StartReturns
  <2> QED BY <1>4, <1>9, <2>1 DEF StartReturns
<1>10. ASSUME NEW parses \in BOOLEAN, ExecuteReturns(parses)  PROVE TypeOK'
  <2>1. Reported'
    <3>1. CASE GiveUp
      BY <3>1, GiveUpTyped DEF TypeOK
    <3>2. ASSUME NEW o \in {<<"success">>, <<"trap">>}, Conclude(o)  PROVE Reported'
      <4>1. o[1] \in Kinds
        BY <3>2 DEF Kinds
      <4> QED BY <3>2, <4>1, ConcludeTyped DEF TypeOK
    <3> QED BY <1>10, <3>1, <3>2 DEF ExecuteReturns
  <2> QED BY <1>4, <1>10, <2>1 DEF ExecuteReturns
<1>11. CASE GuestTraps
  BY <1>4, <1>11, AbandonTyped DEF GuestTraps
<1>12. CASE UNCHANGED vars
  <2>1. Reported'
    BY <1>12 DEF vars, result, Reported, TypeOK
  <2> QED BY <1>4, <1>12, <2>1 DEF vars
<1> QED BY <1>5, <1>6, <1>7, <1>8, <1>9, <1>10, <1>11, <1>12 DEF Next

(* The host's record stays typed and the fuel within its budget, whatever  *)
(* the guest does (ProbeState and RunResult).                              *)
THEOREM TypeCorrect == Spec => []TypeOK
<1>1. Init => TypeOK
  BY SizeAssumption DEF Init, TypeOK, Kinds
<1> QED BY <1>1, TypeStep, PTL DEF Spec
=============================================================================
