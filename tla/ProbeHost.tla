------------------------------ MODULE ProbeHost ------------------------------
(***************************************************************************)
(* One probe run: Prober::run instantiates the contract over the host      *)
(* functions of host_dispatch, lets it run on a budget of fuel, and        *)
(* condenses what happened to an outcome and the storage keys requested.   *)
(*                                                                         *)
(* The guest is any program: it calls what it likes, in any order.  It is  *)
(* run in "world"; beside it, every reply is compared with the one "other" *)
(* would have given, for as long as the guest cannot tell the two apart.   *)
(***************************************************************************)
EXTENDS Integers, Sequences, SequencesExt

CONSTANTS
  Keys,      \* storage keys
  Values,    \* storage values
  Size,      \* Size[v]: the length of v in bytes
  Empty,     \* what a missing key reads as: the value of no bytes
  Heights, Contexts,
  ContextSize, HeightSize,
  Pointers,  \* the i32 pointers the guest may pass
  MemSize,   \* bytes of guest memory
  USize,     \* one more than the largest usize
  Fuel,      \* AnalysisConfig.fuel, in calls of the guest
  Foreign,   \* imports beyond storage, height, context, log and abort
  BadKey,    \* a key pointer that does not point to a passback buffer
  None

ASSUME ValueAssumption ==
  /\ Empty \in Values
  /\ Size \in [Values -> Nat] /\ Size[Empty] = 0
ASSUME SizeAssumption ==
  /\ Fuel \in Nat /\ MemSize \in Nat /\ USize \in Nat \ {0}
  /\ ContextSize \in Nat /\ HeightSize \in Nat
  /\ Pointers \subseteq Int
ASSUME NameAssumption == BadKey \notin Keys /\ None \notin Foreign

Worlds == [storage : [Keys -> Values], height : Heights, context : Contexts]

VARIABLES
  world, other,          \* the world of the run, and another; never change
  hasMemory, hasExecute, \* what the module exports; never change
  phase,     \* "start" and "execute" while the guest runs, then "ended"
  fuel,      \* fuel left
  keys,      \* ProbeState.keys
  disqualified, \* ProbeState.disqualified
  outcome,   \* RunResult.outcome, an error of run, or a panic of the host
  reported,  \* RunResult.keys
  \* history
  same,      \* all replies so far would have been the same in "other"
  asked,     \* the keys the guest requested, in order
  unasked,   \* the keys it loaded without having requested them
  reached    \* the foreign imports it called, in order

rigid   == <<world, other, hasMemory, hasExecute>>
state   == <<keys, disqualified>>
history == <<asked, unasked, reached>>
result  == <<outcome, reported>>
vars    == <<rigid, phase, fuel, state, result, same, history>>

Init ==
  /\ world \in Worlds /\ other \in Worlds
  /\ hasMemory \in BOOLEAN /\ hasExecute \in BOOLEAN
  /\ phase = "start" /\ fuel = Fuel
  /\ keys = <<>> /\ disqualified = None
  /\ outcome = <<"none">> /\ reported = <<>>
  /\ same = TRUE /\ asked = <<>> /\ unasked = {} /\ reached = <<>>

----------------------------------------------------------------------------
(* How a run ends. *)

(* Each key once, at the place of its first request.                       *)
LastFirst(s) ==
  Reverse(FoldSeq(LAMBDA k, d : IF Contains(d, k) THEN d ELSE Append(d, k),
                  <<>>, Reverse(s)))

Distinct(s) ==
  LET seen[i \in 0 .. Len(s)] ==
        IF i = 0 THEN <<>>
        ELSE IF Contains(seen[i - 1], s[i]) THEN seen[i - 1]
        ELSE Append(seen[i - 1], s[i])
  IN  seen[Len(s)]

(* run gives up with an error and reports nothing.                         *)
GiveUp ==
  /\ phase' = "ended" /\ outcome' = <<"error">> /\ UNCHANGED reported

(* A disqualifying call outweighs however the guest ended.                 *)
Conclude(o) ==
  /\ phase' = "ended"
  /\ reported' = Distinct(keys)
  /\ outcome' = IF disqualified # None THEN <<"disqualified", disqualified>> ELSE o

(* The guest stopped with an error: in the start function that fails the   *)
(* instantiation.                                                          *)
Abandon == IF phase = "start" THEN GiveUp ELSE Conclude(<<"trap">>)

Panic == phase' = "ended" /\ outcome' = <<"panic">> /\ UNCHANGED reported

----------------------------------------------------------------------------
(* What the host replies, in world w: some data, an error, or a panic.     *)

Ok(data) == [kind |-> "ok", data |-> data]
Err      == [kind |-> "err", data |-> None]
Broken   == [kind |-> "panic", data |-> None]

(* Writing n bytes at an i32 pointer, widened to usize.  Unchecked, the    *)
(* sum wraps, and a range that ends before it starts cannot be indexed     *)
(* (with overflow checks the sum itself panics).                           *)
Write(ptr, n, data) ==
  LET at  == ptr % USize
      end == (at + n) % USize
  IN  IF ~hasMemory \/ end > MemSize THEN Err
      ELSE IF end < at THEN Broken
      ELSE Ok(data)

ContextReply(ptr, w) == Write(ptr, ContextSize, w.context)
HeightReply(ptr, w)  == Write(ptr, HeightSize, w.height)

(* read_passback fails on a bad pointer; a missing key has no bytes.       *)
RequestReply(k, w) ==
  IF ~hasMemory \/ k = BadKey THEN Err ELSE Ok(Size[w.storage[k]])

LoadReply(k, ptr, w) ==
  IF ~hasMemory \/ k = BadKey THEN Err
  ELSE Write(ptr, Size[w.storage[k]], w.storage[k])

(* A call the guest still has fuel for.                                    *)
Burn ==
  /\ phase \in {"start", "execute"} /\ fuel > 0
  /\ fuel' = fuel - 1
  /\ UNCHANGED rigid

(* The guest gets the reply "here"; "there" is the other world's.          *)
Reply(here, there) ==
  /\ Burn
  /\ same' = (same /\ here = there)
  /\ \/ here.kind = "ok" /\ UNCHANGED <<phase, result>>
     \/ here.kind = "err" /\ Abandon
     \/ here.kind = "panic" /\ Panic

----------------------------------------------------------------------------
(* host_dispatch: one action per import.                                   *)

RequestContext ==
  Reply(Ok(ContextSize), Ok(ContextSize)) /\ UNCHANGED <<state, history>>

LoadContext(ptr) ==
  /\ Reply(ContextReply(ptr, world), ContextReply(ptr, other))
  /\ UNCHANGED <<state, history>>

PresentOnly(k) ==
  /\ Reply(RequestReply(k, world), RequestReply(k, other))
  /\ IF RequestReply(k, world).kind = "ok"
     THEN /\ keys' = IF world.storage[k] = Empty THEN keys ELSE Append(keys, k)
          /\ asked' = Append(asked, k)
     ELSE UNCHANGED <<keys, asked>>
  /\ UNCHANGED <<disqualified, unasked, reached>>

RequestStorage(k) ==
  /\ Reply(RequestReply(k, world), RequestReply(k, other))
  /\ IF RequestReply(k, world).kind = "ok"
     THEN keys' = Append(keys, k) /\ asked' = Append(asked, k)
     ELSE UNCHANGED <<keys, asked>>
  /\ UNCHANGED <<disqualified, unasked, reached>>

LoadStorage(k, ptr) ==
  /\ Reply(LoadReply(k, ptr, world), LoadReply(k, ptr, other))
  /\ unasked' = unasked \cup ({k} \ (ToSet(asked) \cup {BadKey}))
  /\ UNCHANGED <<state, asked, reached>>

Height(ptr) ==
  /\ Reply(HeightReply(ptr, world), HeightReply(ptr, other))
  /\ UNCHANGED <<state, history>>

Log == Reply(Ok(None), Ok(None)) /\ UNCHANGED <<state, history>>

Abort == Reply(Err, Err) /\ UNCHANGED <<state, history>>

(* disqualifier_name: the facility an import belongs to.                   *)
Facility(name) ==
  CASE name \in {"__request_transaction", "__load_transaction"} -> "transaction"
    [] name \in {"__request_block", "__load_block"} -> "block"
    [] name \in {"__call", "__staticcall", "__delegatecall", "__balance",
                 "__sequence", "__fuel", "__returndatacopy"} -> name
    [] OTHER -> "unknown import"

ASSUME FacilityAssumption == \A name \in Foreign : Facility(name) # None

LastReason(name) ==
  /\ Reply(Ok(None), Ok(None))
  /\ disqualified' = Facility(name)
  /\ reached' = Append(reached, name)
  /\ UNCHANGED <<keys, asked, unasked>>

(* The guest gets the default result and goes on.                          *)
Reach(name) ==
  /\ Reply(Ok(None), Ok(None))
  /\ disqualified' = IF disqualified = None THEN Facility(name) ELSE disqualified
  /\ reached' = Append(reached, name)
  /\ UNCHANGED <<keys, asked, unasked>>

----------------------------------------------------------------------------
(* The guest on its own. *)

StartReturns ==
  /\ phase = "start"
  /\ IF hasExecute THEN phase' = "execute" /\ UNCHANGED result ELSE GiveUp
  /\ UNCHANGED <<rigid, fuel, state, same, history>>

(* __execute returns a pointer: to a response that parses, or not.  A      *)
(* disqualified run is not looked at; any other needs the memory.          *)
ExecuteReturns(parses) ==
  /\ phase = "execute"
  /\ IF disqualified = None /\ ~hasMemory THEN GiveUp
     ELSE Conclude(IF parses THEN <<"success">> ELSE <<"trap">>)
  /\ UNCHANGED <<rigid, fuel, state, same, history>>

(* An unreachable, or the fuel is spent.                                   *)
GuestTraps ==
  /\ phase \in {"start", "execute"}
  /\ Abandon
  /\ UNCHANGED <<rigid, fuel, state, same, history>>

Next ==
  \/ RequestContext \/ Log \/ Abort
  \/ \E p \in Pointers : LoadContext(p) \/ Height(p)
  \/ \E k \in Keys \cup {BadKey} :
       RequestStorage(k) \/ \E p \in Pointers : LoadStorage(k, p)
  \/ \E name \in Foreign : Reach(name)
  \/ StartReturns
  \/ \E parses \in BOOLEAN : ExecuteReturns(parses)
  \/ GuestTraps

Spec == Init /\ [][Next]_vars

----------------------------------------------------------------------------
Kinds == {"none", "success", "trap", "disqualified", "error", "panic"}

TypeOK ==
  /\ world \in Worlds /\ other \in Worlds
  /\ hasMemory \in BOOLEAN /\ hasExecute \in BOOLEAN
  /\ phase \in {"start", "execute", "ended"}
  /\ fuel \in 0 .. Fuel
  /\ keys \in Seq(Keys)
  /\ outcome[1] \in Kinds
  /\ reported \in Seq(Keys)
  /\ same \in BOOLEAN
  /\ asked \in Seq(Keys) /\ unasked \subseteq Keys /\ reached \in Seq(Foreign)

(* The recorded keys explain the run: if the guest could tell two worlds   *)
(* apart at all, they differ in the height, in the context or under a key  *)
(* that was recorded; unless the guest loaded a key it never requested,    *)
(* which host_dispatch does not record.                                    *)
KeysExplain ==
  same \/ unasked # {}
    \/ world.height # other.height \/ world.context # other.context
    \/ \E k \in ToSet(keys) : world.storage[k] # other.storage[k]

(* The keys of a result are exactly those the guest requested, each once,  *)
(* ordered by their first request (the filter in Prober::run).             *)
FirstAt(k) == CHOOSE i \in 1 .. Len(asked) :
                asked[i] = k /\ \A j \in 1 .. i - 1 : asked[j] # k
KeysReported ==
  outcome[1] \in {"success", "trap", "disqualified"} =>
    /\ ToSet(reported) = ToSet(asked)
    /\ \A i, j \in 1 .. Len(reported) :
         i < j => FirstAt(reported[i]) < FirstAt(reported[j])

(* A run that called a foreign import is reported as disqualified, by the  *)
(* first it called, however it ended afterwards; no other run is.          *)
Verdict ==
  outcome[1] \in {"success", "trap", "disqualified"} =>
    outcome = IF reached = <<>> THEN <<outcome[1]>>
              ELSE <<"disqualified", Facility(reached[1])>>

(* A pointer beyond the guest's memory is an error of the run, and fails   *)
(* that method alone.                                                      *)
HostStands == outcome # <<"panic">>
=============================================================================
