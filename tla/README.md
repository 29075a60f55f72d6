# A verification project for alkabi

alkabi turns alkanes contracts (wasm smart contracts) into self-describing
documents: an ABI with schemas, and for as many view methods as possible a
*plan*, a small expression over storage, height and calldata with which a client
computes the answer of the method without running it. Plans are not derived by
the author of the contract; they are guessed from probe runs of the bytecode and
kept only if randomized runs agree with them. What can go wrong there is what
this project is mostly about.

Paths below are relative to `src/crates/`; `analysis/` stands for
`alkabi/src/analysis/`.

## 1. The system

| part | code | state it keeps | operations |
|---|---|---|---|
| plan synthesis and verification | `analysis/mod.rs`, `verify.rs`, `list.rs`, `lift/mod.rs` | the document being completed; per method the candidate, its counter of agreeing trials, its budget of attempts | `attach_plans`, `synthesize_one`, `verify`, `verify_list`, `verify_lifted` |
| probe host | `analysis/host.rs` | per run: requested keys, the first disqualifying call | `Prober::run`, one handler per import in `host_dispatch` |
| key discovery | `analysis/synth.rs` | the runs made so far: arguments and keys | `discover_keys`, `recover_template` |
| expression fitting | `analysis/fit.rs` | samples of one value distribution | `collect_samples`, `fit_expr` |
| list reader | `analysis/list.rs` | two probes, the template of a base, the counters of the trials | `try_list_plan`, `templatize`, `verify_list` |
| concolic interpreter | `analysis/lift/interp.rs`, `interp_exec.rs`, `sym.rs` | value and control stack; memory and a tag per byte; the key last requested; steps | the wasm operators, the host imports, `recover_bytes`, `extract_response` |
| lift search | `analysis/lift/mod.rs` | the width tried for every key | `lift_view`, `verify_lifted` |
| wasm module parser | `analysis/lift/module.rs` | the parsed module | `Module::parse` |
| plan language | `alkabi/src/plan.rs` | none | `eval_bytes`, `eval_num`, `eval_bool`, `write_json`, `parse` |
| types and derives | `alkabi-macros/src/*.rs`, `alkabi/src/types.rs`, `schema.rs` | the registry of named types | derived `collect`, `export_abi`, dispatch |
| document and extraction | `alkabi/src/abi.rs`, `extract.rs`, `alkabi-extract/src/main.rs` | the document; two files | `to_json`, `parse_abi_json`, `extract_meta_bytes`, `normalize_upstream`, `main` |
| codecs | `legacy.rs`, `borsh_io.rs`, `witness.rs`, `abi_return.rs`, generated `from_opcode` and `dispatch` | a cursor | decode calldata and witness, encode responses |

How they interact. The derives compile a document into the contract; extraction
reads it back out of the wasm. `attach_plans` takes that document and the wasm,
builds one `Prober`, and treats the views that have no plan one after the other.
For a view, `synthesize_one` asks the list reader, key discovery and fitting
(under the Integer and then the Stringy distribution of values), and last the
concolic interpreter for candidates, and gives each to a trial loop. All four
run the bytecode through the probe host (the interpreter through a host of its
own), and the trial loops evaluate candidates with the plan language. The document
is written to two files. A client that has nothing else encodes calldata by it, the
deployed contract decodes them with generated code, and the client reads the
response by the document again. Everything
is one thread and every call is synchronous: there are no races, no messages and
no persisted state other than the two files the command line tool writes. What
is hard is elsewhere:

- **an adversarially general environment**: the contract is any program. It may
  trap, spend its fuel, call forbidden imports and carry on, or read different
  keys from one run to the next;
- **sequences of fallible stages**: each may fail, err, or find nothing, and each
  kind of failure has another continuation (give up the method, the
  distribution, the trial);
- **bounded loops of skips and counts**: what is counted, what is skipped, what
  uses up a budget;
- **two files written in place**, by runs that may fail or be killed anywhere, of a
  contract that is rebuilt in between;
- **two ends of a wire**: what a client makes of the document and what the contract's
  generated code makes of the client's words were written apart;
- **two stacks and byte tags** of an interpreter that mirrors wasm, whose errors
  only show operators later;
- **machine numbers**: 32-bit pointers in `usize`, counters that saturate or wrap,
  64-bit arithmetic of the guest and 128-bit arithmetic of plans.

What makes each part correct:

- *synthesis*: a plan that is attached was compared with the bytecode as often as
  it says, and nothing seen while it was verified contradicts it; nobody but a
  view without a plan gets one; it ends;
- *probe host*: the recorded keys account for everything a run can depend on; the
  verdict of a run is right however the guest behaves;
- *key discovery*: what it returns reproduces what it saw, and what can be
  determined is found;
- *list reader*: a list plan reads the list of the contract, at every height, and
  recognizable lists are recognized;
- *interpreter*: control goes where wasm sends it; tags never outlive their bytes;
  a lift is right about the run it was lifted from;
- *types*: no dangling references, no endless recursion, no confusion of types;
- *plan language*: a plan that the extractor rewrites keeps its meaning, and reads
  no more than it did;
- *lift search*: it ends, wastes no run, reaches the widths of a method that has
  any, and the trials judge a lift under the widths it was found with;
- *documents*: what is written reads back as what was meant, also after a crash;
- *codecs*: a call made by the document arrives as it was meant and its answer reads
  as what was returned; calldata of anybody make the decoder neither invent nor
  reserve more than they carry.

## 2. The modules

| module | models | notes |
|---|---|---|
| `PlanAttachment` | what `attach_plans` promises: methods are settled in document order, with no plan or a backed one | abstract specification |
| `PlanSynthesis` | `attach_plans`, `synthesize_one`, the sources of candidates, the three trial loops | implements `PlanAttachment` |
| `PlanSynthesisProofs` | theorems | TLAPS |
| `ProbeHost` | `Prober::run` and every import of `host_dispatch`, under an arbitrary guest | two worlds at once |
| `ProbeHostProofs` | theorems | TLAPS |
| `KeyDiscovery` | `discover_keys`, `recover_template`, `concrete_key` | |
| `ListBases` | `BaseTemplate`, `templatize`, the keys of lists | no state |
| `ListReader` | `try_list_plan`, `verify_list` | |
| `Recognition` | the first two stages of `synthesize_one` | composes `ListReader` and `KeyDiscovery` |
| `RecognitionProofs` | theorems about it and both of its parts | TLAPS |
| `LiftSearch` | `lift_view`, `interp_lift_wasm`, the widths of `verify_lifted` | any deterministic method |
| `LiftSearchProofs` | theorems | TLAPS |
| `LiftControl` | structured control in `exec_body`, `do_branch`, `block_structure` | |
| `LiftControlProofs` | theorems | TLAPS |
| `LiftMemory` | tags, host loads, loads and stores, numbers, recovery of keys and responses | all worlds at once |
| `LiftMemoryProofs` | theorems | TLAPS; extends `PlanEvalProofs` for its arithmetic |
| `PlanNumbers` | the arithmetic of plans, and `simplify_num` for one operator | operators only |
| `ByteNumbers` | numbers as little-endian bytes | operators only, for `LiftMemory` and `PlanEval` |
| `PlanEval` | `eval_bytes`, `eval_num`, `eval_bool`, `normalize`, `simplify_bytes`, `simplify_num` | one step of each recursion; a plan that grows |
| `PlanEvalProofs` | theorems | TLAPS; those about `PlanNumbers` included |
| `TypeCollection` | `export_abi`'s collection, the derived `collect` | |
| `JsonValues` | the JSON values all documents are read from | operators only |
| `PlanDocument` | `write_json` and `parse_plan` | extends `JsonValues` |
| `AbiDocument` | `to_json`, `to_json_pretty`, `to_ts`, `parse_abi_json`, `normalize_upstream` | extends `PlanDocument` |
| `LegacyDecode` | the types' `decode` in `legacy.rs`, and the fields of a variant | one step of the recursion |
| `Calldata` | borsh, the raw returns, and what the client does for all codecs | extends `AbiDocument` and `LegacyDecode` |
| `Extraction` | `main` of `alkabi-extract`, `extract_meta_bytes`: runs, crashes, files | the format of documents is a parameter |
| `ContractCall` | the generated `from_opcode` and `dispatch`, under calls of any origin | extends `LegacyDecode` and `Extraction`; borsh and the client are parameters |
| `DocumentProofs` | theorems about `TypeCollection`, `Extraction` and `ContractCall` | TLAPS |
| `ClientCall` | a client, and what the contract returns (`finish_return`) | extends `Calldata` and `ContractCall` |
| `MC...` | instances of the above for TLC | |

### PlanSynthesis and PlanAttachment

A *world* is everything one probe run depends on (storage, height, calldata).
The bytecode is `wasm[m]`, a function from worlds to an outcome (a payload, a
trap, a disqualification, an error of the prober); a candidate is a function from
worlds to a payload or an evaluation error. Both are arbitrary, chosen in `Init`
or by the generator, so a run covers every contract and every fit at once.
`Emptied[w]` is `w` before its storage is populated: list reads and the lifter
probe that one first.

`pc` names the stage of `synthesize_one`, `gen` the source of candidates whose
worlds are drawn. One action is one probe run and what the code does with it:
`TrialAgrees`, `TrialDisagrees`, `TrialSkipped` (a trap or a disqualification:
an attempt is used, nothing is counted), `TrialErrs`, `PreProbeFails` (the first
of the two runs of `verify_lifted`), `OutOfAttempts`, `Ship`. `FallThrough` is
where the lack of a candidate leads: list to discovery, Integer to Stringy,
Stringy to the lifter, the lifter to the next method; a failed discovery
(`GiveUp`) skips all of these. `MaxAttempts` keeps the 32-bit arithmetic: the
product saturates, the sum wraps. `compared`, `tried`, `evidence`, `refuted` and
`sawDisq` are history for the properties only.

`PlanAttachment` sees the document alone: `settled` methods are behind, and one
may be settled with a plan only if there are `Trials` worlds in which the
bytecode succeeds with what the plan computes.

### ProbeHost

The guest is any sequence of host calls on a budget of fuel, traps and returns
included. Every import is an action with its memory checks: a pointer is an `i32`
widened to an unsigned `usize`, whose sum with a length may wrap. The same reply
is computed for a second world `other`; `same` says whether the guest could have
noticed the difference. `Conclude`, `GiveUp` and `Abandon` are the ways
`Prober::run` ends: a disqualification outweighs the ending, an error in the
start function is an error of the run.

### KeyDiscovery

One action per run on empty storage (`BaselineRun`) or filled storage
(`ConfirmRun`), one for the counting of keys and one for the classification. The
keys a run requests are arbitrary but on empty storage a function of the
arguments, as they are for a deterministic contract; on filled storage they may be
others. Bytes come from {0, 1},
which makes accidental repetitions and shared bytes, rare in practice, frequent.

### ListBases, ListReader and Recognition

A storage key is a base with a tail, which is all `list.rs` looks at; a height is the
sequence of its bytes. The view (`guest`) reads a list from some template, or is
`Anything`: any outcomes, keys and data, from run to run as it likes. `EmptyProbe` and
`CountProbe` are the two probes, `Trial` is one turn of `verify_list`: the list is stored
where the *recovered* template has it at that height, so a wrong template stores
it where the contract does not look. A list read succeeds whenever it is run; a run
of the other views may trap or fail. Data are the sequence of elements, compared
within one storage only, where no stored element is empty. When nothing is returned the
state is reset: locals vanish, and the guest is forgotten. `elsewhere` is history.

`Recognition` is the order in which `synthesize_one` asks the two readers: key discovery
starts when the list reader returned nothing, and shares nothing with it but the
contract, of which each sees its own kind of run.

### LiftSearch

The interpreter is deterministic: what a run does is `RunOf(method, base, widths)`,
an arbitrary function of the archetype and of the width each key is served in. An
attempt is one action, named for what the loop does after it: `Lifted`, `Fruitless`
(it ran, but nothing can be lowered), `TrapsUnread`, `Narrow`, `Exhausted` (the last
key is as narrow as it gets); `OutOfAttempts` ends the loop over attempts. `order`
is emptied by every attempt, `widths` and `cand_idx` by every archetype. `DrawTrial`
is what `verify_lifted` stores before a trial, for any set of populated keys; the
counting of trials is in `PlanSynthesis`. `seen` is history.

### LiftControl

Operands are truth values; an operator that computes and cannot fail takes its operands
(`Drop`) and pushes some value (`Push`). Those that can fail are divisions (`Divide`: a
zero divisor is a trap of the guest, in `i32.div_s` a panic of the host) and accesses to
memory (`Access`: in range, out of range, or at an address whose sum wraps; `memory.grow`
goes with the loads). Blocks, loops, ifs, branches, tables, returns and their stacks are
kept operator by operator.
`Validation` is what wasm validation computes in one pass, from operator to operator: the
height of the value stack and the open blocks. It serves as the reference: `StaticHeight`
is that height, `Validated` what validation demands. `NoBareIf` excludes ifs without
else, which the interpreter takes otherwise than wasm (section 5). TLC evaluates both for
all bodies of the instances.

### LiftMemory

The guest is any straight-line sequence of host loads, memory operators and
arithmetic over a few bytes. An expression is represented by the value it has in
each world; so is memory. `Home` is the world the lift runs in: operands without
expression and slices of sources become the constants they are *there*.
`lapses` is history and names how a tag can come to say more than it may: `key`
(a value loaded under another key than the one its tag names), `width` (a number
stored wider than it was read or computed), `high` (a division, remainder or
shift of a number whose high bits the guest has dropped and its expression has not),
`prefix` (a run shorter than its source taken for the source), `elsewhere` (data that
depend on the world made constant, or operands that differ so only in other worlds).
The ten operators that keep expressions are one action, `Symbolic`: the guest's result
is that of a plan's operator (`PlanNumbers`), cut to the guest's width. Low bytes
depend on low bytes only, but for the operators in `WholeLeft` and `WholeRight`. Where
a division by zero ends another world's run, it ends the plan's evaluation too, and 0
stands for both (`Outcome`).
`Runs` are the runs of bytes that `recover_bytes` walks along, a set; what is recovered
is their parts in the order of addresses (`Recovered`).

### PlanNumbers and PlanEval

An expression is a record with the name of its constructor. `Eval` gives its value,
or how it fails, together with the storage keys asked for on the way: that is all
the outside can see of an evaluation. It and `Simplify` are constants of the module:
`Evaluation` and `Simplifying` say what the two make of an expression, given what
they make of its operands. That they are these recursions is what `MCEval` and
`MCSimplify` make of them for TLC, and what the proofs assume (`Unfolds`): a module
about which tlapm is to prove something may declare no recursive operator. What goes through the parts of an expression is a fold from the left
(`LeftFold`), a recursive function. Failing has two kinds, an error (`Err`: the
consumer simulates instead) and a panic (`Panic`: a slice whose end overflows).
`Operands` and `Value` are the constructors that evaluate all they have, in the
order of the code (a shift evaluates its amount first); conditionals, loops,
divisions and the connectives, which do not, are cases of `Evaluation`.

`Absorbed`, `LeftUnit`, `RightUnit` and `Foldable` are the match arms of
`simplify_num`, one set for all ten operators. The arms stand in another order for
each operator there; where two of them apply they agree, so one order does.

A plan grows by one constructor per step (`GrowNumber`, `Recover`, `Around`), its
bytes twice: `recovered` as `recover_bytes` and `normalize` put them together, `raw` as
the plain concatenation of the same parts.

### TypeCollection

A program is any assignment of names and field types to types, and of types to
the variants of a message. The recursion of the derived `collect` is the explicit
`stack`; the registry maps a name to the type whose schema stands under it.

### Documents: JsonValues, PlanDocument, AbiDocument

JSON is what `serde_json::Value` holds: its text is left out, but that a text nested
deeper than `DepthLimit` (127) is not read back, and the order of fields is kept.
`PlanDocument` has the grammar of plans as three tables of rules, one per sort of
expression, as `write_json` and `parse_bytes_expr`, `parse_num_expr`,
`parse_bool_expr` have it as match arms; an operator is written and read by its rule.
Numbers are cut where the parser cuts them (32 bits for positions, 8 for widths).
`AbiDocument` writes a document (`ToJson`), reads any JSON (`ParseAbi`: an upstream
document, one without version, is normalized) and is total: every reader returns a
document or `None`, which stands for the error. Names are sequences of tokens, as far apart
as `snake_to_camel` and the type grammar look at them.

### Extraction, ContractCall and ClientCall

A *build* is what `contract.wasm` may hold: the text its `__meta` says, the image of
memory it lies in (pointer, length, size; a module that does not start; a `__meta`
that hangs), and the methods the contract really has. `Rebuild` replaces it between
runs. A run of the extractor is a sequence of steps (`CallMeta`, `Parse`, `Attach`,
`MakeDir`, `Open` and `Fill` of each file); `Quit` ends it anywhere, by an error, a
panic or a signal. `Open` truncates (`Torn`), `Fill` completes (`Whole`). `Attach` is
what `PlanAttachment` promises: some pending views get some plan (`Planned`).
Reading a text and writing the two (`ReadDoc`, `JsonText`, `TsText`) are operator
constants, so that the steps and the files can be reasoned about apart from the
recursive format; the run gives them `ParseAbi`, `Pretty` and `ToTs` of `AbiDocument`.
`RoundTrip(Docs)` says that `Docs` holds what the builds say, is closed under
attaching plans, and that its documents read back if they can be written;
`MCClientCall` collects these documents (`MCDocs`), and TLC evaluates the claim of them
(`FormatReadsBack`).

`ContractCall` adds the deployed contract: `SendStray` sends any words, `Handle` and
`Reject` are `from_opcode` and the witness decoding of the generated `dispatch`, `Answer`
is `finish_return` of any value the handler may return. Types of fields decode as
`LegacyDecode` says: `Decoding` is one step, which calls `decode` for the elements of a
vector, and `Decode` the operator constant it ends in, the recursion itself in the run.
`CallSpec` is the contract alone: calls come from anybody (`Receive`), and borsh and
what handlers return are operators of which nothing is assumed. A step of `ClientCall`
is one of `CallSpec`, where `Send` and `SendStray` are ways to receive a call.

`ClientCall` puts a client next to it that shares the files and the deployed build
and nothing else. `Send` encodes any values of the schemas of the document for any
of its methods and wraps the witness in some input of the transaction. The client's half (`Encode`, `ToBorsh`, `ReadRaw`, `WordsOf`) is not in the
repository, whose documents only describe it, and is marked external; so is borsh.

## 3. What TLC checks

| run | instance | shows |
|---|---|---|
| `synthesis` | two methods with and without prior plans, views and execute methods, 3 worlds, 2 payloads, 7 contracts, candidates and list readers that differ or fail in one world, `Trials = 2`, a counter of two bits | `PlanBacked`, `NoMismatchShipped`, `DiscoveryGate`, `GivenUpForSkips`, `OnlyPendingViews`, `Completes`, `ImplementsContract` |
| `synthesis_refuted` | one method, candidates of both distributions | violated: `RefutedNeverShips` |
| `probe_host` | guests of 4 host calls, 2 keys, 3 values, 2 heights and contexts, 3 pointers | `KeysExplain`, `KeysReported`, `Verdict` |
| `probe_pointer` | guests of 2 host calls | violated: `HostStands` |
| `discovery` | lists with bases of up to four bytes, and of up to three before and two after a height of two bytes, or any other view; 2 trials, 3 attempts; then 3 runs, 3 bytes of calldata, up to two keys of up to three bytes | `Reproduces`, `Identifies`, `PinnedBase`, `PlainListsKept` |
| `lift_control` | some 800 function bodies, three levels deep, branches to the function's label, divisions and memory accesses included, 24 steps | `NestingMirrored`, `HeightIsStatic`, `OnlyHonestTraps`, `OnlyOutwardBranchesPanic`, `LeftAtTheEnd`, `Ends` |
| `lift_no_else` | ifs without else | violated: `LeftAtTheEnd` |
| `lift_memory` | four operators, three bytes of memory, two worlds | `TagsSound`, `NumbersAgree`, `LiftFaithful` |
| `plan_eval` | plans grown by two constructors from five numbers and three byte strings, over three-bit numbers in three worlds | `NormalizeFaithful`, `SimplifyFaithful` |
| `lift_search` | 2 archetypes, 3 keys, 3 attempts; some 51 000 methods: any function of the widths of two keys, any reader of up to three | `NoRunTwice`, `TrialsLikeLift`, `NothingMissed`, `Ends` |
| `client` | 2 runs of the extractor over 6 builds, calls after the first run, calldata of up to 3 words from anybody | `TsNotAhead`, `FilesReadBack`, `CallsArrive`, `DecodesBounded`, `DecodeInverts` |
| `types` | all programs of three types with up to two fields, one or two variants | `NoDanglingRef`, `DistinctCalls`, `UniqueNamesSuffice` |

The bounds, and why they are enough.

- *Worlds, payloads.* A wrong plan needs one world in which it agrees and one in
  which it does not; a third gives each of the two distributions a world of its
  own, so that an expression can be right under one and wrong under the other.
  Payloads are only compared: two suffice, and they are symmetric.
- *Trials.* With 2 trials a loop counts, skips and disagrees in every order. The
  budget is `max(Factor * Trials, Trials + Slack)`, with factor 2 and slack 2 or 1
  instead of 8 and 32. In `synthesis` the counter has two bits, so that the product saturates
  at 3 and the sum wraps to 0: the budget allows one skip, which is enough to be given
  up for a second one. `synthesis_refuted` has room for both, and a budget of 4.
- *Probe guests.* Four calls allow request, load, foreign call and one more; a
  request and a load tell two values of one length apart, as the code does.
- *Discovery.* A region is delimited by shared bytes before and after it and
  located by its first occurrence: three bytes allow all of that, and an occurrence
  that repeats. Two runs suffice to vary a byte, the third to refute.
- *Lists.* A height has two bytes, each 0 or 1, and that of the probes is 0 0, which
  overlaps itself: it can occur in a constant base, before, across and behind the
  place of the height, and more than once. The second probe stores two elements,
  trials store none, one or two, at any height; three attempts allow a run that is
  skipped between two trials.
- *Function bodies.* Three nested blocks of each kind around branches to all of
  their labels, among them operators that fail with their operands there; longer bodies repeat what happens at one label. 24 steps run all
  bodies without a loop to the end, and loops several times.
- *Memory.* A value is two bytes in a memory of three, so that values are
  overwritten, overlapped and moved in part. Four operators allow a source, a
  move or an arithmetic step, a store over it and another read. Numbers have one
  or two bytes (i32, i64), those of plans four.
- *Plans.* Two constructors put an operator over an operator, in either operand, a
  loop over a concatenation and a slice out of a nested one. `simplify` and
  `normalize` look at an expression and its operands only, so deeper plans repeat
  what happens there. A number has three bits, of which each is a byte, lengths two:
  sums, products and shifts wrap, values are shorter, longer and exactly as long as
  a number, and slices overflow. Loops may turn twice, and ask for more.
- *Lift search.* Two archetypes show what one leaves to the next; three keys with
  three attempts are one too many to narrow, so that the attempts can run out. A width
  is 16 or 8, as in `WIDTH_CANDIDATES`. A method may trap after any key or none, read a
  key twice, and read others depending on widths.
- *Client.* The builds are two versions of one contract with opcodes and fields
  swapped, an upstream contract whose names clash in camel case and which names a
  type nobody defines, the same with a plan in its document whose trials are, cut to 32
  bits (8 in the model), those of a run, one whose document is no object and one whose `__meta` lies
  about its memory. The second run may be killed between, before or in the files
  of the first. A byte is 0, 1 or 2 (2 is not UTF-8), a word two bytes, a `usize` ends
  at 6 and the reserve is 2: a length can be honest, beyond the words, beyond the
  reserve and beyond a `usize`. `DepthLimit` is 14, which the one deep plan exceeds.
  Clients are built after the first run (`CallsAfter`), calldata of anybody do not
  depend on documents and are sent before it.
- *Types.* Three types allow a cycle of any length up to three, a diamond, and two
  types of one name next to a third.

Deadlock is not checked: each of these programs returns, so its model stops.

Fairness. `Completes` and `Ends` assume weak fairness of the next-state relation
(in `LiftSearch` of the search, not of the trials after it) and nothing more. That is what a sequential program on its own thread has, as long
as each step returns: probe runs are bounded by fuel (`AnalysisConfig.fuel`) and the
interpreter by its step budget. No fairness is assumed between actions; in
particular trials may always draw the worst world.

## 4. What is proved

For every document, contract, number of methods, set of worlds and candidates, and
every number of trials (`PlanSynthesisProofs`): `TypeCorrect`, `PlansAreBacked`,
`NoMismatch`, `GateHolds`, `OnlyPending`, `SkipsExhaust` (`GivenUpForSkips`) and
`Refinement` (the safety part of the
implementation of `PlanAttachment`). The inductive invariant `IInv` adds to the
properties

- `StageInv`: the source of candidates that belongs to each stage; without it
  `FallThrough` could be taken for the wrong one;
- `DocInv`: the method under treatment is pending, and plans of the analysis lie
  behind it; this gives `OnlyPendingViews` and makes `Ship` the first plan;
- `LoopInv`: the counter is the number of comparisons, all agreed, and no world
  tried contradicts the candidate; this is what `Ship` turns into a backed plan. Where
  every run succeeded, the counter is the number of attempts; since the budget is no
  less than the trials (`EnoughAttempts`: the product saturates at a number no less than
  they, so it does not matter that the sum wraps), running out of attempts takes a skip;
- `GateInv`: methods that discovery rejected lie behind.

The properties are not inductive without it, because they speak of plans already
attached and say nothing of the loop that is about to attach one. One lemma per
conjunct goes through the actions, those that leave the document alone first
(`QuietStep`) and `Ship` apart (`ShipStep`, `ShipBacked`). `Refinement` maps a step
to `Settle` when `cur` advances, to a stutter otherwise; `ShipSettles` exhibits
the worlds of `evidence`, which is why the implementation carries it as history.

For every guest, memory size, fuel and pair of worlds (`ProbeHostProofs`):
`KeysSuffice` (replies can differ only by height, context, a recorded key, or a load
without a request) and `VerdictHolds`. `HInv` strengthens the verdict by what
`disqualified` remembers of `reached` and what a finished run has reported;
`KeysSuffice` needs beyond that only that a request is recorded in the step that
answers it. `KeysOrdered` (`KeysReported`): the reported keys are the requested ones, each
once, by their first requests, however many there are. `Distinct` is a recursive
function, about which these provers can do no induction; instead, `Smallest` (the least
element of a set of numbers, from the library's well-founded relations) gives a least
counterexample: a shortest prefix for which the recursion has no value (`CanGrow`), or
whose value is out of order (`DistinctSorted`). `TypeCorrect` is the type invariant.

For every alphabet, width of heights, base and number of trials (`RecognitionProofs`):
`ReaderTypeCorrect`, `Pinned` (`PinnedBase`) and `KeepsPlain` (`PlainListsKept`). Two templates
that agree at the height of the probes are the same base there. If one has its height
further left, and they agree at another height too, take the least byte in which the
two heights differ: in the template on the left it stands where the other one has a
constant, or an earlier byte of the height, neither of which differs between the two
heights (`OnePlace`). So they have it at the same place, and are one (`SameTemplate`).
`templatize` takes the leftmost place, which is never to the right of the contract's.
`ReaderInv` says that a list's template is the one recovered from its base, that
`elsewhere` stands for a height at which both agree, and that all trials of a list
count. Assumed: heights have `Width` bytes, and list reads succeed.

For every program of types (`DocumentProofs`): `TypeCorrect`, `NoDangling`,
`CallsDistinct` (`DistinctCalls`) and `UniqueNames` (`UniqueNamesSuffice`), the last two
from the invariant that what is registered stands under its own name (`RegInv`).
The invariant says that what a finished variant names is registered or still to be
collected (`RootsInv`) and the same of the fields of every registered type
(`FieldsInv`): a registered type is complete or on the stack.

For every width of numbers and every two operands (`PlanEvalProofs`):
`FoldKeepsValue`. Where an operator applied to two simplified operands has a value,
what `simplify_num` makes of the three has the same; the operands may be any
expressions, of which only those that are constants need a known value. Each match
arm is a case; `Absorbing` and `Neutral` are the laws of zero and one behind them,
and `ApplyType`, that results stay within the width, makes folded constants
constants. The bits of and, or, xor are assumed to be no more than functions with
zero absorbing for the one and neutral for the other.

For every plan, however deep, in every world and every turn of a loop (the same module):
`PlansEvaluate`, `NormalizeKeeps` and `SimplifyImproves`; and however a plan is grown,
`GrowthTypeOK` (`TypeOK`), `GrowthNormalizes` (`NormalizeFaithful`) and `GrowthSimplified`
(`SimplifyFaithful`). No theorem of the library does induction over expressions for
these provers, so the plans are built from below instead: `Layer` makes of three sets, one per sort,
the expressions with operands in them, `Numbers`, `ByteStrings` and `Conditions` are the
unions of the layers over nothing, and `PlansLeast` says that three sets that are closed under
one more constructor contain them. It is `Upward` applied to the layers; that a list of operands
of any length lies in one of the layers is another use of it. A claim about all plans is then the claim about
one `EvalStep` or `SimplifyStep` whose operands satisfy it. Every fold is unfolded by
a function that exists by `Upward` and is the one its recursive definition means
(`Proceeds`, then `Joins`, `Gathers` and their like).

- `PlansEvaluate`: a step of a sort yields a value of that sort, or fails, where its
  operands do; it names the keys as byte strings, and unlike `TypeOK` speaks of conditions too.
- `NormalizeKeeps`: joining is associative with failures and keys (`Then`), so
  flattening leaves the join of the parts as it is; merging two constants joins them.
- `SimplifyImproves`: `Improves` (the same value where there is one, no new key)
  passes through every constructor. It says nothing of a plan that fails, and must
  not: `0 * e` becomes `0`, whatever `e` does.
- The invariant of the growing plan (`GrowInv`) is that the two are plans that are equal in every
  world *and every turn* (`EqualPlans`). `NormalizeFaithful` is not inductive: it speaks of plans
  outside a loop, where the index has no value, and says nothing of a body that a
  loop is put around in the next step.

Assumed: `Unfolds`; failures are no values, the marks `NoVar` and `ToEnd` no numbers
(`MarkAssumption`); storage holds byte strings and calldata numbers (`WorldAssumption`);
a plan starts from expressions without operands (`PartsAssumption`).

For every set of keys, number of archetypes and attempts, and every deterministic
method (`LiftSearchProofs`): `TypeCorrect`, `FreshRuns` (`NoRunTwice`),
`VerifiedAsLifted` (`TrialsLikeLift`) and `Complete` (`NothingMissed`). The invariant
says that narrowed keys are at the narrow width (`NarrowInv`), that every earlier run under the
present archetype had some key, narrowed since, at its full width (`SeenInv`), that a lift is the last run (`LiftInv`) and trials
are drawn from it (`DrawnInv`), that as many keys are narrowed as attempts were made
(`CountInv`), and that a method which only traps on widths was narrowed only where it
had to be (`MissInv`): it therefore leaves an archetype without a lift only after
`MaxAttempts` keys were narrowed, each of which needed it. `TrapAtNarrowKey` is the
step from a trap to the key that caused it.

The same module proves both properties of the key discovery for every alphabet, any
calldata and keys, and any number of runs: a returned model rebuilds the keys it was
made from (`Reproduced`), and what the runs leave no doubt about is found
(`Identified`). The invariant says that nothing is returned and, once the keys are
counted, all runs have equally many (`WaitingInv`), and that a discovery which made all
of its runs ended with the classification, any other one without a model or without keys
to describe (`EndInv`). The rest is about sequences: the bytes a template puts before and
after the calldata are shared by all keys (`ExplainedBytes`), so a template that is tight
fixes how long the common prefix and suffix are, hence the region `recover_template` cuts
out, and its single occurrence in the calldata fixes the place. The definitions in
`Clear` and `Unmistakable` do not mention the longest common prefix or suffix, so this is
not the algorithm restated. Assumed: calldata and keys are sequences over the alphabet,
and the value for a template beyond the calldata is not one. `Recognized` puts the two
together: `Recognize`, the specification that `recognition` runs, is a list reader and a
key discovery side by side (`BothRun`), so it has all four properties.

For every set of validated bodies without bare ifs, however long and deeply nested, with
any step budget (`LiftControlProofs`): `TypeCorrect`, `Mirrored` (`NestingMirrored`),
`StaticHeights` (`HeightIsStatic`), `HonestTraps` (`OnlyHonestTraps`), `OutwardPanics`
(`OnlyOutwardBranchesPanic`) and `EndsLeave` (`LeftAtTheEnd`). The hypothesis `Wasm` says what
bodies are meant: that they are validated is a fact (the prober has instantiated the
module before it is lifted), that each `if` has its `else` is what the finding of
`lift_no_else` takes away from the code. The invariant is that a running body is `Placed`:
the control stack consists of the frames of the blocks that validation has open before
the next operator, from the outermost, and the value stack has the height validation
has there. An operator that fails with its operands there stops the run and is either a
trap of the guest (`GuestTraps`) or a panic, of which `OutwardPanics` speaks for branches
only. The properties are not inductive without it: a branch reads height and
continuation from a frame pushed long before.

Both passes over a body, `Scan` (the code's `block_structure`) and `Validation`, are
recursive functions. `Recursion` builds the function such a definition means, so that
both may be unfolded operator by operator (`ScanUnfolds`, `ValidUnfolds`), and `Upward` is
induction along a body; it follows from `Smallest` by a least counterexample.
`Discipline` says that an open block has been open since its opener, under the same
blocks; hence a block has one end (`OneEnd`), stays open until then (`Stays`), and
encloses exactly the operators up to it (`Encloses`). `ScanExact`: the maps of
`block_structure` contain the pairs validation sees and no other. `Lands` is common to
all jumps: it suffices that height and blocks are those validation has *after* some
operator. `FallThrough`, `EntersBlock`, `EntersElse`, `ElseJumps`, `ClosesBlock`, `ToLoop` and
`ToBlock` are the ways to go on, one lemma per operator combines them.

For every memory, base of bytes, widths of numbers, set of worlds and length of the
guest (`LiftMemoryProofs`): `TagsTrue` (`TagsSound`), `NumbersTrue` (`NumbersAgree`) and
`Faithful` (`LiftFaithful`). The properties are not inductive: a stale tag would show in
a number loaded later, a wrong number in a tag stored later, and either in the response.
`IInv` says all at once, in every world: as long as no tag was slipped (`CleanIn`) and,
in worlds other than that of the lift, nothing was different there, it `Holds` there
that tagged bytes are the bytes their tags name (`AllBacked`), that sources are as long
as in the world of the lift (`Measured`), and that numbers agree with their expressions
in their sure bytes (`AllAgree`); `NumberSources` adds that what is tagged as the bytes
of a number is these bytes. TLC checked this invariant on the instance of `lift_memory`
before it was proved. There are three parts to the argument.

- Numbers: `Power` and `ULe` are recursive functions, unfolded by `Growth`; the rest is
  arithmetic of remainders (`SamePowers`, `ReadsBack`, `ReadsBeginning`, `SameBytes`,
  `Extended`): wrapping, extending and cutting keep the low bytes. So do the operators
  (`OutcomeAgrees`, from `RingAgrees`, `ShiftAgrees` and `BitsAgree`), where those that
  look at all of an operand have the guest's.
- Memory: what is written is either tagged from a source of its own (`Tagged`), or
  cleared (`Cleared`), or copied with its tags; all else keeps byte, tag and source
  (`TagKept`).
- The response: along a run the tags count up (`RunTags`), so a run that starts at the
  first byte of its source and is not shorter is the source, neither more
  (`AllBacked`) nor less (`Measured`), and any other run is a constant, wrong only where
  the worlds differ (`PartTrue`). `Recovers` joins the parts from the end of the range
  backwards.

Assumed is what the constants mean: numbers fit one another, calldata are as long in
every world (the trials draw them so), storage holds byte strings, the bitwise operators
work on low bytes as on shorter numbers, and no tag is not a tag.

For any number of runs of the extractor, any builds and any format of documents
(`DocumentProofs`): `NotAhead` (`TsNotAhead`) and `ReadBack` (`FilesReadBack`). The
invariant (`FilesInv`) follows the two writes: `abi.json` is torn while it is filled, holds
the text of the current run from then on (`JsonWritten`) until the run leaves, and only
then is `abi.ts` torn and filled (`TsWritten`); no file is of a run that has not
started. `abi.ts` becomes whole only while `abi.json` is whole and of the same run, and
whatever makes `abi.json` newer does not make `abi.ts` so. `ReadBack` adds what the run
holds at each label (`Holds`): a build, its text, a document in reach. Its one
hypothesis is `RoundTrip`, a claim about the recursive format, which stays with TLC
(`FormatReadsBack`).
A step of `ClientCall` is one of `Extract` or leaves `runVars` alone, so both hold there.

For all calldata, builds and types of fields (`DocumentProofs`, about `CallSpec`):
`BoundedDecoding` (`DecodesBounded`) and `InvertedDecoding` (`DecodeInverts`). The
invariant `CallInv` is short, since a contract keeps nothing: what was read of a call is
what `from_opcode` of the deployed build, which no rebuild has replaced in the meantime,
reads of its words. The argument is about that reading. `Decoded` says of one value that
elements and remaining words together have become fewer, or no more if it failed (a
vector has paid for its failing element with its length word), and that the words read
are those a client sends for the value. `Position` says so of a reader between two
values, and `PositionMoves` goes on by one: the same lemma serves the elements of a
vector, which are counted, and the fields of a variant, which are not (`Advance`). A
vector is `Decoded` if its element type is (`DecodedVec`), and all types are because no
type is the shortest that is not (`AllDecodable`). `FlattenMore`, `ReadsOnExists` and
`Upward` unfold the recursive functions these definitions use, by their last value.

The hypotheses name a set `T` of types: `Legacy`, that they are those for which the
crate implements `LegacyDecode`, and `Declares`, that fields of methods have no other,
which is what makes a contract compile; `Decodes`, that `Decode` is a step of itself; and
for `InvertedDecoding` `Encodes`, that clients encode values of such types as `EncodesAs`
writes out. TLC evaluates the first two and the last on the types and values of the
`client` run (`LegacyTypes`, `ClientsEncode`).

Assumptions are those of the constants, stated by name in the modules: counts are
natural numbers, special outcomes are not payloads, candidates and behaviours are
functions of worlds. Nothing is assumed about contracts.

Only model-checked: `Completes`, `Ends` and the fairness part of `ImplementsContract`
(liveness is out of reach of the prover), and what documents and clients are made of,
recursive operators over JSON, schemas and values: `CallsArrive` and `FormatReadsBack`.
tlapm does not reason about modules with such operators. What was done for plans and
for calldata (a step with the operator as a constant, and types by their length or data
as layers) would be the way to prove them too.

## 5. Where code and documents disagree

Three runs exhibit one each; the counterexample is the trace of the run.

- `synthesis_refuted`: an expression that trials refuted under the Integer
  distribution may be proposed again under Stringy, or by the lifter, and ship.
- `lift_no_else`: a false `if` without `else` continues at its `end` operator with
  its frame already popped: an enclosing block, or the function, is left.
- `probe_pointer`: a negative pointer passes the bounds check by wrapping around
  (or overflows in it) and the prober panics instead of failing the method.

Seen while modelling, without a run of their own. They are in the model of the part they
belong to, so that no property of it holds for lack of them. (`PlanSynthesis` knows
lifts that fail, but not panics: one ends the analysis where it stands.)

- What the guest does can panic the lifter, and with it the analysis of all methods
  (`attach_plans` says that a method which fails is left without a plan): a branch to the
  label of the function, which valid wasm may contain, underflows the index into the
  control stack (`cs.len() - 1 - depth`); `i32.div_s` by zero divides in the host; an
  address with its upper 32 bits set, which a signed load leaves, wraps in its sum with
  the offset or the width and is out of the slice; `memory.grow` asks the host for any
  amount. `OnlyOutwardBranchesPanic` is about the branches alone: no other label does this.
- With `--trials 0` a candidate ships uncompared; `PlanBacked` then demands zero
  comparisons.
- A trial that is disqualified is skipped like a trap, so a method may keep a plan
  although a trial saw it leave storage, height and calldata, which DESIGN.md:221 rules
  out. `DiscoveryGate` covers the runs of discovery.
- Runs of key discovery on filled storage are compared by the number of keys alone. A
  method whose keys depend on data gets a model of its keys on empty storage, where
  DESIGN.md:249 says that it is rejected; `Reproduces` covers the runs on empty storage.
- The positions of a slice are cut to the width of a `usize` and added unchecked; the sum
  wraps, passes the check of `plan.rs:391` and panics instead of failing the evaluation.
- A document that comes with a plan and gets others records the trials of its first plan
  for all of them, though these may have survived another number (`abi.rs:132` says that
  it is uniform). In the `client` run the build that comes with a plan has, once
  cut to 32 bits, the number of the run; with another one `RoundTrip` would be false.
- The interpreter tags a loaded value with the key of the last request, whichever key it
  loads (`key` in `lapses`, which `TagsSound` and `LiftFaithful` except).
- A document and a client can be at odds: two snake case names may be one in camel case,
  and a client that calls by name then reaches one of them, and the document may be of
  another build than the deployed one. `Knows` excludes both in `CallsArrive`, which
  says that there is no third way.
- A foreign document may hold an `le` wider than a number, whose evaluation panics. The
  extractor evaluates no plan it has read, and plans that grow in `plan_eval` have the
  widths it writes.

Smaller ones: `simplify` may turn a failure into a value, as
`0 * (x / 0)` becomes `0` (`SimplifyFaithful` promises nothing where the lifted
plan fails; the trials judge the simplified plan, which is the one that ships);
`discover_keys` returns a model for a
method all of whose runs trap, unlike its comment says; two types of one name in
different modules share an entry of the types section (`UniqueNamesSuffice` says
that this is the only way a reference goes wrong); a run of bytes from the
beginning of a source is taken for the whole source, other slices, and calldata beyond
its first byte, become constants, and a difference that is negative in the
guest and divided there becomes another number in the plan's 128 bits (`lapses` in
`LiftMemory`): such lifts are rejected by
the trials, so methods that return a part of what they read stay without a plan; a plan
nested deeper than serde_json reads makes `to_json_pretty` panic on what was just
written (`Open` in `Extraction` is then never enabled, and no file is touched); a
`__meta` that does not return hangs the extractor, which sets no fuel there
(`CallMeta`); a length beyond a
`usize` is cut, so different calldata say the same (the exception in `DecodeInverts`);
the trials of a lift populate only keys that the method reads on empty storage; a trial of a list that
stores no element (one in six) agrees with any template, so with few trials a list plan
of a wrong base may ship, which `elsewhere` excludes in `PinnedBase`.

## 6. Not modelled, and why

- `Module::parse` walks a binary that `wasmparser` has validated; it decides nothing.
- What `fit_expr` proposes: any expression that reproduces its samples is allowed,
  which is all that the trials rely on; which templates exist is a question of
  coverage, not of correctness.
- In the list reader: lists whose reads trap at some heights or under some arguments.
  They may be given up, or end as any other view.
- The layout of passback buffers and of the response parcel: whether it parses.
- In the interpreter: calls and the host stack they use, floats (unsupported),
  `select` with a symbolic condition, globals (which drop expressions), the size of
  memory (an access or a growth fails or not).
- Formatting (the `hex` and `decimal` constructors of plans included), JSON syntax, the TypeScript around the document in `abi.ts`, the macros'
  parsing of attributes, which can only fail a build.
- The rest of a transaction: of the envelopes only which input has a payload.
- Randomness: every draw is a free choice among the worlds a generator can produce,
  so nothing is said of how likely a wrong plan is to survive.

## 7. The plan

Done, in this order: `PlanSynthesis` and `PlanAttachment` with their proofs,
`LiftControl`, `ProbeHost` with its proofs, `KeyDiscovery`, `TypeCollection` with its
proofs, `LiftMemory`, `PlanNumbers` with its proofs, `PlanEval`, `LiftSearch` with its
proofs, `JsonValues`, `PlanDocument`, `AbiDocument`, `Extraction`, `LegacyDecode`,
`Calldata`, `ContractCall`, `ClientCall`, the proofs of `KeyDiscovery`, `ListReader` with its proofs, `Recognition`,
the proofs of `LiftControl`, of `LiftMemory`, of `Extraction`, of `PlanEval`
and of `ContractCall`.

Left, by importance:

1. Calls of functions and globals in the interpreter, with the stack they use.
2. The template library of `fit_expr`: which methods it misses.

Theorems still worth having: that the borsh and JSON formats read back for every value
and schema (`CallsArrive`, `FormatReadsBack`), by the method used for calldata.
