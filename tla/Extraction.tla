----------------------------- MODULE Extraction ------------------------------
(***************************************************************************)
(* alkabi-extract, run again and again while the contract is rebuilt: it   *)
(* calls __meta, reads or normalizes the document, attaches plans if told  *)
(* to, and writes abi.json and abi.ts in place, one after the other.  It   *)
(* may fail or be killed at any point, and what it has written stays.      *)
(*                                                                         *)
(* How documents are read and written is a parameter, which AbiDocument    *)
(* gives: parse_abi_json, to_json_pretty and to_ts.                        *)
(***************************************************************************)
EXTENDS Naturals, Sequences

CONSTANTS
  Missing,     \* no value: no document, no text, no plan
  ReadDoc(_),  \* the document that a text says, Missing if there is none
  JsonText(_), \* its text in abi.json, Missing if writing it panics
  TsText(_),   \* and in abi.ts
  Builds,      \* [text, image, ..]: what __meta says, and where in memory it is
  Exprs,       \* the plans that the analysis may come up with
  VerifyTrials,
  MaxRuns

ASSUME RunsAssumption == MaxRuns \in Nat

VARIABLES
  wasm,   \* the build in contract.wasm, which is the one that is deployed
  pc,     \* where the extractor is, "idle" between two runs
  plans,  \* --plans or --trials was given
  abi,    \* its document, the build at first; Missing between two runs
  files,  \* the file of each name: [state, run, text]
  runs    \* started so far

runVars == <<wasm, pc, plans, abi, files, runs>>

Absent      == [state |-> "absent", run |-> 0, text |-> Missing]
Torn(r)     == [state |-> "torn", run |-> r, text |-> Missing]
Whole(r, t) == [state |-> "whole", run |-> r, text |-> t]

(* The files in the order in which they are written.                       *)
TsFirst == <<"ts", "json">>
Order   == <<"json", "ts">>

StaleText(f, doc) ==
  LET bare == [doc EXCEPT !.methods = [i \in DOMAIN @ |-> [@[i] EXCEPT !.plan = Missing]]]
  IN  IF f = "json" THEN JsonText(doc) ELSE TsText(bare)
Text(f, doc) == IF f = "json" THEN JsonText(doc) ELSE TsText(doc)

ExtractInit ==
  /\ wasm \in Builds
  /\ pc = "idle" /\ plans = FALSE /\ abi = Missing
  /\ files = [f \in {"json", "ts"} |-> Absent]
  /\ runs = 0

Goto(label) == pc' = label

(* A run reads contract.wasm once, at its start.                           *)
Rebuild ==
  /\ pc = "idle" /\ wasm' \in Builds \ {wasm}
  /\ UNCHANGED <<pc, plans, abi, files, runs>>

Start ==
  /\ pc = "idle" /\ runs < MaxRuns
  /\ Goto("meta") /\ abi' = wasm
  /\ plans' \in BOOLEAN
  /\ runs' = runs + 1
  /\ UNCHANGED <<wasm, files>>

(* extract_meta_bytes.  The module must be valid, start and have a __meta  *)
(* that returns, which nothing enforces, a pointer behind a length.        *)
MetaText(b) ==
  LET i == b.image IN
    IF i.runs = "yes" /\ i.ptr \in 4 .. i.size /\ i.ptr + i.len <= i.size
    THEN b.text ELSE Missing

CallMeta ==
  /\ pc = "meta" /\ abi.image.runs # "forever"
  /\ MetaText(abi) # Missing
  /\ Goto("parse") /\ abi' = MetaText(abi)
  /\ UNCHANGED <<wasm, plans, files, runs>>

Parse ==
  /\ pc = "parse" /\ abi' = ReadDoc(abi) /\ abi' # Missing
  /\ Goto(IF plans THEN "attach" ELSE "mkdir")
  /\ UNCHANGED <<wasm, plans, files, runs>>

Pending(m) == m.kind = "view" /\ m.plan = Missing

PendingIn(doc) == {i \in DOMAIN doc.methods : Pending(doc.methods[i])}

(* The document with the plans that were found for pending methods.        *)
Planned(doc, found) ==
  [doc EXCEPT !.methods =
     [i \in DOMAIN doc.methods |->
        IF i \in PendingIn(doc) /\ found[i] # Missing
        THEN [doc.methods[i] EXCEPT !.plan = [expr |-> found[i], trials |-> VerifyTrials]]
        ELSE doc.methods[i]]]

(* attach_plans, as PlanAttachment has it.                                 *)
Attach ==
  /\ pc = "attach" /\ Goto("mkdir")
  /\ \E found \in [PendingIn(abi) -> Exprs \cup {Missing}] : abi' = Planned(abi, found)
  /\ UNCHANGED <<wasm, plans, files, runs>>

MakeDir ==
  /\ pc = "mkdir" /\ Goto("open1")
  /\ UNCHANGED <<wasm, plans, abi, files, runs>>

(* fs::write truncates the file, after its text was made, and fills it.    *)
Open(n) ==
  /\ pc = <<"open1", "open2">>[n] /\ JsonText(abi) # Missing
  /\ Goto(<<"fill1", "fill2">>[n])
  /\ files' = [files EXCEPT ![Order[n]] = Torn(runs)]
  /\ UNCHANGED <<wasm, plans, abi, runs>>

Fill(n) ==
  /\ pc = <<"fill1", "fill2">>[n]
  /\ Goto(<<"open2", "done">>[n])
  /\ files' = [files EXCEPT ![Order[n]] = Whole(runs, Text(Order[n], abi))]
  /\ UNCHANGED <<wasm, plans, abi, runs>>

(* main returns, an error included, panics or is killed.                   *)
Quit ==
  /\ pc # "idle" /\ Goto("idle")
  /\ abi' = Missing /\ plans' = FALSE
  /\ UNCHANGED <<wasm, files, runs>>

Extract ==
  \/ Rebuild \/ Start \/ CallMeta \/ Parse \/ Attach \/ MakeDir
  \/ \E n \in 1 .. 2 : Open(n) \/ Fill(n)
  \/ Quit

ExtractSpec == ExtractInit /\ [][Extract]_runVars

----------------------------------------------------------------------------
(* main writes abi.ts last, in place: as long as both files are whole,     *)
(* abi.ts may be older than abi.json but never newer, however often runs   *)
(* fail or are killed in between.                                          *)
TsNotAhead ==
  files["ts"].state = "whole" /\ files["json"].state = "whole"
    => files["ts"].run <= files["json"].run

Json(f) == IF f = "json" THEN files[f].text ELSE files[f].text.is

(* A run that has written a file leaves it whole, whatever was there, and  *)
(* it reads back (parse_abi_json) as the very document of the run, its     *)
(* plans and the trials of each included; at the end that is true of both. *)
FilesReadBack ==
  \A n \in 1 .. 2 : pc = <<"open2", "done">>[n] =>
    \A f \in {Order[i] : i \in 1 .. n} :
      /\ files[f].state = "whole" /\ files[f].run = runs
      /\ ReadDoc(Json(f)) = abi

(* A set of documents that holds what the builds say and is closed under   *)
(* attaching plans, and whose members read back if they can be written.    *)
RoundTrip(Docs) ==
  /\ \A b \in Builds : MetaText(b) # Missing => ReadDoc(MetaText(b)) \in Docs \cup {Missing}
  /\ \A d \in Docs : \A found \in [PendingIn(d) -> Exprs \cup {Missing}] : Planned(d, found) \in Docs
  /\ \A d \in Docs : JsonText(d) # Missing => ReadDoc(JsonText(d)) = d /\ TsText(d).is = JsonText(d)
=============================================================================
