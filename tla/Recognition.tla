----------------------------- MODULE Recognition -----------------------------
(***************************************************************************)
(* The two ways in which synthesize_one finds out what a view reads: it is *)
(* tried as a list first, and its keys are discovered if it is none.  The  *)
(* two share nothing but the contract.                                     *)
(***************************************************************************)
EXTENDS KeyDiscovery, ListReader

RecognizeInit == ReaderInit /\ Init

TryList == step # "done" /\ ReaderNext /\ UNCHANGED vars

DiscoverKeys ==
  /\ step = "done" /\ plan = NoPlan
  /\ Next
  /\ UNCHANGED listvars

RecognizeNext == TryList \/ DiscoverKeys

Recognize == RecognizeInit /\ [][RecognizeNext]_<<vars, listvars>>
=============================================================================
