---------------------------- MODULE MCVerbatimStore ----------------------------
(* Finite instances of VerbatimStore. Calls and contents are only compared *)
(* for equality.                                                           *)
EXTENDS VerbatimStore, TLC

Renaming == Permutations(Calls) \cup Permutations(Contents)
=============================================================================
