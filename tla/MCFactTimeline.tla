---------------------------- MODULE MCFactTimeline ----------------------------
(* Finite instances of FactTimeline. Memories, keys and objects are only   *)
(* compared for equality.                                                  *)
EXTENDS FactTimeline, TLC

Renaming == Permutations(Memories) \cup Permutations(Keys) \cup Permutations(Objects)
=============================================================================
