-------------------------------- MODULE MCRecall --------------------------------
(* A small instance of Recall for TLC. The memories m1 and m3 share their  *)
(* stream and their class.                                                 *)
EXTENDS Recall, TLC
CONSTANTS m1, m2, m3, s1, s2
MCStreamOf == m1 :> s1 @@ m2 :> s2 @@ m3 :> s1
Swap == Permutations({m1, m3})
================================================================================
