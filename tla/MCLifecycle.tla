------------------------------ MODULE MCLifecycle ------------------------------
(* A small instance of Lifecycle for TLC: m1 is in a stream, m2 is not.    *)
EXTENDS Lifecycle, TLC
CONSTANTS m1, m2, s
MCStreamOf == m1 :> s @@ m2 :> None
Renaming == Permutations(Calls) \cup Permutations(Holds)
================================================================================
