--------------------------- MODULE MC_Containers ---------------------------
(* Instances of Containers for TLC.                                        *)
EXTENDS Containers, TLC

Symmetric == Permutations(Obj) \cup Permutations(Key) \cup Permutations(Value)
=============================================================================
