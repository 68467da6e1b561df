--------------------------- MODULE MC_PagedRows ---------------------------
(* Instances of PagedRows for TLC.                                         *)
EXTENDS PagedRows, TLC

Objects == Permutations(RowsObj) \cup Permutations(FutObj)
=============================================================================
