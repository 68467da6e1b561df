------------------------ MODULE MC_PersistentCluster ------------------------
(* Instances of PersistentCluster for TLC.  c1 and c2 differ in a setting  *)
(* that is part of hash_key; c1 and hidden only in one that build leaves   *)
(* out: ssl_options, timestamp_gen or retry_policy.                        *)
EXTENDS PersistentCluster, TLC

CONSTANTS c1, c2, hidden

Settings3 == {c1, c2, hidden}

PrintedKey == [c \in Settings3 |-> IF c = hidden THEN c1 ELSE c]

Handles == Permutations(Handle) \cup Permutations(Obj)
=============================================================================
