----------------------- MODULE MC_PersistentSession -----------------------
(* Instances of PersistentSession for TLC: the sets of keys, sessions and  *)
(* objects are model values given in the .cfg files.  The runs check       *)
(* liveness, or stop at a violation, so there is no symmetry.              *)
EXTENDS PersistentSession, TLC
=============================================================================
