------------------------------- MODULE Null -------------------------------
(***************************************************************************)
(* The null pointer of the C code: no object, no string, no setting.       *)
(***************************************************************************)
CONSTANT NULL
=============================================================================
