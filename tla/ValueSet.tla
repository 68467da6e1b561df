------------------------------ MODULE ValueSet ------------------------------
(***************************************************************************)
(* What Set promises its caller: a set of values, and calls that answer as *)
(* sets do (ext/src/Set.yaml).  HashTable is shown to implement it.        *)
(***************************************************************************)
CONSTANTS Value, NoCall
VARIABLES elements, last   \* the values in it; the last call and its answer

Answer(op, v, r) == last' = [op |-> op, v |-> v, r |-> r]

Init == elements = {} /\ last = NoCall

\* "Adds a value to this set."  TRUE: the call went through.
Add(v) == elements' = elements \cup {v} /\ Answer("add", v, TRUE)

\* "Removes a value to this set."  Whether it was there.
Remove(v) == elements' = elements \ {v} /\ Answer("remove", v, v \in elements)

\* "Returns whether a value is in this set."
Has(v) == UNCHANGED elements /\ Answer("has", v, v \in elements)

Next == \E v \in Value : Add(v) \/ Remove(v) \/ Has(v)

Spec == Init /\ [][Next]_<<elements, last>>
=============================================================================
