----------------------------- MODULE MC_Schema -----------------------------
(* Instances of Schema for TLC: one keyspace, whose table and view change  *)
(* between two versions; column c2 has a validator that cannot be read.    *)
EXTENDS Schema

Tab(partition, clustering, views) ==
  [columns |-> partition \o clustering, partition |-> partition,
   clustering |-> clustering, indexes |-> {"i"}, views |-> views, base |-> "t"]

Versions == <<
    [keyspaces |-> {"ks"},
     table |-> [t |-> Tab(<<"p">>, <<"c1">>, {"w"})],
     view |-> [w |-> Tab(<<"p">>, <<>>, {})],
     function |-> {"f"}, aggregate |-> [g |-> [state |-> "f", final |-> NULL]]],
    [keyspaces |-> {"ks"},
     table |-> [t |-> Tab(<<"p">>, <<"c2">>, {})],
     view |-> <<>>,
     function |-> {"f"}, aggregate |-> [g |-> [state |-> "f", final |-> "f"]]]>>

(* Up to MaxObjects objects where only the keys of one table or view are   *)
(* asked for, before the schema changes; up to SmallHeap of any classes,   *)
(* one less when two snapshots are of the same version.                    *)
SmallHeap == 4
Bounded ==
  \/ Cardinality(Allocated) < SmallHeap
  \/ Cardinality(Allocated) = SmallHeap /\ version[1] # version[2]
  \/ /\ server = 1 /\ version[2] = 0
     /\ Cardinality({o \in Allocated : obj[o].class # "column"}) <= 2

(* No action and no invariant reads the last answer.                       *)
WithoutAnswer == <<server, version, heap, obj, held, leaked>>
=============================================================================
