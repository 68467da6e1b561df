----------------------------- MODULE Containers -----------------------------
(***************************************************************************)
(* The objects a PHP program loops over: Set, Map, Collection, Tuple,      *)
(* UserTypeValue and Rows, with the operations that change them between    *)
(* two steps of a loop, and the comparison of two of them.                 *)
(*                                                                         *)
(* Set and Map keep a uthash table whose entries are also a linked list,   *)
(* and the iterator is two pointers into that list (iter_curr, iter_temp). *)
(* Collection and Rows keep a PHP array and use its internal pointer.      *)
(* Tuple and UserTypeValue keep a PHP array of the fields that were set,   *)
(* and a position in the fields of their type.                             *)
(*                                                                         *)
(* An entry is a number.  Every new entry of any of them goes to the end   *)
(* of its list or array, and numbers are given in that order, so that the  *)
(* order of a list or an array is the order of its numbers.                *)
(*                                                                         *)
(* A call that is refused (a null, a value of another type, an index or a  *)
(* name the type does not have) throws before it changes anything, so it   *)
(* is no step of the specification.                                        *)
(***************************************************************************)
EXTENDS Integers, FiniteSets, Sequences

CONSTANTS NULL,
          Kinds,      \* the classes looked at
          Obj,        \* PHP objects, all of one class
          Key,        \* elements of a Set, keys of a Map
          Value,      \* values of a Map, a Collection or a field
          NFields,    \* fields of the tuple or user type
          NRows,      \* rows of a page
          MaxEntries, \* bound: entries ever created
          MaxNext     \* bound: calls of next in one loop

AllKinds == {"set", "map", "collection", "tuple", "user_type_value", "rows"}
HashedKinds == {"set", "map"}
FieldKinds == {"tuple", "user_type_value"}

ASSUME KindsAssumption == Kinds \subseteq AllKinds
ASSUME BoundsAssumption == /\ NFields \in Nat /\ NRows \in Nat
                           /\ MaxEntries \in Nat /\ MaxNext \in Nat
ASSUME RowsFit == NRows <= MaxEntries
ASSUME NullIsNothing == NULL \notin Nat \cup Value

VARIABLES
  kind,       \* the class of the objects
  array,      \* the table or array of an object: its own, except for Rows
  entries,    \* the entries of a table or array
  key, val,   \* of an entry
  created,    \* entries created so far
  next_free,  \* index the next element of a Collection gets
  iter_curr, iter_temp,   \* Set and Map: entry the loop is at, and the next
  pos,        \* Collection, Rows: internal pointer; Tuple, UserTypeValue: field
  seen,       \* history: what the loop of an object was given since rewind
  lasting,    \* history: what has been there since the rewind of an object
  jumped      \* history: the element a Collection loop stood at was removed

table == <<entries, key, val, created, next_free>>
iter == <<iter_curr, iter_temp, pos>>
loop == <<seen, lasting, jumped>>
vars == <<kind, array, table, iter, loop>>

Entry == 1..MaxEntries

(* The smallest entry of a set of entries: the first in list order.        *)
Least(S) == IF S = {} THEN NULL ELSE CHOOSE i \in S : \A j \in S : i <= j

(* entry->hh.next.                                                         *)
Following(a, i) == Least({j \in entries[a] : j > i})

(* HASH_FIND_ZVAL, zend_hash_index_find, zend_hash_str_find.               *)
Find(a, k) == {i \in entries[a] : key[i] = k}

(* A page of rows is shared by the Rows objects made for it; everything    *)
(* else starts empty.  A position past the end stands for HT_INVALID_IDX.  *)
Init ==
  /\ kind \in Kinds
  /\ array \in IF kind = "rows" THEN [Obj -> Obj] ELSE {[o \in Obj |-> o]}
  /\ entries = [a \in Obj |-> IF kind = "rows" THEN 1..NRows ELSE {}]
  /\ created = IF kind = "rows" THEN NRows ELSE 0
  /\ key = [i \in Entry |-> NULL] /\ val = [i \in Entry |-> NULL]
  /\ next_free = [a \in Obj |-> 0]
  /\ iter_curr = [a \in Obj |-> NULL] /\ iter_temp = [a \in Obj |-> NULL]
  /\ pos = [a \in Obj |-> IF kind \in FieldKinds THEN NFields + 1 ELSE 1]
  /\ seen = [o \in Obj |-> <<>>]
  /\ lasting = [o \in Obj |-> {}]
  /\ jumped = [o \in Obj |-> FALSE]

-----------------------------------------------------------------------------
(* Changing a container.                                                   *)

(* A new entry at the end: HASH_ADD_ZVAL, zend_hash_index_update and       *)
(* zend_hash_str_update with a new key.                                    *)
NewEntry(a, k, v) ==
  /\ created < MaxEntries
  /\ created' = created + 1
  /\ entries' = [entries EXCEPT ![a] = @ \cup {created + 1}]
  /\ key' = [key EXCEPT ![created + 1] = k]
  /\ val' = [val EXCEPT ![created + 1] = v]

(* An element that is there already is not added again (the variant does   *)
(* not look for it).                                                       *)
SetAdd_NoFind(o, k) ==
  /\ kind = "set"
  /\ NewEntry(array[o], k, NULL)
  /\ UNCHANGED <<kind, array, next_free, iter, loop>>

SetAdd(o, k) ==
  /\ kind = "set"
  /\ Find(array[o], k) = {}
  /\ NewEntry(array[o], k, NULL)
  /\ UNCHANGED <<kind, array, next_free, iter, loop>>

MapSet(o, k, v) ==
  /\ kind = "map"
  /\ \/ /\ Find(array[o], k) = {}
        /\ NewEntry(array[o], k, v)
     \/ \E i \in Find(array[o], k) :
          /\ val' = [val EXCEPT ![i] = v]
          /\ UNCHANGED <<entries, key, created>>
  /\ UNCHANGED <<kind, array, next_free, iter, loop>>

(* HASH_DEL, with iter_temp moved on when it pointed to the entry.         *)
Unlink(a, i) ==
  /\ iter_temp' = [iter_temp EXCEPT ![a] = IF @ = i THEN Following(a, i) ELSE @]
  /\ entries' = [entries EXCEPT ![a] = @ \ {i}]

Forget(a, i) ==
  lasting' = [o \in Obj |-> IF array[o] = a THEN lasting[o] \ {i} ELSE lasting[o]]

SetRemove_KeepsTemp(o, k) ==
  /\ kind = "set"
  /\ \E i \in Find(array[o], k) :
       /\ entries' = [entries EXCEPT ![array[o]] = @ \ {i}]
       /\ Forget(array[o], i)
  /\ UNCHANGED <<kind, array, key, val, created, next_free, iter, seen, jumped>>

SetRemove(o, k) ==
  /\ kind = "set"
  /\ \E i \in Find(array[o], k) : Unlink(array[o], i) /\ Forget(array[o], i)
  /\ UNCHANGED <<kind, array, key, val, created, next_free, iter_curr, pos, seen, jumped>>

MapRemove(o, k) ==
  /\ kind = "map"
  /\ \E i \in Find(array[o], k) : Unlink(array[o], i) /\ Forget(array[o], i)
  /\ UNCHANGED <<kind, array, key, val, created, next_free, iter_curr, pos, seen, jumped>>

(* Collection::add appends all its arguments, after it has validated all.  *)
(* The variant numbers a new element with the count of the collection.     *)
CollectionAdd_Count(o, vs) ==
  LET a == array[o]
      n == Len(vs)
      new == created + 1 .. created + n
  IN /\ kind = "collection"
     /\ created + n <= MaxEntries
     /\ created' = created + n
     /\ entries' = [entries EXCEPT ![a] = @ \cup new]
     /\ key' = [i \in Entry |->
                  IF i \in new THEN Cardinality(entries[a]) + i - created - 1 ELSE key[i]]
     /\ val' = [i \in Entry |-> IF i \in new THEN vs[i - created] ELSE val[i]]
     /\ next_free' = [next_free EXCEPT ![a] = @ + n]
     /\ UNCHANGED <<kind, array, iter, loop>>

CollectionAdd(o, vs) ==
  LET a == array[o]
      n == Len(vs)
      new == created + 1 .. created + n
  IN /\ kind = "collection"
     /\ created + n <= MaxEntries
     /\ created' = created + n
     /\ entries' = [entries EXCEPT ![a] = @ \cup new]
     /\ key' = [i \in Entry |-> IF i \in new THEN next_free[a] + i - created - 1 ELSE key[i]]
     /\ val' = [i \in Entry |-> IF i \in new THEN vs[i - created] ELSE val[i]]
     /\ next_free' = [next_free EXCEPT ![a] = @ + n]
     /\ UNCHANGED <<kind, array, iter, loop>>

(* The element at the internal pointer: the first one not before it.       *)
ArrayCurrent(a) == Least({i \in entries[a] : i >= pos[a]})

CollectionRemove(o, n) ==
  LET a == array[o]
  IN /\ kind = "collection"
     /\ \E i \in Find(a, n) :
          /\ entries' = [entries EXCEPT ![a] = @ \ {i}]
          /\ Forget(a, i)
          /\ jumped' = [jumped EXCEPT ![o] = @ \/ i = ArrayCurrent(a)]
     /\ UNCHANGED <<kind, array, key, val, created, next_free, iter, seen>>

(* A field that was set before keeps its place in the array of values.     *)
SetField(o, f, v) ==
  /\ \/ /\ Find(array[o], f) = {}
        /\ NewEntry(array[o], f, v)
     \/ \E i \in Find(array[o], f) :
          /\ val' = [val EXCEPT ![i] = v]
          /\ UNCHANGED <<entries, key, created>>
  /\ UNCHANGED <<kind, array, next_free, iter, loop>>

TupleSet(o, f, v) == kind = "tuple" /\ SetField(o, f, v)
UserTypeValueSet(o, f, v) == kind = "user_type_value" /\ SetField(o, f, v)

-----------------------------------------------------------------------------
(* Looping.  A foreach calls rewind, then valid, current, key and, after   *)
(* its body, next, until valid is false.                                   *)

Rewound(o, all, first) ==
  /\ seen' = [seen EXCEPT ![o] = IF first = NULL THEN <<>> ELSE <<first>>]
  /\ lasting' = [lasting EXCEPT ![o] = all]
  /\ jumped' = [jumped EXCEPT ![o] = FALSE]

Moved(o, to) ==
  /\ Len(seen[o]) < MaxNext
  /\ seen' = [seen EXCEPT ![o] = IF to = NULL THEN @ ELSE Append(@, to)]
  /\ UNCHANGED <<lasting, jumped>>

(* rewind and next of Set and Map (iter_index, which only Set::key reads,  *)
(* counts the calls and is left out).  The variant forgets iter_temp.      *)
HashedRewind_KeepsTemp(o) ==
  LET a == array[o]
      first == Least(entries[a])
  IN /\ iter_curr' = [iter_curr EXCEPT ![a] = first]
     /\ Rewound(o, entries[a], first)
     /\ UNCHANGED <<kind, array, table, iter_temp, pos>>

HashedRewind(o) ==
  LET a == array[o]
      first == Least(entries[a])
  IN /\ iter_curr' = [iter_curr EXCEPT ![a] = first]
     /\ iter_temp' = [iter_temp EXCEPT ![a] =
                        IF first = NULL THEN NULL ELSE Following(a, first)]
     /\ Rewound(o, entries[a], first)
     /\ UNCHANGED <<kind, array, table, pos>>

HashedNext(o) ==
  LET a == array[o]
      temp == iter_temp[a]
  IN /\ iter_curr' = [iter_curr EXCEPT ![a] = temp]
     /\ iter_temp' = [iter_temp EXCEPT ![a] =
                        IF temp = NULL THEN NULL ELSE Following(a, temp)]
     /\ Moved(o, temp)
     /\ UNCHANGED <<kind, array, table, pos>>

SetRewind(o) == kind = "set" /\ HashedRewind(o)
SetNext(o) == kind = "set" /\ HashedNext(o)
MapRewind(o) == kind = "map" /\ HashedRewind(o)
MapNext(o) == kind = "map" /\ HashedNext(o)

(* zend_hash_move_forward: past the last element the pointer stops where   *)
(* the next element will go.  The variant moves without looking for the    *)
(* element it is at.                                                       *)
ArrayForward_Blind(a) == pos[a] + 1

ArrayForward(a) ==
  LET at == ArrayCurrent(a)
      to == Following(a, at)
  IN IF at = NULL THEN pos[a] ELSE IF to = NULL THEN created + 1 ELSE to

ArrayRewind(o) ==
  LET a == array[o]
      first == Least(entries[a])
  IN /\ pos' = [pos EXCEPT ![a] = IF first = NULL THEN created + 1 ELSE first]
     /\ Rewound(o, entries[a], first)
     /\ UNCHANGED <<kind, array, table, iter_curr, iter_temp>>

ArrayNext(o) ==
  LET a == array[o]
  IN /\ pos' = [pos EXCEPT ![a] = ArrayForward(a)]
     /\ Moved(o, Least({i \in entries[a] : i >= ArrayForward(a)}))
     /\ UNCHANGED <<kind, array, table, iter_curr, iter_temp>>

CollectionRewind(o) == kind = "collection" /\ ArrayRewind(o)
CollectionNext(o) == kind = "collection" /\ ArrayNext(o)
RowsRewind(o) == kind = "rows" /\ ArrayRewind(o)
RowsNext(o) == kind = "rows" /\ ArrayNext(o)

(* Tuple and UserTypeValue walk over the fields of the type.               *)
FieldAt(p) == IF p \in 1..NFields THEN p ELSE NULL

FieldsRewind(o) ==
  /\ pos' = [pos EXCEPT ![array[o]] = 1]
  /\ Rewound(o, 1..NFields, FieldAt(1))
  /\ UNCHANGED <<kind, array, table, iter_curr, iter_temp>>

FieldsNext(o) ==
  LET p == pos[array[o]]
      to == IF FieldAt(p) = NULL THEN p ELSE p + 1
  IN /\ pos' = [pos EXCEPT ![array[o]] = to]
     /\ Moved(o, FieldAt(to))
     /\ UNCHANGED <<kind, array, table, iter_curr, iter_temp>>

TupleRewind(o) == kind = "tuple" /\ FieldsRewind(o)
TupleNext(o) == kind = "tuple" /\ FieldsNext(o)
UserTypeValueRewind(o) == kind = "user_type_value" /\ FieldsRewind(o)
UserTypeValueNext(o) == kind = "user_type_value" /\ FieldsNext(o)

(* valid                                                                   *)
Valid(o) ==
  CASE kind \in HashedKinds -> iter_curr[array[o]] # NULL
    [] kind \in FieldKinds -> FieldAt(pos[array[o]]) # NULL
    [] OTHER -> ArrayCurrent(array[o]) # NULL

Change(o) ==
  \/ \E k \in Key : SetAdd(o, k) \/ SetRemove(o, k) \/ MapRemove(o, k)
  \/ \E k \in Key, v \in Value : MapSet(o, k, v)
  \/ \E v \in Value : CollectionAdd(o, <<v>>)
  \/ \E v, w \in Value : CollectionAdd(o, <<v, w>>)
  \/ \E n \in 0..MaxEntries : CollectionRemove(o, n)
  \/ \E f \in 1..NFields, v \in Value \cup {NULL} :
       TupleSet(o, f, v) \/ UserTypeValueSet(o, f, v)

Loop(o) ==
  \/ SetRewind(o) \/ SetNext(o)
  \/ MapRewind(o) \/ MapNext(o)
  \/ CollectionRewind(o) \/ CollectionNext(o)
  \/ TupleRewind(o) \/ TupleNext(o)
  \/ UserTypeValueRewind(o) \/ UserTypeValueNext(o)
  \/ RowsRewind(o) \/ RowsNext(o)

Next == \E o \in Obj : Change(o) \/ Loop(o)

Spec == Init /\ [][Next]_vars

-----------------------------------------------------------------------------
(* Comparison of two objects of one class and type (== in PHP): TRUE when  *)
(* the handler returns 0.  Set, Tuple and UserTypeValue install their own. *)

SetCompare(o, p) ==
  LET E(x) == entries[array[x]]
  IN /\ Cardinality(E(o)) = Cardinality(E(p))
     /\ \A i \in E(o) : Find(array[p], key[i]) # {}

Rank(a, i) == Cardinality({j \in entries[a] : j < i})

(* The values that were set, taken in the order they were first set in.    *)
FieldsCompare(o, p) ==
  LET E(x) == entries[array[x]]
  IN /\ Cardinality(E(o)) = Cardinality(E(p))
     /\ \A i \in E(o), j \in E(p) : Rank(array[o], i) = Rank(array[p], j) => val[i] = val[j]

(* Map and Collection have no compare handler in PHP 8; the standard one   *)
(* compares PHP properties, of which these objects have none.              *)
StandardCompare(o, p) == TRUE

Compare(o, p) ==
  CASE kind = "set" -> SetCompare(o, p)
    [] kind \in FieldKinds -> FieldsCompare(o, p)
    [] kind \in {"map", "collection"} -> StandardCompare(o, p)
    [] kind = "rows" -> o = p

(* What an object holds, as values() and, for a Map, keys() return it.     *)
Contents(o) ==
  LET E == entries[array[o]]
  IN CASE kind = "set" -> {<<key[i]>> : i \in E}
       [] kind = "map" -> {<<key[i], val[i]>> : i \in E}
       [] kind = "collection" -> {<<Rank(array[o], i), val[i]>> : i \in E}
       [] kind \in FieldKinds -> {<<key[i], val[i]>> : i \in {j \in E : val[j] # NULL}}
       [] kind = "rows" -> E

-----------------------------------------------------------------------------
Alone(o) == \A p \in Obj \ {o} : array[p] # array[o]

(* The entry a Set or Map loop goes to next (iter_temp) is in the table:   *)
(* next never follows an entry that remove has freed, whatever is added    *)
(* and removed in the body of the loop.                                    *)
NextEntryLive ==
  \A a \in Obj : iter_temp[a] # NULL => iter_temp[a] \in entries[a]

(* A loop that has ended was given everything that was there from its      *)
(* rewind to its end, although elements were added and removed meanwhile.  *)
(* (Except that a Collection loop passes over the element after one that   *)
(* is removed while the loop stands at it, and that two Rows objects of    *)
(* one page move each other's loop.)                                       *)
LoopComplete ==
  \A o \in Obj :
    ~Valid(o) /\ Alone(o) /\ ~jumped[o] =>
      \A x \in lasting[o] : \E n \in 1..Len(seen[o]) : seen[o][n] = x

(* A loop is given nothing twice, and everything in the order it was added *)
(* in; the fields of a tuple or user type in the order of the type,        *)
(* whatever order they were set in.                                        *)
LoopOrder ==
  \A o \in Obj : Alone(o) =>
    \A n \in 1..Len(seen[o]) - 1 : seen[o][n] < seen[o][n + 1]

FieldsSetInOrder(o) ==
  \A i, j \in entries[array[o]] : i < j => key[i] < key[j]

FieldsSet(o) == {key[i] : i \in entries[array[o]]}

(* Two sets compare equal exactly when they hold the same elements, after  *)
(* any sequence of add and remove on either (php_driver_set_compare looks  *)
(* at the counts and in one direction only).  Two tuples or user type      *)
(* values compare equal exactly when their fields do, if the same fields   *)
(* were set, in the order of the type; values set in another order are     *)
(* compared with the wrong fields.                                         *)
EqualExact ==
  \A o, p \in Obj :
    \/ kind = "set"
    \/ /\ kind \in FieldKinds /\ FieldsSet(o) = FieldsSet(p)
       /\ FieldsSetInOrder(o) /\ FieldsSetInOrder(p)
    => (Compare(o, p) <=> Contents(o) = Contents(p))

(* An index of a Collection names one element for ever: after remove, the  *)
(* element added next does not get an index that was in use.               *)
IndexesFresh ==
  kind = "collection" =>
    \A a \in Obj : \A i \in entries[a] :
      key[i] < next_free[a] /\ (\A j \in entries[a] : j < i => key[j] < key[i])

=============================================================================
