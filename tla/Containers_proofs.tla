-------------------------- MODULE Containers_proofs --------------------------
(***************************************************************************)
(* What holds of the containers for any number of objects, keys, values,   *)
(* fields, rows, entries and calls: a loop over a Set or a Map never       *)
(* follows a freed entry; every loop is given what it should be given, in  *)
(* order; indexes of a Collection are not reused; and comparison tells     *)
(* sets, tuples and user type values apart.                                *)
(***************************************************************************)
EXTENDS Containers, FiniteSetTheorems, TLAPS

(* A set of natural numbers that is not empty has a least element.         *)
LEMMA LeastIn ==
  ASSUME NEW S \in SUBSET Nat, S # {}
  PROVE  Least(S) \in S /\ \A y \in S : Least(S) <= y
<1> DEFINE R == {ss \in Nat \X Nat : ss[1] < ss[2]}
<1>1. PICK x \in S : \A y \in S : ~(<<y, x>> \in R)
  <2>1. IsWellFoundedOn(R, Nat)
    BY NatLessThanWellFounded DEF OpToRel
  <2> HIDE DEF R
  <2> QED
    BY <2>1, WFMin
<1>2. \A y \in S : x <= y
  <2> SUFFICES ASSUME NEW y \in S PROVE ~(y < x)
    OBVIOUS
  <2>1. <<y, x>> \in Nat \X Nat /\ <<y, x>>[1] = y /\ <<y, x>>[2] = x
    OBVIOUS
  <2>2. y < x => <<y, x>> \in R
    BY <2>1
  <2> QED
    BY <1>1, <2>2
<1> QED
  BY <1>2 DEF Least

(* Following is NULL or a later entry of the same list.                    *)
LEMMA FollowingIn ==
  ASSUME NEW a, NEW i, entries[a] \in SUBSET Nat
  PROVE  Following(a, i) # NULL =>
           Following(a, i) \in entries[a] /\ Following(a, i) > i
<1> DEFINE S == {j \in entries[a] : j > i}
<1>1. S \in SUBSET Nat
  OBVIOUS
<1>2. CASE S = {}
  BY <1>2 DEF Following, Least
<1>3. CASE S # {}
  <2>1. Least(S) \in S
    BY <1>1, <1>3, LeastIn
  <2> QED
    BY <2>1 DEF Following
<1> QED
  BY <1>2, <1>3

(* The inductive strengthening: an object has a table, entries are         *)
(* numbers, and a class without iter_temp never sets it.                   *)
TempInv ==
  /\ array \in [Obj -> Obj]
  /\ created \in Nat
  /\ entries \in [Obj -> SUBSET Nat]
  /\ iter_temp \in [Obj -> Nat \cup {NULL}]
  /\ kind \notin HashedKinds => iter_temp = [a \in Obj |-> NULL]
  /\ NextEntryLive

(* The facts the proof adds hold when no object exists. *)
LEMMA TempInit == Init => TempInv
<1> SUFFICES ASSUME Init PROVE TempInv
  OBVIOUS
<1>1. array \in [Obj -> Obj]
  BY DEF Init
<1>2. created \in Nat
  BY BoundsAssumption DEF Init
<1>3. entries \in [Obj -> SUBSET Nat]
  BY BoundsAssumption DEF Init
<1> QED
  BY <1>1, <1>2, <1>3 DEF Init, TempInv, NextEntryLive

(* A step that creates an entry, or creates none, and leaves iter_temp     *)
(* alone keeps the invariant.                                              *)
LEMMA GrowthKeeps ==
  ASSUME TempInv, UNCHANGED <<kind, array, iter_temp>>,
         created' \in Nat, entries' \in [Obj -> SUBSET Nat],
         \A a \in Obj : entries[a] \subseteq entries'[a]
  PROVE  TempInv'
BY DEF TempInv, NextEntryLive

(* Appending a new entry keeps every iter_temp live. *)
LEMMA NewEntryKeeps ==
  ASSUME TempInv, UNCHANGED <<kind, array, iter_temp>>,
         NEW o \in Obj, NEW k, NEW v, NewEntry(array[o], k, v)
  PROVE  TempInv'
<1>1. created' \in Nat /\ created + 1 \in Nat
  BY DEF TempInv, NewEntry
<1>2. entries' \in [Obj -> SUBSET Nat] /\ \A a \in Obj : entries[a] \subseteq entries'[a]
  BY <1>1 DEF TempInv, NewEntry
<1> QED
  BY <1>1, <1>2, GrowthKeeps

(* Removing an entry keeps the invariant when iter_temp moves past it.     *)
LEMMA UnlinkKeeps ==
  ASSUME TempInv, UNCHANGED <<kind, array, created>>, kind \in HashedKinds,
         NEW a \in Obj, NEW i \in entries[a], Unlink(a, i)
  PROVE  TempInv'
<1>1. entries[a] \in SUBSET Nat /\ i \in Nat
  BY DEF TempInv
<1>2. Following(a, i) # NULL => Following(a, i) \in entries[a] /\ Following(a, i) # i
  BY <1>1, FollowingIn
<1>3. entries' \in [Obj -> SUBSET Nat] /\ iter_temp' \in [Obj -> Nat \cup {NULL}]
  BY <1>1, <1>2 DEF TempInv, Unlink
<1>4. NextEntryLive'
  <2> SUFFICES ASSUME NEW b \in Obj, iter_temp'[b] # NULL
               PROVE  iter_temp'[b] \in entries'[b]
    BY DEF NextEntryLive
  <2>1. CASE b # a
    BY <2>1 DEF TempInv, NextEntryLive, Unlink
  <2>2. CASE b = a /\ iter_temp[a] = i
    BY <2>2, <1>2 DEF TempInv, Unlink
  <2>3. CASE b = a /\ iter_temp[a] # i
    BY <2>3 DEF TempInv, NextEntryLive, Unlink
  <2> QED
    BY <2>1, <2>2, <2>3
<1> QED
  BY <1>3, <1>4 DEF TempInv

(* The moves of a Set or Map loop.                                         *)
LEMMA HashedLoopKeeps ==
  ASSUME TempInv, kind \in HashedKinds, NEW o \in Obj,
         HashedRewind(o) \/ HashedNext(o)
  PROVE  TempInv'
<1> DEFINE a == array[o]
           at == IF HashedRewind(o) THEN Least(entries[a]) ELSE iter_temp[a]
           temp == IF at = NULL THEN NULL ELSE Following(a, at)
<1>1. a \in Obj /\ entries[a] \in SUBSET Nat
  BY DEF TempInv
<1>2. temp # NULL => temp \in entries[a]
  BY <1>1, FollowingIn
<1>3. iter_temp' = [iter_temp EXCEPT ![a] = temp] /\ UNCHANGED <<kind, array, table>>
  BY DEF HashedRewind, HashedNext
<1> HIDE DEF temp, at
<1>4. iter_temp' \in [Obj -> Nat \cup {NULL}]
  BY <1>1, <1>2, <1>3 DEF TempInv
<1>5. NextEntryLive'
  BY <1>1, <1>2, <1>3 DEF TempInv, NextEntryLive, table
<1> QED
  BY <1>3, <1>4, <1>5 DEF TempInv, table

(* Every step of the specification keeps the invariant.                    *)
LEMMA TempStep == TempInv /\ [Next]_vars => TempInv'
<1> SUFFICES ASSUME TempInv, [Next]_vars PROVE TempInv'
  OBVIOUS
<1>1. CASE UNCHANGED vars
  BY <1>1 DEF vars, table, iter, TempInv, NextEntryLive
<1>2. ASSUME NEW o \in Obj, Change(o)
      PROVE  TempInv'
  <2>0. array[o] \in Obj
    BY DEF TempInv
  <2>1. ASSUME NEW k \in Key, SetAdd(o, k) PROVE TempInv'
    BY <2>1, NewEntryKeeps DEF SetAdd, iter
  <2>2. ASSUME NEW k \in Key, SetRemove(o, k) \/ MapRemove(o, k) PROVE TempInv'
    <3>1. PICK i \in entries[array[o]] : Unlink(array[o], i)
      BY <2>2 DEF SetRemove, MapRemove, Find
    <3>2. UNCHANGED <<kind, array, created>> /\ kind \in HashedKinds
      BY <2>2 DEF SetRemove, MapRemove, HashedKinds
    <3> QED
      BY <2>0, <3>1, <3>2, UnlinkKeeps
  <2>3. ASSUME NEW k \in Key, NEW v \in Value, MapSet(o, k, v) PROVE TempInv'
    <3>1. UNCHANGED <<kind, array, iter_temp>>
      BY <2>3 DEF MapSet, iter
    <3>2. NewEntry(array[o], k, v) \/ UNCHANGED <<entries, created>>
      BY <2>3 DEF MapSet
    <3>3. CASE UNCHANGED <<entries, created>>
      BY <3>1, <3>3 DEF TempInv, NextEntryLive
    <3> QED
      BY <3>1, <3>2, <3>3, NewEntryKeeps
  <2>4. ASSUME NEW vs, Len(vs) \in Nat, CollectionAdd(o, vs) PROVE TempInv'
    <3>1. created' \in Nat
      BY <2>4 DEF TempInv, CollectionAdd
    <3>2. (created + 1 .. created + Len(vs)) \in SUBSET Nat
      BY <2>4 DEF TempInv
    <3>3. entries' \in [Obj -> SUBSET Nat] /\ \A a \in Obj : entries[a] \subseteq entries'[a]
      BY <2>0, <2>4, <3>2 DEF TempInv, CollectionAdd
    <3> QED
      BY <2>4, <3>1, <3>3, GrowthKeeps DEF CollectionAdd, iter
  <2>5. ASSUME NEW n, CollectionRemove(o, n) PROVE TempInv'
    <3>1. iter_temp = [a \in Obj |-> NULL] /\ UNCHANGED <<kind, array, created, iter_temp>>
      BY <2>5 DEF TempInv, CollectionRemove, HashedKinds, iter
    <3>2. entries' \in [Obj -> SUBSET Nat]
      BY <2>5 DEF TempInv, CollectionRemove
    <3> QED
      BY <3>1, <3>2 DEF TempInv, NextEntryLive
  <2>6. ASSUME NEW f, NEW v, SetField(o, f, v) PROVE TempInv'
    <3>1. UNCHANGED <<kind, array, iter_temp>>
      BY <2>6 DEF SetField, iter
    <3>2. NewEntry(array[o], f, v) \/ UNCHANGED <<entries, created>>
      BY <2>6 DEF SetField
    <3>3. CASE UNCHANGED <<entries, created>>
      BY <3>1, <3>3 DEF TempInv, NextEntryLive
    <3> QED
      BY <3>1, <3>2, <3>3, NewEntryKeeps
  <2>7. \A v, w : Len(<<v>>) \in Nat /\ Len(<<v, w>>) \in Nat
    OBVIOUS
  <2> QED
    BY <1>2, <2>1, <2>2, <2>3, <2>4, <2>5, <2>6, <2>7
    DEF Change, TupleSet, UserTypeValueSet
<1>3. ASSUME NEW o \in Obj, Loop(o)
      PROVE  TempInv'
  <2>1. CASE SetRewind(o) \/ SetNext(o) \/ MapRewind(o) \/ MapNext(o)
    BY <2>1, HashedLoopKeeps
    DEF SetRewind, SetNext, MapRewind, MapNext, HashedKinds
  <2>2. CASE ArrayRewind(o) \/ ArrayNext(o) \/ FieldsRewind(o) \/ FieldsNext(o)
    BY <2>2 DEF ArrayRewind, ArrayNext, FieldsRewind, FieldsNext, table,
                TempInv, NextEntryLive
  <2> QED
    BY <1>3, <2>1, <2>2
    DEF Loop, CollectionRewind, CollectionNext, TupleRewind, TupleNext,
        UserTypeValueRewind, UserTypeValueNext, RowsRewind, RowsNext
<1> QED
  BY <1>1, <1>2, <1>3 DEF Next

(* iter_temp of a Set or Map is NULL or an entry of its table, in every    *)
(* state that add, set, remove, rewind and next can reach.                 *)
THEOREM NextEntryAlwaysLive == Spec => []NextEntryLive
<1>1. TempInv => NextEntryLive
  BY DEF TempInv
<1> QED
  BY <1>1, TempInit, TempStep, PTL DEF Spec
-----------------------------------------------------------------------------
(* The invariant of the loops.  What the variables hold:                   *)
BaseInv ==
  /\ kind \in AllKinds
  /\ array \in [Obj -> Obj]
  /\ kind # "rows" => \A o \in Obj : array[o] = o
  /\ created \in 0..MaxEntries
  /\ entries \in [Obj -> SUBSET (1..created)]
  /\ key \in [Entry -> Key \cup Nat \cup {NULL}]
  /\ val \in [Entry -> Value \cup {NULL}]
  /\ next_free \in [Obj -> Nat]
  /\ iter_curr \in [Obj -> Nat \cup {NULL}]
  /\ iter_temp \in [Obj -> Nat \cup {NULL}]
  /\ pos \in [Obj -> Nat]
  /\ seen \in [Obj -> Seq(Nat)]
  /\ lasting \in [Obj -> SUBSET Nat]
  /\ jumped \in [Obj -> BOOLEAN]

(* What the entries of a table are called: an element once, by add; a      *)
(* field by its place in the type; an element of a collection by an index. *)
KeysOK ==
  \A a \in Obj :
    /\ kind = "set" => \A i, j \in entries[a] : key[i] = key[j] => i = j
    /\ kind \in FieldKinds => \A i \in entries[a] : key[i] \in 1..NFields
    /\ kind = "collection" => \A i \in entries[a] : key[i] \in Nat

(* The loop of object o was given s, in order, all of it before b.         *)
Increasing(s) == \A n \in 1..Len(s) - 1 : s[n] < s[n + 1]
Given(s, x) == \E n \in 1..Len(s) : s[n] = x
UpTo(s, b) == \A n \in 1..Len(s) : s[n] <= b
Before(s, b) == \A n \in 1..Len(s) : s[n] < b

(* A Set or Map loop goes on at iter_temp; what is left is from there on.  *)
HashedLoop(o) ==
  /\ Increasing(seen[o])
  /\ iter_curr[o] = NULL => iter_temp[o] = NULL
  /\ iter_temp[o] # NULL => Before(seen[o], iter_temp[o]) /\ iter_temp[o] \in entries[o]
  /\ lasting[o] \subseteq entries[o]
  /\ \A x \in lasting[o] :
       Given(seen[o], x) \/ (iter_temp[o] # NULL /\ x >= iter_temp[o])

(* A loop over an array stands at pos, unless that element was removed;    *)
(* what is left comes after it.                                            *)
ArrayLoop(o) ==
  LET a == array[o] IN
  /\ Increasing(seen[o])
  /\ UpTo(seen[o], pos[a])
  /\ lasting[o] \subseteq entries[a]
  /\ ~jumped[o] => \A x \in lasting[o] :
       Given(seen[o], x) \/ (x > pos[a] /\ pos[a] \in entries[a])

(* A loop over the fields of a type stands at a field, or past the last.   *)
FieldsLoop(o) ==
  /\ Increasing(seen[o])
  /\ UpTo(seen[o], pos[o])
  /\ pos[o] \in 1..NFields + 1
  /\ lasting[o] \subseteq 1..NFields
  /\ \A x \in lasting[o] : Given(seen[o], x) \/ x > pos[o]

LoopInv ==
  \A o \in Obj :
    /\ kind \in HashedKinds => HashedLoop(o)
    /\ kind \in {"collection", "rows"} /\ Alone(o) => ArrayLoop(o)
    /\ kind \in FieldKinds => FieldsLoop(o)

CInv == BaseInv /\ KeysOK /\ IndexesFresh /\ LoopInv

(* What Least and Following return.                                        *)
LEMMA LeastIs ==
  ASSUME NEW S \in SUBSET Nat
  PROVE  /\ Least(S) = NULL <=> S = {}
         /\ Least(S) # NULL => Least(S) \in S /\ \A y \in S : Least(S) <= y
<1>1. CASE S = {}
  BY <1>1 DEF Least
<1>2. CASE S # {}
  BY <1>2, LeastIn, NullIsNothing
<1> QED
  BY <1>1, <1>2

(* entry->hh.next: the first later entry, or NULL behind the last.         *)
LEMMA FollowingIs ==
  ASSUME NEW a, entries[a] \in SUBSET Nat, NEW i \in Nat
  PROVE  /\ Following(a, i) = NULL => \A j \in entries[a] : j <= i
         /\ Following(a, i) # NULL =>
              /\ Following(a, i) \in entries[a] /\ Following(a, i) > i
              /\ \A j \in entries[a] : j > i => Following(a, i) <= j
<1> DEFINE S == {j \in entries[a] : j > i}
<1>1. S \in SUBSET Nat
  OBVIOUS
<1>2. Following(a, i) = Least(S)
  BY DEF Following
<1> QED
  BY <1>1, <1>2, LeastIs

(* What a loop was given when next gives it one thing more ...             *)
LEMMA AppendGiven ==
  ASSUME NEW s \in Seq(Nat), NEW t \in Nat, Increasing(s), Before(s, t)
  PROVE  /\ Append(s, t) \in Seq(Nat) /\ Increasing(Append(s, t))
         /\ Given(Append(s, t), t) /\ UpTo(Append(s, t), t)
         /\ \A x : Given(s, x) => Given(Append(s, t), x)
         /\ \A b \in Nat : t < b => Before(Append(s, t), b)
<1> DEFINE r == Append(s, t)
<1>1. /\ r \in Seq(Nat) /\ Len(r) = Len(s) + 1 /\ Len(s) \in Nat
      /\ \A n \in 1..Len(s) : r[n] = s[n] /\ s[n] \in Nat
      /\ r[Len(s) + 1] = t
  OBVIOUS
<1> HIDE DEF r
<1>2. Increasing(r)
  <2> SUFFICES ASSUME NEW n \in 1..Len(r) - 1 PROVE r[n] < r[n + 1]
    BY DEF Increasing
  <2>1. CASE n = Len(s)
    BY <1>1, <2>1 DEF Before
  <2>2. CASE n # Len(s)
    <3>1. n \in 1..Len(s) - 1 /\ n + 1 \in 1..Len(s) /\ n \in 1..Len(s)
      BY <1>1, <2>2
    <3> QED
      BY <1>1, <3>1 DEF Increasing
  <2> QED
    BY <2>1, <2>2
<1>3. \A n \in 1..Len(r) : r[n] <= t
  <2> SUFFICES ASSUME NEW n \in 1..Len(r) PROVE r[n] <= t
    OBVIOUS
  <2>1. CASE n = Len(s) + 1
    BY <1>1, <2>1
  <2>2. CASE n \in 1..Len(s)
    BY <1>1, <2>2 DEF Before
  <2> QED
    BY <1>1, <2>1, <2>2
<1>4. Given(r, t)
  <2>1. Len(r) \in 1..Len(r) /\ r[Len(r)] = t
    BY <1>1
  <2> QED
    BY <2>1 DEF Given
<1>5. \A x : Given(s, x) => Given(r, x)
  <2> SUFFICES ASSUME NEW x, NEW n \in 1..Len(s), s[n] = x PROVE Given(r, x)
    BY DEF Given
  <2>1. n \in 1..Len(r) /\ r[n] = x
    BY <1>1
  <2> QED
    BY <2>1 DEF Given
<1>6. \A b \in Nat : t < b => Before(r, b)
  <2> SUFFICES ASSUME NEW b \in Nat, t < b, NEW n \in 1..Len(r) PROVE r[n] < b
    BY DEF Before
  <2>1. r[n] <= t /\ r[n] \in Nat
    BY <1>1, <1>3
  <2> QED
    BY <2>1
<1> QED
  BY <1>1, <1>2, <1>3, <1>4, <1>5, <1>6 DEF UpTo, r

(* ... and when rewind gives it the first.                                 *)
LEMMA FirstGiven ==
  ASSUME NEW t \in Nat
  PROVE  /\ <<t>> \in Seq(Nat) /\ Increasing(<<t>>)
         /\ Given(<<t>>, t) /\ UpTo(<<t>>, t)
         /\ \A b \in Nat : t < b => Before(<<t>>, b)
<1> DEFINE r == <<t>>
<1>1. r \in Seq(Nat) /\ Len(r) = 1 /\ r[1] = t
  OBVIOUS
<1>2. \A n \in 1..Len(r) : n = 1
  BY <1>1
<1>3. \A n \in 1..Len(r) - 1 : FALSE
  BY <1>1
<1> HIDE DEF r
<1>4. Given(r, t)
  <2>1. 1 \in 1..Len(r)
    BY <1>1
  <2> QED
    BY <1>1, <2>1 DEF Given
<1>5. Increasing(r) /\ UpTo(r, t) /\ \A b \in Nat : t < b => Before(r, b)
  BY <1>1, <1>2, <1>3 DEF Increasing, UpTo, Before
<1> QED
  BY <1>1, <1>4, <1>5 DEF r

(* A loop over nothing was given nothing.                                  *)
LEMMA NothingGiven ==
  /\ <<>> \in Seq(Nat) /\ Increasing(<<>>)
  /\ \A b : UpTo(<<>>, b) /\ Before(<<>>, b)
<1>1. <<>> \in Seq(Nat) /\ Len(<<>>) = 0
  OBVIOUS
<1>2. (\A n \in 1..0 : FALSE) /\ (\A n \in 1..0 - 1 : FALSE)
  OBVIOUS
<1> QED
  BY <1>1, <1>2 DEF Increasing, UpTo, Before

(* The numbers of entries and positions are natural numbers.               *)
LEMMA BaseFacts ==
  ASSUME BaseInv
  PROVE  /\ created \in Nat /\ MaxEntries \in Nat /\ created <= MaxEntries
         /\ NULL \notin Nat
         /\ \A a \in Obj : /\ entries[a] \in SUBSET Nat
                           /\ \A i \in entries[a] : i \in Nat /\ 1 <= i /\ i <= created
                                                    /\ i \in Entry
         /\ \A o \in Obj : array[o] \in Obj
         /\ \A a \in Obj : pos[a] \in Nat /\ seen[a] \in Seq(Nat)
<1>1. created \in Nat /\ MaxEntries \in Nat /\ created <= MaxEntries /\ NULL \notin Nat
  BY BoundsAssumption, NullIsNothing DEF BaseInv
<1>2. \A a \in Obj : entries[a] \subseteq 1..created
  BY DEF BaseInv
<1>3. 1..created \subseteq Nat /\ 1..created \subseteq Entry
  BY <1>1 DEF Entry
<1> QED
  BY <1>1, <1>2, <1>3 DEF BaseInv

-----------------------------------------------------------------------------
(* A step that gives the loop of object o nothing and takes none of the    *)
(* entries of its table away.                                              *)
LoopKept(o) ==
  LET a == array[o] IN
  /\ array'[o] = a /\ seen'[o] = seen[o] /\ lasting'[o] = lasting[o]
  /\ jumped'[o] = jumped[o]
  /\ iter_curr'[a] = iter_curr[a] /\ iter_temp'[a] = iter_temp[a] /\ pos'[a] = pos[a]
  /\ entries[a] \subseteq entries'[a]

(* Such a step leaves what is known of that loop true.                     *)
LEMMA LoopFrame ==
  ASSUME BaseInv, NEW o \in Obj, LoopKept(o)
  PROVE  /\ kind # "rows" /\ HashedLoop(o) => HashedLoop(o)'
         /\ ArrayLoop(o) => ArrayLoop(o)'
         /\ kind # "rows" /\ FieldsLoop(o) => FieldsLoop(o)'
<1>1. ArrayLoop(o) => ArrayLoop(o)'
  BY DEF LoopKept, ArrayLoop
<1>2. CASE kind # "rows"
  <2>1. array[o] = o
    BY <1>2 DEF BaseInv
  <2> QED
    BY <1>1, <2>1 DEF LoopKept, HashedLoop, FieldsLoop
<1> QED
  BY <1>1, <1>2

(* The classes of the objects exclude one another.                         *)
LEMMA KindsApart ==
  /\ \A k \in HashedKinds : k \notin FieldKinds /\ k # "rows" /\ k # "collection"
  /\ \A k \in FieldKinds : k \notin HashedKinds /\ k # "rows" /\ k # "collection" /\ k # "set"
  /\ "set" \in HashedKinds /\ "map" \in HashedKinds /\ "set" \notin FieldKinds
  /\ "tuple" \in FieldKinds /\ "user_type_value" \in FieldKinds
  /\ "collection" \notin HashedKinds /\ "rows" \notin HashedKinds
  /\ "collection" \notin FieldKinds /\ "rows" \notin FieldKinds
BY DEF HashedKinds, FieldKinds

(* A step that is none to any loop leaves the invariant of the loops true. *)
LEMMA GrowthLoop ==
  ASSUME BaseInv, LoopInv, kind' = kind, array' = array, \A o \in Obj : LoopKept(o)
  PROVE  LoopInv'
<1> SUFFICES ASSUME NEW o \in Obj
             PROVE  /\ kind \in HashedKinds => HashedLoop(o)'
                    /\ kind \in {"collection", "rows"} /\ Alone(o)' => ArrayLoop(o)'
                    /\ kind \in FieldKinds => FieldsLoop(o)'
  BY DEF LoopInv
<1>1. Alone(o)' => Alone(o)
  BY DEF Alone
<1> QED
  BY <1>1, LoopFrame, KindsApart DEF LoopInv

(* A new element, key or field.                                            *)
LEMMA NewEntryC ==
  ASSUME CInv, NEW o \in Obj, NEW k \in Key \cup Nat \cup {NULL}, NEW v \in Value \cup {NULL},
         NewEntry(array[o], k, v), UNCHANGED <<kind, array, next_free, iter, loop>>,
         kind \notin {"collection", "rows"},
         kind = "set" => Find(array[o], k) = {},
         kind \in FieldKinds => k \in 1..NFields
  PROVE  CInv'
<1> DEFINE a == array[o]
           e == created + 1
<1>0. BaseInv /\ KeysOK /\ LoopInv
  BY DEF CInv
<1>1. /\ created \in Nat /\ MaxEntries \in Nat /\ created <= MaxEntries /\ a \in Obj
      /\ \A b \in Obj : \A i \in entries[b] : i \in Nat /\ 1 <= i /\ i <= created /\ i \in Entry
  BY <1>0, BaseFacts
<1>2. /\ created < MaxEntries /\ created' = e
      /\ entries' = [entries EXCEPT ![a] = @ \cup {e}]
      /\ key' = [key EXCEPT ![e] = k]
      /\ val' = [val EXCEPT ![e] = v]
      /\ UNCHANGED <<kind, array, next_free, iter_curr, iter_temp, pos, seen, lasting, jumped>>
  BY DEF NewEntry, iter, loop
<1>3. e \in Nat /\ e \in Entry /\ e \in 1..e /\ 1..created \subseteq 1..e /\ e \in 0..MaxEntries
  BY <1>1, <1>2 DEF Entry
<1>4. \A b \in Obj : /\ \A i \in entries'[b] : i \in entries[b] \/ (b = a /\ i = e)
                     /\ entries[b] \subseteq entries'[b] /\ entries'[b] \subseteq 1..created'
  <2>1. \A b \in Obj : /\ b = a => entries'[b] = entries[b] \cup {e}
                       /\ b # a => entries'[b] = entries[b]
                       /\ entries[b] \subseteq 1..created
    BY <1>0, <1>1, <1>2 DEF BaseInv
  <2> QED
    BY <1>2, <1>3, <2>1
<1>5. BaseInv'
  <2>1. entries' \in [Obj -> SUBSET (1..created')]
    <3>1. DOMAIN entries' = Obj /\ entries' = [b \in Obj |-> entries'[b]]
      BY <1>0, <1>2 DEF BaseInv
    <3> QED
      BY <1>4, <3>1
  <2>2. key' \in [Entry -> Key \cup Nat \cup {NULL}] /\ val' \in [Entry -> Value \cup {NULL}]
    BY <1>0, <1>2 DEF BaseInv
  <2>3. created' \in 0..MaxEntries
    BY <1>2, <1>3
  <2> QED
    BY <1>0, <1>2, <2>1, <2>2, <2>3 DEF BaseInv
<1>6. /\ key'[e] = k
      /\ \A b \in Obj : \A i \in entries[b] : key'[i] = key[i] /\ i # e
  BY <1>0, <1>1, <1>2, <1>3 DEF BaseInv
<1>7. KeysOK'
  <2>1. ASSUME NEW b \in Obj, kind = "set", NEW i \in entries'[b], NEW j \in entries'[b],
               key'[i] = key'[j]
        PROVE  i = j
    <3>1. CASE i # e /\ j # e
      BY <1>0, <1>4, <1>6, <2>1, <3>1 DEF KeysOK
    <3>2. CASE i = e \/ j = e
      BY <1>0, <1>4, <1>6, <2>1, <3>2 DEF Find
    <3> QED
      BY <3>1, <3>2
  <2>2. ASSUME NEW b \in Obj, kind \in FieldKinds, NEW i \in entries'[b]
        PROVE  key'[i] \in 1..NFields
    BY <1>0, <1>4, <1>6, <2>2 DEF KeysOK
  <2> QED
    BY <1>2, <2>1, <2>2 DEF KeysOK
<1>8. IndexesFresh'
  BY <1>2 DEF IndexesFresh
<1>9. LoopInv'
  <2>1. \A p \in Obj : array[p] \in Obj
    BY <1>0, BaseFacts
  <2>2. \A p \in Obj : LoopKept(p)
    BY <1>2, <1>4, <2>1 DEF LoopKept
  <2> QED
    BY <1>0, <1>2, <2>2, GrowthLoop
<1> QED
  BY <1>5, <1>7, <1>8, <1>9 DEF CInv

(* A value is replaced in its entry, or nothing happens.                   *)
LEMMA ValueC ==
  ASSUME CInv, val' \in [Entry -> Value \cup {NULL}],
         UNCHANGED <<kind, array, entries, key, created, next_free, iter, loop>>
  PROVE  CInv'
<1>1. UNCHANGED <<iter_curr, iter_temp, pos, seen, lasting, jumped>>
  BY DEF iter, loop
<1>2. BaseInv'
  BY <1>1 DEF CInv, BaseInv
<1>3. KeysOK' /\ IndexesFresh'
  BY <1>1 DEF CInv, KeysOK, IndexesFresh
<1>4. \A o \in Obj : LoopKept(o)
  BY <1>1 DEF LoopKept
<1>5. LoopInv'
  BY <1>4, GrowthLoop DEF CInv
<1> QED
  BY <1>2, <1>3, <1>5 DEF CInv

(* Collection::add, of any number of values.                               *)
LEMMA CollectionAddC ==
  ASSUME CInv, NEW o \in Obj, NEW vs \in Seq(Value), CollectionAdd(o, vs)
  PROVE  CInv'
<1> DEFINE a == array[o]
           n == Len(vs)
           new == created + 1 .. created + n
<1>0. BaseInv /\ KeysOK /\ LoopInv /\ IndexesFresh
  BY DEF CInv
<1>1. /\ created \in Nat /\ MaxEntries \in Nat /\ created <= MaxEntries /\ a \in Obj
      /\ n \in Nat /\ NULL \notin Nat
      /\ \A b \in Obj : \A i \in entries[b] : i \in Nat /\ 1 <= i /\ i <= created /\ i \in Entry
  BY <1>0, BaseFacts
<1>2. /\ created + n <= MaxEntries /\ created' = created + n /\ kind = "collection"
      /\ entries' = [entries EXCEPT ![a] = @ \cup new]
      /\ key' = [i \in Entry |-> IF i \in new THEN next_free[a] + i - created - 1 ELSE key[i]]
      /\ val' = [i \in Entry |-> IF i \in new THEN vs[i - created] ELSE val[i]]
      /\ next_free' = [next_free EXCEPT ![a] = @ + n]
      /\ UNCHANGED <<kind, array, iter_curr, iter_temp, pos, seen, lasting, jumped>>
  BY DEF CollectionAdd, iter, loop
<1>3. /\ \A i \in new : i \in Nat /\ i > created /\ i <= created + n /\ i \in Entry
      /\ new \subseteq 1..created' /\ 1..created \subseteq 1..created'
      /\ created' \in 0..MaxEntries
  BY <1>1, <1>2 DEF Entry
<1>4. \A b \in Obj : /\ \A i \in entries'[b] : i \in entries[b] \/ (b = a /\ i \in new)
                     /\ entries[b] \subseteq entries'[b] /\ entries'[b] \subseteq 1..created'
  <2>1. \A b \in Obj : /\ b = a => entries'[b] = entries[b] \cup new
                       /\ b # a => entries'[b] = entries[b]
                       /\ entries[b] \subseteq 1..created
    BY <1>0, <1>1, <1>2 DEF BaseInv
  <2> QED
    BY <1>3, <2>1
<1>5. /\ next_free[a] \in Nat /\ next_free'[a] = next_free[a] + n
      /\ \A b \in Obj : b # a => next_free'[b] = next_free[b]
      /\ \A b \in Obj : next_free[b] \in Nat
  BY <1>0, <1>1, <1>2 DEF BaseInv
<1>6. /\ \A i \in new : key'[i] = next_free[a] + i - created - 1 /\ key'[i] \in Nat
                        /\ key'[i] >= next_free[a] /\ key'[i] < next_free'[a]
      /\ \A b \in Obj : \A i \in entries[b] : key'[i] = key[i] /\ i \notin new
  <2>1. \A i \in new : key'[i] = next_free[a] + i - created - 1
    BY <1>2, <1>3
  <2>2. \A b \in Obj : \A i \in entries[b] : key'[i] = key[i] /\ i \notin new
    BY <1>1, <1>2, <1>3
  <2> QED
    BY <1>1, <1>3, <1>5, <2>1, <2>2
<1> HIDE DEF new
<1>7. BaseInv'
  <2>1. entries' \in [Obj -> SUBSET (1..created')]
    <3>1. DOMAIN entries' = Obj /\ entries' = [b \in Obj |-> entries'[b]]
      BY <1>0, <1>2 DEF BaseInv
    <3> QED
      BY <1>4, <3>1
  <2>2. key' \in [Entry -> Key \cup Nat \cup {NULL}]
    <3>1. \A i \in new : next_free[a] + i - created - 1 \in Nat
      BY <1>6
    <3> QED
      BY <1>0, <1>2, <3>1 DEF BaseInv
  <2>3. val' \in [Entry -> Value \cup {NULL}]
    <3>1. \A i \in new : i - created \in 1..Len(vs)
      BY <1>1, <1>3
    <3>2. \A i \in new : vs[i - created] \in Value
      BY <3>1
    <3> QED
      BY <1>0, <1>2, <3>2 DEF BaseInv
  <2>4. next_free' \in [Obj -> Nat]
    BY <1>0, <1>1, <1>2 DEF BaseInv
  <2> QED
    BY <1>0, <1>2, <1>3, <2>1, <2>2, <2>3, <2>4 DEF BaseInv
<1>8. KeysOK'
  <2>1. \A b \in Obj : \A i \in entries'[b] : key'[i] \in Nat
    BY <1>0, <1>2, <1>4, <1>6, ZenonT(60) DEF KeysOK
  <2> QED
    BY <1>2, <2>1, KindsApart DEF KeysOK
<1>9. IndexesFresh'
  <2>1. \A b \in Obj : \A i \in entries[b] :
          /\ key[i] \in Nat /\ key[i] < next_free[b]
          /\ \A j \in entries[b] : j < i => key[j] < key[i]
    BY <1>0, <1>2 DEF KeysOK, IndexesFresh
  <2> SUFFICES ASSUME NEW b \in Obj, NEW i \in entries'[b]
               PROVE  /\ key'[i] < next_free'[b]
                      /\ \A j \in entries'[b] : j < i => key'[j] < key'[i]
    BY DEF IndexesFresh
  <2>2. CASE i \in entries[b]
    <3>1. key'[i] = key[i] /\ key[i] < next_free[b] /\ key[i] \in Nat
      BY <1>6, <2>1, <2>2
    <3>2. key'[i] < next_free'[b]
      BY <1>1, <1>5, <3>1
    <3>3. ASSUME NEW j \in entries'[b], j < i PROVE key'[j] < key'[i]
      <4>1. j \in entries[b]
        BY <1>1, <1>3, <1>4, <2>2, <3>3
      <4> QED
        BY <1>6, <2>1, <2>2, <3>3, <4>1
    <3> QED
      BY <3>2, <3>3
  <2>3. CASE i \in new /\ b = a
    <3>1. key'[i] < next_free'[b] /\ key'[i] = next_free[a] + i - created - 1
      BY <1>6, <2>3
    <3>2. ASSUME NEW j \in entries'[b], j < i PROVE key'[j] < key'[i]
      <4>1. CASE j \in entries[b]
        BY <1>5, <1>6, <2>1, <2>3, <4>1
      <4>2. CASE j \in new
        <5>1. key'[j] = next_free[a] + j - created - 1 /\ j \in Nat /\ i \in Nat
          BY <1>3, <1>6, <2>3, <4>2
        <5> QED
          BY <1>1, <1>5, <3>1, <3>2, <5>1
      <4> QED
        BY <1>4, <3>2, <4>1, <4>2
    <3> QED
      BY <3>1, <3>2
  <2> QED
    BY <1>4, <2>2, <2>3
<1>10. LoopInv'
  <2>1. \A p \in Obj : array[p] \in Obj
    BY <1>0, BaseFacts
  <2>2. \A p \in Obj : LoopKept(p)
    BY <1>2, <1>4, <2>1 DEF LoopKept
  <2> QED
    BY <1>0, <1>2, <2>2, GrowthLoop
<1> QED
  BY <1>7, <1>8, <1>9, <1>10 DEF CInv

(* What removing entry i of table a leaves alone.                          *)
LEMMA RemoveBase ==
  ASSUME CInv, NEW a \in Obj, NEW i \in entries[a],
         entries' = [entries EXCEPT ![a] = @ \ {i}], Forget(a, i),
         UNCHANGED <<kind, array, key, val, created, next_free, iter_curr, pos, seen>>,
         iter_temp' \in [Obj -> Nat \cup {NULL}], jumped' \in [Obj -> BOOLEAN],
         kind # "rows"
  PROVE  /\ BaseInv' /\ KeysOK' /\ IndexesFresh'
         /\ entries'[a] = entries[a] \ {i} /\ \A b \in Obj : b # a => entries'[b] = entries[b]
         /\ lasting'[a] = lasting[a] \ {i} /\ \A b \in Obj : b # a => lasting'[b] = lasting[b]
<1>0. BaseInv /\ KeysOK /\ IndexesFresh /\ \A o \in Obj : array[o] = o
  BY DEF CInv, BaseInv
<1>1. entries'[a] = entries[a] \ {i} /\ \A b \in Obj : b # a => entries'[b] = entries[b]
  BY <1>0 DEF BaseInv
<1>2. lasting'[a] = lasting[a] \ {i} /\ \A b \in Obj : b # a => lasting'[b] = lasting[b]
  BY <1>0 DEF Forget
<1>3. \A b \in Obj : entries'[b] \subseteq entries[b]
  BY <1>1
<1>4. BaseInv'
  <2>1. entries' \in [Obj -> SUBSET (1..created)]
    BY <1>0 DEF BaseInv
  <2>2. lasting' \in [Obj -> SUBSET Nat]
    BY <1>0 DEF BaseInv, Forget
  <2> QED
    BY <1>0, <2>1, <2>2 DEF BaseInv
<1>5. KeysOK'
  BY <1>0, <1>3 DEF KeysOK
<1>6. IndexesFresh'
  BY <1>0, <1>3 DEF IndexesFresh
<1> QED
  BY <1>1, <1>2, <1>4, <1>5, <1>6

(* Set::remove and Map::remove: the loop goes on behind the entry.         *)
LEMMA HashedRemoveC ==
  ASSUME CInv, kind \in HashedKinds, NEW o \in Obj, NEW i \in entries[array[o]],
         Unlink(array[o], i), Forget(array[o], i),
         UNCHANGED <<kind, array, key, val, created, next_free, iter_curr, pos, seen, jumped>>
  PROVE  CInv'
<1>0. /\ BaseInv /\ LoopInv /\ kind # "rows" /\ kind # "collection" /\ kind \notin FieldKinds
      /\ array[o] = o
  BY KindsApart DEF CInv, BaseInv
<1>1. entries[o] \in SUBSET Nat /\ i \in entries[o] /\ i \in Nat /\ NULL \notin Nat
  BY <1>0, BaseFacts
<1>2. /\ Following(o, i) = NULL => \A j \in entries[o] : j <= i
      /\ Following(o, i) # NULL =>
           /\ Following(o, i) \in entries[o] /\ Following(o, i) > i
           /\ \A j \in entries[o] : j > i => Following(o, i) <= j
  BY <1>1, FollowingIs
<1>3. /\ iter_temp' = [iter_temp EXCEPT ![o] = IF @ = i THEN Following(o, i) ELSE @]
      /\ entries' = [entries EXCEPT ![o] = @ \ {i}]
      /\ iter_temp \in [Obj -> Nat \cup {NULL}]
  BY <1>0 DEF Unlink, BaseInv
<1>4. Following(o, i) \in Nat \cup {NULL}
  BY <1>1, <1>2
<1>5. /\ iter_temp' \in [Obj -> Nat \cup {NULL}]
      /\ iter_temp[o] = i => iter_temp'[o] = Following(o, i)
      /\ iter_temp[o] # i => iter_temp'[o] = iter_temp[o]
      /\ \A b \in Obj : b # o => iter_temp'[b] = iter_temp[b]
  BY <1>3, <1>4
<1>6. /\ BaseInv' /\ KeysOK' /\ IndexesFresh'
      /\ entries'[o] = entries[o] \ {i} /\ \A b \in Obj : b # o => entries'[b] = entries[b]
      /\ lasting'[o] = lasting[o] \ {i} /\ \A b \in Obj : b # o => lasting'[b] = lasting[b]
  <2>1. Forget(o, i) /\ jumped' \in [Obj -> BOOLEAN]
    BY <1>0 DEF BaseInv
  <2> QED
    BY <1>0, <1>1, <1>3, <1>5, <2>1, RemoveBase
<1>7. HashedLoop(o)'
  <2>1. HashedLoop(o)
    BY <1>0 DEF LoopInv
  <2>2. seen[o] \in Seq(Nat)
    BY <1>0 DEF BaseInv
  <2>3. CASE iter_temp[o] # i
    <3>1. iter_temp'[o] = iter_temp[o]
      BY <1>5, <2>3
    <3> QED
      BY <1>6, <2>1, <2>3, <3>1 DEF HashedLoop
  <2>4. CASE iter_temp[o] = i
    <3> DEFINE t == Following(o, i)
    <3>1. iter_temp'[o] = t /\ i # NULL /\ Before(seen[o], i) /\ iter_curr[o] # NULL
      BY <1>1, <1>5, <2>1, <2>4 DEF HashedLoop
    <3>2. t # NULL => Before(seen[o], t) /\ t \in entries[o] \ {i}
      <4> SUFFICES ASSUME t # NULL PROVE Before(seen[o], t) /\ t \in entries[o] \ {i}
        OBVIOUS
      <4>1. t \in entries[o] /\ t > i /\ t \in Nat
        BY <1>1, <1>2
      <4>2. \A n \in 1..Len(seen[o]) : seen[o][n] \in Nat /\ seen[o][n] < i
        BY <2>2, <3>1 DEF Before
      <4> HIDE DEF t
      <4> QED
        BY <1>1, <4>1, <4>2 DEF Before
    <3>3. ASSUME NEW x \in lasting[o], x # i
          PROVE  Given(seen[o], x) \/ (t # NULL /\ x >= t)
      <4>1. x \in entries[o] /\ x \in Nat /\ (Given(seen[o], x) \/ x >= i)
        BY <1>1, <2>1, <2>4 DEF HashedLoop
      <4> QED
        BY <1>1, <1>2, <3>3, <4>1
    <3> HIDE DEF t
    <3> QED
      BY <1>6, <2>1, <2>4, <3>1, <3>2, <3>3 DEF HashedLoop
  <2> QED
    BY <2>3, <2>4
<1>8. \A p \in Obj : p # o => HashedLoop(p)'
  <2> SUFFICES ASSUME NEW p \in Obj, p # o PROVE HashedLoop(p)'
    OBVIOUS
  <2>1. /\ HashedLoop(p) /\ iter_temp'[p] = iter_temp[p] /\ iter_curr'[p] = iter_curr[p]
        /\ entries'[p] = entries[p] /\ lasting'[p] = lasting[p] /\ seen'[p] = seen[p]
    BY <1>0, <1>5, <1>6 DEF LoopInv
  <2> QED
    BY <2>1 DEF HashedLoop
<1>9. LoopInv'
  BY <1>0, <1>7, <1>8 DEF LoopInv
<1> QED
  BY <1>6, <1>9 DEF CInv

(* The element at the internal pointer.                                    *)
LEMMA ArrayCurrentIs ==
  ASSUME BaseInv, NEW a \in Obj
  PROVE  /\ ArrayCurrent(a) = NULL => \A i \in entries[a] : i < pos[a]
         /\ ArrayCurrent(a) # NULL =>
              /\ ArrayCurrent(a) \in entries[a] /\ ArrayCurrent(a) >= pos[a]
              /\ \A j \in entries[a] : j >= pos[a] => ArrayCurrent(a) <= j
         /\ pos[a] \in entries[a] => ArrayCurrent(a) = pos[a]
<1> DEFINE S == {i \in entries[a] : i >= pos[a]}
<1>0. entries[a] \in SUBSET Nat /\ pos[a] \in Nat
  BY BaseFacts
<1>1. S \in SUBSET Nat
  BY <1>0
<1>2. ArrayCurrent(a) = Least(S)
  BY DEF ArrayCurrent
<1>3. /\ Least(S) = NULL <=> S = {}
      /\ Least(S) # NULL => Least(S) \in S /\ \A y \in S : Least(S) <= y
  BY <1>1, LeastIs
<1>4. pos[a] \in entries[a] => Least(S) = pos[a]
  <2> SUFFICES ASSUME pos[a] \in entries[a] PROVE Least(S) = pos[a]
    OBVIOUS
  <2>1. pos[a] \in S
    BY <1>0
  <2>2. Least(S) \in S /\ Least(S) <= pos[a]
    BY <1>3, <2>1
  <2> QED
    BY <1>0, <2>2
<1> QED
  BY <1>0, <1>2, <1>3, <1>4

(* Collection::remove.                                                     *)
LEMMA CollectionRemoveC ==
  ASSUME CInv, NEW o \in Obj, NEW n, CollectionRemove(o, n)
  PROVE  CInv'
<1>0. BaseInv /\ LoopInv /\ kind = "collection" /\ array[o] = o
      /\ \A p \in Obj : array[p] = p
  BY DEF CInv, BaseInv, CollectionRemove
<1>1. PICK i \in entries[o] :
        /\ entries' = [entries EXCEPT ![o] = @ \ {i}]
        /\ Forget(o, i)
        /\ jumped' = [jumped EXCEPT ![o] = @ \/ i = ArrayCurrent(o)]
  BY <1>0 DEF CollectionRemove, Find
<1>2. UNCHANGED <<kind, array, key, val, created, next_free, iter_curr, iter_temp, pos, seen>>
  BY DEF CollectionRemove, iter
<1>3. /\ jumped' \in [Obj -> BOOLEAN]
      /\ ~jumped'[o] => ~jumped[o] /\ i # ArrayCurrent(o)
      /\ \A p \in Obj : p # o => jumped'[p] = jumped[p]
  BY <1>0, <1>1 DEF BaseInv
<1>4. /\ BaseInv' /\ KeysOK' /\ IndexesFresh'
      /\ entries'[o] = entries[o] \ {i} /\ \A b \in Obj : b # o => entries'[b] = entries[b]
      /\ lasting'[o] = lasting[o] \ {i} /\ \A b \in Obj : b # o => lasting'[b] = lasting[b]
  <2>1. iter_temp' \in [Obj -> Nat \cup {NULL}]
    BY <1>0, <1>2 DEF BaseInv
  <2> QED
    BY <1>0, <1>1, <1>2, <1>3, <2>1, RemoveBase
<1>5. \A p \in Obj : Alone(p)
  BY <1>0 DEF Alone
<1>6. \A p \in Obj : ArrayLoop(p)
  BY <1>0, <1>5 DEF LoopInv
<1>7. ArrayLoop(o)'
  <2>1. pos[o] \in entries[o] => ArrayCurrent(o) = pos[o]
    BY <1>0, ArrayCurrentIs
  <2> QED
    BY <1>0, <1>2, <1>3, <1>4, <1>6, <2>1 DEF ArrayLoop
<1>8. ASSUME NEW p \in Obj, p # o PROVE ArrayLoop(p)'
  <2>1. /\ ArrayLoop(p) /\ pos'[p] = pos[p] /\ array'[p] = p /\ array[p] = p
        /\ entries'[p] = entries[p] /\ lasting'[p] = lasting[p] /\ seen'[p] = seen[p]
        /\ jumped'[p] = jumped[p]
    BY <1>0, <1>2, <1>3, <1>4, <1>6, <1>8
  <2> QED
    BY <2>1 DEF ArrayLoop
<1>9. LoopInv'
  BY <1>0, <1>2, <1>7, <1>8, KindsApart DEF LoopInv
<1> QED
  BY <1>4, <1>9 DEF CInv

-----------------------------------------------------------------------------
(* A move of the loop of object o changes no table, and the loop of no     *)
(* object with a table of its own but that of o.                           *)
LEMMA MoveC ==
  ASSUME CInv, NEW o \in Obj, UNCHANGED <<kind, array, table>>,
         iter_curr' \in [Obj -> Nat \cup {NULL}], iter_temp' \in [Obj -> Nat \cup {NULL}],
         pos' \in [Obj -> Nat], seen' \in [Obj -> Seq(Nat)],
         lasting' \in [Obj -> SUBSET Nat], jumped' \in [Obj -> BOOLEAN],
         \A b \in Obj : b # array[o] => /\ iter_curr'[b] = iter_curr[b]
                                        /\ iter_temp'[b] = iter_temp[b] /\ pos'[b] = pos[b],
         \A p \in Obj : p # o => /\ seen'[p] = seen[p] /\ lasting'[p] = lasting[p]
                                 /\ jumped'[p] = jumped[p],
         kind \in HashedKinds => HashedLoop(o)',
         kind \in {"collection", "rows"} /\ Alone(o) => ArrayLoop(o)',
         kind \in FieldKinds => FieldsLoop(o)'
  PROVE  CInv'
<1>0. /\ BaseInv /\ KeysOK /\ IndexesFresh /\ LoopInv
      /\ UNCHANGED <<entries, key, val, created, next_free>>
  BY DEF CInv, table
<1>1. BaseInv' /\ KeysOK' /\ IndexesFresh'
  <2>1. BaseInv'
    BY <1>0 DEF BaseInv
  <2>2. KeysOK' /\ IndexesFresh'
    BY <1>0 DEF KeysOK, IndexesFresh
  <2> QED
    BY <2>1, <2>2
<1>2. \A p \in Obj : Alone(p)' <=> Alone(p)
  BY DEF Alone
<1>3. ASSUME NEW p \in Obj, p # o, array[p] # array[o] PROVE LoopKept(p)
  <2>1. array[p] \in Obj
    BY <1>0, BaseFacts
  <2> QED
    BY <1>0, <1>3, <2>1 DEF LoopKept
<1>4. ASSUME NEW p \in Obj, p # o
      PROVE  /\ kind \in HashedKinds => HashedLoop(p)'
             /\ kind \in {"collection", "rows"} /\ Alone(p) => ArrayLoop(p)'
             /\ kind \in FieldKinds => FieldsLoop(p)'
  <2>1. kind # "rows" => array[p] # array[o]
    BY <1>0, <1>4 DEF BaseInv
  <2>2. Alone(p) => array[p] # array[o]
    BY <1>4 DEF Alone
  <2> QED
    BY <1>0, <1>3, <1>4, <2>1, <2>2, LoopFrame, KindsApart DEF LoopInv
<1>5. LoopInv'
  BY <1>2, <1>4 DEF LoopInv
<1> QED
  BY <1>1, <1>5 DEF CInv

(* What rewind and next do to the history of a loop.                       *)
LEMMA RewoundIs ==
  ASSUME BaseInv, NEW o \in Obj, NEW all \in SUBSET Nat, NEW first \in Nat \cup {NULL},
         Rewound(o, all, first)
  PROVE  /\ seen' \in [Obj -> Seq(Nat)] /\ lasting' \in [Obj -> SUBSET Nat]
         /\ jumped' \in [Obj -> BOOLEAN]
         /\ first = NULL => seen'[o] = <<>>
         /\ first # NULL => seen'[o] = <<first>>
         /\ lasting'[o] = all /\ jumped'[o] = FALSE
         /\ \A p \in Obj : p # o => /\ seen'[p] = seen[p] /\ lasting'[p] = lasting[p]
                                    /\ jumped'[p] = jumped[p]
<1>1. <<>> \in Seq(Nat) /\ (first # NULL => <<first>> \in Seq(Nat))
  OBVIOUS
<1>2. /\ seen \in [Obj -> Seq(Nat)] /\ lasting \in [Obj -> SUBSET Nat]
      /\ jumped \in [Obj -> BOOLEAN]
  BY DEF BaseInv
<1>3. /\ seen' = [seen EXCEPT ![o] = IF first = NULL THEN <<>> ELSE <<first>>]
      /\ lasting' = [lasting EXCEPT ![o] = all]
      /\ jumped' = [jumped EXCEPT ![o] = FALSE]
  BY DEF Rewound
<1>4. (IF first = NULL THEN <<>> ELSE <<first>>) \in Seq(Nat)
  BY <1>1
<1>5. seen' \in [Obj -> Seq(Nat)]
  BY <1>2, <1>3, <1>4
<1> QED
  BY <1>2, <1>3, <1>5

(* The history of a loop that next moves.                                  *)
LEMMA MovedIs ==
  ASSUME BaseInv, NEW o \in Obj, NEW to \in Nat \cup {NULL}, Moved(o, to)
  PROVE  /\ seen' \in [Obj -> Seq(Nat)] /\ lasting' \in [Obj -> SUBSET Nat]
         /\ jumped' \in [Obj -> BOOLEAN]
         /\ to = NULL => seen'[o] = seen[o]
         /\ to # NULL => seen'[o] = Append(seen[o], to)
         /\ lasting' = lasting /\ jumped' = jumped
         /\ \A p \in Obj : p # o => seen'[p] = seen[p]
<1>1. /\ seen \in [Obj -> Seq(Nat)] /\ lasting \in [Obj -> SUBSET Nat]
      /\ jumped \in [Obj -> BOOLEAN]
  BY DEF BaseInv
<1>2. /\ seen' = [seen EXCEPT ![o] = IF to = NULL THEN seen[o] ELSE Append(seen[o], to)]
      /\ UNCHANGED <<lasting, jumped>>
  BY DEF Moved
<1>3. (IF to = NULL THEN seen[o] ELSE Append(seen[o], to)) \in Seq(Nat)
  BY <1>1
<1>4. seen' \in [Obj -> Seq(Nat)]
  BY <1>1, <1>2, <1>3
<1> QED
  BY <1>1, <1>2, <1>4

(* Set::rewind and Map::rewind.                                            *)
LEMMA HashedRewindC ==
  ASSUME CInv, kind \in HashedKinds, NEW o \in Obj, HashedRewind(o)
  PROVE  CInv'
<1> DEFINE first == Least(entries[o])
           temp == IF first = NULL THEN NULL ELSE Following(o, first)
<1>0. /\ BaseInv /\ kind # "rows" /\ kind # "collection" /\ kind \notin FieldKinds
      /\ array[o] = o /\ entries[o] \in SUBSET Nat /\ NULL \notin Nat
  <2>1. BaseInv
    BY DEF CInv
  <2> QED
    BY <2>1, KindsApart, BaseFacts DEF BaseInv
<1>1. /\ first = NULL <=> entries[o] = {}
      /\ first # NULL => /\ first \in entries[o] /\ first \in Nat
                         /\ \A y \in entries[o] : first <= y
  BY <1>0, LeastIs
<1>2. first # NULL =>
        /\ Following(o, first) = NULL => \A j \in entries[o] : j <= first
        /\ Following(o, first) # NULL =>
             /\ Following(o, first) \in entries[o] /\ Following(o, first) > first
             /\ \A j \in entries[o] : j > first => Following(o, first) <= j
  BY <1>0, <1>1, FollowingIs
<1>3. first \in Nat \cup {NULL} /\ temp \in Nat \cup {NULL}
  BY <1>0, <1>1, <1>2
<1>4. /\ iter_curr' = [iter_curr EXCEPT ![o] = first]
      /\ iter_temp' = [iter_temp EXCEPT ![o] = temp]
      /\ Rewound(o, entries[o], first)
      /\ UNCHANGED <<kind, array, table, pos>>
  BY <1>0 DEF HashedRewind
<1> HIDE DEF first, temp
<1>5. /\ seen' \in [Obj -> Seq(Nat)] /\ lasting' \in [Obj -> SUBSET Nat]
      /\ jumped' \in [Obj -> BOOLEAN]
      /\ first = NULL => seen'[o] = <<>>
      /\ first # NULL => seen'[o] = <<first>>
      /\ lasting'[o] = entries[o]
      /\ \A p \in Obj : p # o => /\ seen'[p] = seen[p] /\ lasting'[p] = lasting[p]
                                 /\ jumped'[p] = jumped[p]
  <2> DEFINE all == entries[o]
  <2>1. BaseInv /\ all \in SUBSET Nat /\ first \in Nat \cup {NULL} /\ Rewound(o, all, first)
    BY <1>0, <1>3, <1>4
  <2> HIDE DEF all
  <2>2. /\ seen' \in [Obj -> Seq(Nat)] /\ lasting' \in [Obj -> SUBSET Nat]
        /\ jumped' \in [Obj -> BOOLEAN]
        /\ first = NULL => seen'[o] = <<>>
        /\ first # NULL => seen'[o] = <<first>>
        /\ lasting'[o] = all
        /\ \A p \in Obj : p # o => /\ seen'[p] = seen[p] /\ lasting'[p] = lasting[p]
                                   /\ jumped'[p] = jumped[p]
    BY <2>1, RewoundIs
  <2> QED
    BY <2>2 DEF all
<1>6. /\ iter_curr' \in [Obj -> Nat \cup {NULL}] /\ iter_temp' \in [Obj -> Nat \cup {NULL}]
      /\ iter_curr'[o] = first /\ iter_temp'[o] = temp /\ entries' = entries
      /\ \A b \in Obj : b # o => iter_curr'[b] = iter_curr[b] /\ iter_temp'[b] = iter_temp[b]
  BY <1>0, <1>3, <1>4 DEF BaseInv, table
<1>7. HashedLoop(o)'
  <2>1. CASE first = NULL
    BY <1>1, <1>5, <1>6, <2>1, NothingGiven DEF HashedLoop, temp
  <2>2. CASE first # NULL
    <3>1. /\ Increasing(<<first>>) /\ Given(<<first>>, first)
          /\ \A b \in Nat : first < b => Before(<<first>>, b)
      BY <1>1, <2>2, FirstGiven
    <3>2. temp = Following(o, first)
      BY <2>2 DEF temp
    <3>3. temp # NULL => Before(<<first>>, temp) /\ temp \in entries[o]
      BY <1>0, <1>1, <1>2, <2>2, <3>1, <3>2
    <3>4. \A x \in entries[o] : x = first \/ (temp # NULL /\ x >= temp)
      BY <1>0, <1>1, <1>2, <2>2, <3>2
    <3> QED
      BY <1>5, <1>6, <2>2, <3>1, <3>3, <3>4 DEF HashedLoop
  <2> QED
    BY <2>1, <2>2
<1>8. pos' \in [Obj -> Nat] /\ pos' = pos
  BY <1>0, <1>4 DEF BaseInv
<1> QED
  BY <1>0, <1>4, <1>5, <1>6, <1>7, <1>8, MoveC, ZenonT(60)

(* Set::next and Map::next: what comes after iter_temp is left.            *)
LEMMA HashedNextC ==
  ASSUME CInv, kind \in HashedKinds, NEW o \in Obj, HashedNext(o)
  PROVE  CInv'
<1> DEFINE to == iter_temp[o]
           temp == IF to = NULL THEN NULL ELSE Following(o, to)
<1>0. /\ BaseInv /\ kind # "rows" /\ kind # "collection" /\ kind \notin FieldKinds
      /\ array[o] = o /\ entries[o] \in SUBSET Nat /\ NULL \notin Nat /\ HashedLoop(o)
      /\ seen[o] \in Seq(Nat)
  <2>1. BaseInv /\ HashedLoop(o)
    BY DEF CInv, LoopInv
  <2> QED
    BY <2>1, KindsApart, BaseFacts DEF BaseInv
<1>1. /\ to \in Nat \cup {NULL}
      /\ to # NULL => to \in entries[o] /\ to \in Nat /\ Before(seen[o], to)
  BY <1>0 DEF BaseInv, HashedLoop
<1>2. to # NULL =>
        /\ Following(o, to) = NULL => \A j \in entries[o] : j <= to
        /\ Following(o, to) # NULL =>
             /\ Following(o, to) \in entries[o] /\ Following(o, to) > to
             /\ \A j \in entries[o] : j > to => Following(o, to) <= j
  BY <1>0, <1>1, FollowingIs
<1>3. temp \in Nat \cup {NULL}
  BY <1>0, <1>1, <1>2
<1>4. /\ iter_curr' = [iter_curr EXCEPT ![o] = to]
      /\ iter_temp' = [iter_temp EXCEPT ![o] = temp]
      /\ Moved(o, to)
      /\ UNCHANGED <<kind, array, table, pos>>
  BY <1>0 DEF HashedNext
<1> HIDE DEF temp
<1>5. /\ seen' \in [Obj -> Seq(Nat)] /\ lasting' \in [Obj -> SUBSET Nat]
      /\ jumped' \in [Obj -> BOOLEAN]
      /\ to = NULL => seen'[o] = seen[o]
      /\ to # NULL => seen'[o] = Append(seen[o], to)
      /\ lasting' = lasting /\ jumped' = jumped
      /\ \A p \in Obj : p # o => seen'[p] = seen[p]
  BY <1>0, <1>1, <1>4, MovedIs
<1>6. /\ iter_curr' \in [Obj -> Nat \cup {NULL}] /\ iter_temp' \in [Obj -> Nat \cup {NULL}]
      /\ iter_curr'[o] = to /\ iter_temp'[o] = temp /\ entries' = entries
      /\ \A b \in Obj : b # o => iter_curr'[b] = iter_curr[b] /\ iter_temp'[b] = iter_temp[b]
  BY <1>0, <1>1, <1>3, <1>4 DEF BaseInv, table
<1>7. HashedLoop(o)'
  <2>1. CASE to = NULL
    <3>1. temp = NULL
      BY <2>1 DEF temp
    <3> QED
      BY <1>0, <1>5, <1>6, <2>1, <3>1 DEF HashedLoop
  <2>2. CASE to # NULL
    <3> DEFINE s == Append(seen[o], to)
    <3>1. /\ Increasing(s) /\ Given(s, to)
          /\ \A x : Given(seen[o], x) => Given(s, x)
          /\ \A b \in Nat : to < b => Before(s, b)
      BY <1>0, <1>1, <2>2, AppendGiven DEF HashedLoop
    <3>2. temp = Following(o, to)
      BY <2>2 DEF temp
    <3>3. seen'[o] = s
      BY <1>5, <2>2
    <3> HIDE DEF s
    <3>4. temp # NULL => Before(s, temp) /\ temp \in entries[o]
      BY <1>0, <1>1, <1>2, <2>2, <3>1, <3>2
    <3>5. ASSUME NEW x \in lasting[o]
          PROVE  Given(s, x) \/ (temp # NULL /\ x >= temp)
      <4>1. x \in entries[o] /\ x \in Nat /\ (Given(seen[o], x) \/ x >= to)
        BY <1>0 DEF HashedLoop
      <4> QED
        BY <1>0, <1>1, <1>2, <2>2, <3>1, <3>2, <4>1
    <3>6. lasting[o] \subseteq entries[o]
      BY <1>0 DEF HashedLoop
    <3> QED
      BY <1>5, <1>6, <2>2, <3>1, <3>3, <3>4, <3>5, <3>6 DEF HashedLoop
  <2> QED
    BY <2>1, <2>2
<1>8. pos' \in [Obj -> Nat] /\ pos' = pos
  BY <1>0, <1>4 DEF BaseInv
<1> QED
  BY <1>0, <1>4, <1>5, <1>6, <1>7, <1>8, MoveC

(* Collection::rewind and Rows::rewind.                                    *)
LEMMA ArrayRewindC ==
  ASSUME CInv, kind \in {"collection", "rows"}, NEW o \in Obj, ArrayRewind(o)
  PROVE  CInv'
<1>0. BaseInv /\ kind \notin HashedKinds /\ kind \notin FieldKinds
  BY KindsApart DEF CInv
<1>1. PICK a \in Obj : a = array[o]
  BY <1>0, BaseFacts
<1> DEFINE all == entries[a]
           first == Least(all)
           start == IF first = NULL THEN created + 1 ELSE first
<1>2. all \in SUBSET Nat /\ NULL \notin Nat /\ created \in Nat
  BY <1>0, BaseFacts
<1>3. /\ first = NULL <=> all = {}
      /\ first # NULL => first \in all /\ first \in Nat /\ \A y \in all : first <= y
      /\ first \in Nat \cup {NULL}
  BY <1>2, LeastIs
<1>4. start \in Nat
  BY <1>2, <1>3
<1>5. /\ pos' = [pos EXCEPT ![a] = start]
      /\ Rewound(o, all, first)
      /\ UNCHANGED <<kind, array, table, iter_curr, iter_temp>>
      /\ entries' = entries
  BY <1>1 DEF ArrayRewind, table
<1>6. start = first \/ all = {}
  BY <1>3
<1>7. all = entries[a]
  OBVIOUS
<1> HIDE DEF all, first, start
<1>8. /\ seen' \in [Obj -> Seq(Nat)] /\ lasting' \in [Obj -> SUBSET Nat]
      /\ jumped' \in [Obj -> BOOLEAN]
      /\ first = NULL => seen'[o] = <<>>
      /\ first # NULL => seen'[o] = <<first>>
      /\ lasting'[o] = all
      /\ \A p \in Obj : p # o => /\ seen'[p] = seen[p] /\ lasting'[p] = lasting[p]
                                 /\ jumped'[p] = jumped[p]
  BY <1>0, <1>2, <1>3, <1>5, RewoundIs
<1>9. /\ pos' \in [Obj -> Nat] /\ pos'[a] = start /\ \A b \in Obj : b # a => pos'[b] = pos[b]
      /\ iter_curr' \in [Obj -> Nat \cup {NULL}] /\ iter_temp' \in [Obj -> Nat \cup {NULL}]
  BY <1>0, <1>4, <1>5 DEF BaseInv
<1>10. ArrayLoop(o)'
  <2>1. CASE first = NULL
    <3>1. seen'[o] = <<>> /\ lasting'[o] = {} /\ array'[o] = a
      BY <1>1, <1>3, <1>5, <1>8, <2>1
    <3> QED
      BY <3>1, NothingGiven DEF ArrayLoop
  <2>2. CASE first # NULL
    <3>1. Increasing(<<first>>) /\ Given(<<first>>, first) /\ UpTo(<<first>>, first)
      BY <1>3, <2>2, FirstGiven
    <3>2. /\ seen'[o] = <<first>> /\ lasting'[o] = all /\ array'[o] = a /\ pos'[a] = first
          /\ entries'[a] = all
      BY <1>1, <1>3, <1>5, <1>6, <1>7, <1>8, <1>9, <2>2
    <3>3. \A x \in all : x = first \/ x > first
      BY <1>2, <1>3, <2>2
    <3> QED
      BY <1>3, <2>2, <3>1, <3>2, <3>3 DEF ArrayLoop
  <2> QED
    BY <2>1, <2>2
<1> QED
  BY <1>0, <1>1, <1>5, <1>8, <1>9, <1>10, MoveC

(* Where zend_hash_move_forward leaves the internal pointer, and what is   *)
(* there: nothing when the pointer was past the end or at the last.        *)
LEMMA ArrayForwardIs ==
  ASSUME BaseInv, NEW a \in Obj
  PROVE  LET to == ArrayForward(a)
             given == Least({i \in entries[a] : i >= to})
             at == ArrayCurrent(a)
         IN /\ to \in Nat /\ pos[a] <= to
            /\ given \in Nat \cup {NULL}
            /\ given # NULL => given = to /\ to \in entries[a] /\ to > pos[a]
            /\ given = NULL /\ pos[a] \in entries[a] => \A x \in entries[a] : x <= pos[a]
            /\ given = NULL /\ pos[a] \notin entries[a] =>
                 to = pos[a] \/ to = created + 1
            /\ given # NULL /\ pos[a] \in entries[a] =>
                 \A x \in entries[a] : x > pos[a] => x >= to
<1> DEFINE at == ArrayCurrent(a)
           nx == Following(a, at)
           to == ArrayForward(a)
           S == {i \in entries[a] : i >= to}
           given == Least(S)
<1>0. /\ entries[a] \in SUBSET Nat /\ NULL \notin Nat /\ created \in Nat /\ pos[a] \in Nat
      /\ \A i \in entries[a] : i <= created
  BY BaseFacts
<1>1. /\ at = NULL => \A i \in entries[a] : i < pos[a]
      /\ at # NULL => /\ at \in entries[a] /\ at >= pos[a]
                      /\ \A j \in entries[a] : j >= pos[a] => at <= j
      /\ pos[a] \in entries[a] => at = pos[a]
  BY ArrayCurrentIs
<1>2. at # NULL =>
        /\ at \in Nat
        /\ nx = NULL => \A j \in entries[a] : j <= at
        /\ nx # NULL => /\ nx \in entries[a] /\ nx > at
                        /\ \A j \in entries[a] : j > at => nx <= j
  BY <1>0, <1>1, FollowingIs
<1>3. /\ at = NULL => to = pos[a]
      /\ at # NULL /\ nx = NULL => to = created + 1
      /\ at # NULL /\ nx # NULL => to = nx
  BY DEF ArrayForward
<1> HIDE DEF at, nx, to
<1>4. S \in SUBSET Nat
  BY <1>0
<1>5. /\ given = NULL <=> S = {}
      /\ given # NULL => given \in S /\ \A y \in S : given <= y
  BY <1>4, LeastIs
<1>6. \A i : i \in S <=> i \in entries[a] /\ i >= to
  OBVIOUS
<1> HIDE DEF S, given
<1>7. CASE at = NULL
  <2>1. S = {} /\ to = pos[a]
    BY <1>0, <1>1, <1>3, <1>6, <1>7
  <2> QED
    BY <1>0, <1>1, <1>5, <1>7, <2>1 DEF at, to, S, given
<1>8. CASE at # NULL /\ nx = NULL
  <2>1. to = created + 1 /\ at \in Nat /\ at <= created
    BY <1>0, <1>1, <1>3, <1>8
  <2>2. S = {}
    BY <1>0, <1>6, <2>1
  <2>3. to \in Nat /\ pos[a] <= to /\ given = NULL
    BY <1>0, <1>1, <1>5, <1>8, <2>1, <2>2
  <2>4. pos[a] \in entries[a] => \A x \in entries[a] : x <= pos[a]
    BY <1>1, <1>2, <1>8
  <2> QED
    BY <2>1, <2>3, <2>4 DEF at, to, S, given
<1>9. CASE at # NULL /\ nx # NULL
  <2>1. to = nx /\ to \in entries[a] /\ to \in Nat /\ to > at /\ at \in Nat /\ at >= pos[a]
    BY <1>0, <1>1, <1>2, <1>3, <1>9
  <2>2. to \in S
    BY <1>6, <2>1
  <2>3. given = to
    BY <1>0, <1>4, <1>5, <1>6, <2>1, <2>2
  <2>4. pos[a] \in entries[a] => \A x \in entries[a] : x > pos[a] => x >= to
    BY <1>0, <1>1, <1>2, <1>9, <2>1
  <2>5. to > pos[a] /\ given # NULL
    BY <1>0, <2>1, <2>3
  <2> QED
    BY <1>0, <2>1, <2>3, <2>4, <2>5 DEF at, to, S, given
<1> QED
  BY <1>7, <1>8, <1>9

(* Collection::next and Rows::next.                                        *)
LEMMA ArrayNextC ==
  ASSUME CInv, kind \in {"collection", "rows"}, NEW o \in Obj, ArrayNext(o)
  PROVE  CInv'
<1>0. BaseInv /\ kind \notin HashedKinds /\ kind \notin FieldKinds
  BY KindsApart DEF CInv
<1>1. PICK a \in Obj : a = array[o]
  BY <1>0, BaseFacts
<1> DEFINE to == ArrayForward(a)
           given == Least({i \in entries[a] : i >= to})
<1>2. /\ to \in Nat /\ pos[a] <= to
      /\ given \in Nat \cup {NULL}
      /\ given # NULL => given = to /\ to \in entries[a] /\ to > pos[a]
      /\ given = NULL /\ pos[a] \in entries[a] => \A x \in entries[a] : x <= pos[a]
      /\ given # NULL /\ pos[a] \in entries[a] =>
           \A x \in entries[a] : x > pos[a] => x >= to
  BY <1>0, ArrayForwardIs
<1>3. /\ pos' = [pos EXCEPT ![a] = to]
      /\ Moved(o, given)
      /\ UNCHANGED <<kind, array, table, iter_curr, iter_temp>>
      /\ entries' = entries
  BY <1>1 DEF ArrayNext, table
<1> HIDE DEF to, given
<1>4. /\ seen' \in [Obj -> Seq(Nat)] /\ lasting' \in [Obj -> SUBSET Nat]
      /\ jumped' \in [Obj -> BOOLEAN]
      /\ given = NULL => seen'[o] = seen[o]
      /\ given # NULL => seen'[o] = Append(seen[o], given)
      /\ lasting' = lasting /\ jumped' = jumped
      /\ \A p \in Obj : p # o => seen'[p] = seen[p]
  BY <1>0, <1>2, <1>3, MovedIs
<1>5. /\ pos' \in [Obj -> Nat] /\ pos'[a] = to /\ \A b \in Obj : b # a => pos'[b] = pos[b]
      /\ iter_curr' \in [Obj -> Nat \cup {NULL}] /\ iter_temp' \in [Obj -> Nat \cup {NULL}]
  BY <1>0, <1>2, <1>3 DEF BaseInv
<1>6. ASSUME Alone(o) PROVE ArrayLoop(o)'
  <2>1. ArrayLoop(o)
    BY <1>6 DEF CInv, LoopInv
  <2>2. /\ Increasing(seen[o]) /\ UpTo(seen[o], pos[a]) /\ lasting[o] \subseteq entries[a]
        /\ ~jumped[o] => \A x \in lasting[o] :
             Given(seen[o], x) \/ (x > pos[a] /\ pos[a] \in entries[a])
    BY <1>1, <2>1 DEF ArrayLoop
  <2>3. /\ seen[o] \in Seq(Nat) /\ pos[a] \in Nat /\ entries[a] \in SUBSET Nat
        /\ \A n \in 1..Len(seen[o]) : seen[o][n] \in Nat
    <3>1. seen[o] \in Seq(Nat) /\ pos[a] \in Nat /\ entries[a] \in SUBSET Nat
      BY <1>0, BaseFacts
    <3> QED
      BY <3>1
  <2>4. CASE given = NULL
    <3>1. UpTo(seen[o], to)
      BY <1>2, <2>2, <2>3 DEF UpTo
    <3>2. ~jumped[o] => \A x \in lasting[o] : Given(seen[o], x)
      BY <1>2, <2>2, <2>3, <2>4
    <3>3. seen'[o] = seen[o] /\ array'[o] = a
      BY <1>1, <1>3, <1>4, <2>4
    <3> QED
      BY <1>3, <1>4, <1>5, <2>2, <3>1, <3>2, <3>3 DEF ArrayLoop
  <2>5. CASE given # NULL
    <3> DEFINE s == Append(seen[o], to)
    <3>1. Before(seen[o], to)
      BY <1>2, <2>2, <2>3, <2>5 DEF UpTo, Before
    <3>2. /\ Increasing(s) /\ Given(s, to) /\ UpTo(s, to)
          /\ \A x : Given(seen[o], x) => Given(s, x)
      BY <1>2, <2>2, <2>3, <3>1, AppendGiven
    <3>3. seen'[o] = s /\ array'[o] = a
      BY <1>1, <1>2, <1>3, <1>4, <2>5
    <3> HIDE DEF s
    <3>4. ASSUME ~jumped[o], NEW x \in lasting[o]
          PROVE  Given(s, x) \/ (x > to /\ to \in entries[a])
      <4>1. x \in Nat /\ x \in entries[a]
        BY <2>2, <2>3
      <4> QED
        BY <1>2, <2>2, <2>5, <3>2, <3>4, <4>1
    <3> QED
      BY <1>3, <1>4, <1>5, <2>2, <3>2, <3>3, <3>4 DEF ArrayLoop
  <2> QED
    BY <2>4, <2>5
<1> QED
  BY <1>0, <1>1, <1>3, <1>4, <1>5, <1>6, MoveC

(* Tuple::rewind and UserTypeValue::rewind.                                *)
LEMMA FieldsRewindC ==
  ASSUME CInv, kind \in FieldKinds, NEW o \in Obj, FieldsRewind(o)
  PROVE  CInv'
<1> DEFINE all == 1..NFields
           first == FieldAt(1)
<1>0. /\ BaseInv /\ kind \notin HashedKinds /\ kind \notin {"collection", "rows"}
      /\ array[o] = o /\ NFields \in Nat /\ NULL \notin Nat
  BY KindsApart, BoundsAssumption, NullIsNothing DEF CInv, BaseInv
<1>1. /\ all \in SUBSET Nat /\ first \in Nat \cup {NULL}
      /\ first = NULL => all = {}
      /\ first # NULL => first = 1
      /\ \A x \in all : x \in Nat /\ x >= 1
      /\ 1 \in 1..NFields + 1
  BY <1>0 DEF FieldAt
<1>2. /\ pos' = [pos EXCEPT ![o] = 1]
      /\ Rewound(o, all, first)
      /\ UNCHANGED <<kind, array, table, iter_curr, iter_temp>>
  BY <1>0 DEF FieldsRewind
<1>3. \A x : x \in all => x \in 1..NFields
  OBVIOUS
<1> HIDE DEF all, first
<1>4. /\ seen' \in [Obj -> Seq(Nat)] /\ lasting' \in [Obj -> SUBSET Nat]
      /\ jumped' \in [Obj -> BOOLEAN]
      /\ first = NULL => seen'[o] = <<>>
      /\ first # NULL => seen'[o] = <<first>>
      /\ lasting'[o] = all
      /\ \A p \in Obj : p # o => /\ seen'[p] = seen[p] /\ lasting'[p] = lasting[p]
                                 /\ jumped'[p] = jumped[p]
  <2>1. BaseInv /\ all \in SUBSET Nat /\ first \in Nat \cup {NULL} /\ Rewound(o, all, first)
    BY <1>0, <1>1, <1>2
  <2> QED
    BY <2>1, RewoundIs
<1>5. /\ pos' \in [Obj -> Nat] /\ pos'[o] = 1 /\ \A b \in Obj : b # o => pos'[b] = pos[b]
      /\ iter_curr' \in [Obj -> Nat \cup {NULL}] /\ iter_temp' \in [Obj -> Nat \cup {NULL}]
  BY <1>0, <1>2 DEF BaseInv
<1>6. FieldsLoop(o)'
  <2>1. CASE first = NULL
    <3>1. seen'[o] = <<>> /\ lasting'[o] = {}
      BY <1>1, <1>4, <2>1
    <3> QED
      BY <1>1, <1>5, <3>1, NothingGiven DEF FieldsLoop
  <2>2. CASE first # NULL
    <3>1. Increasing(<<1>>) /\ Given(<<1>>, 1) /\ UpTo(<<1>>, 1)
      BY FirstGiven
    <3>2. seen'[o] = <<1>>
      BY <1>1, <1>4, <2>2
    <3>3. \A x \in all : Given(<<1>>, x) \/ x > 1
      BY <1>1, <3>1
    <3> QED
      BY <1>1, <1>3, <1>4, <1>5, <3>1, <3>2, <3>3 DEF FieldsLoop
  <2> QED
    BY <2>1, <2>2
<1> QED
  BY <1>0, <1>2, <1>4, <1>5, <1>6, MoveC

(* Tuple::next and UserTypeValue::next.                                    *)
LEMMA FieldsNextC ==
  ASSUME CInv, kind \in FieldKinds, NEW o \in Obj, FieldsNext(o)
  PROVE  CInv'
<1> DEFINE p == pos[o]
           to == IF FieldAt(p) = NULL THEN p ELSE p + 1
           given == FieldAt(to)
<1>0. /\ BaseInv /\ kind \notin HashedKinds /\ kind \notin {"collection", "rows"}
      /\ array[o] = o /\ NFields \in Nat /\ NULL \notin Nat
  BY KindsApart, BoundsAssumption, NullIsNothing DEF CInv, BaseInv
<1>1. FieldsLoop(o)
  BY DEF CInv, LoopInv
<1>2. p \in 1..NFields + 1 /\ p \in Nat
  BY <1>0, <1>1 DEF FieldsLoop
<1>3. /\ to \in 1..NFields + 1 /\ to \in Nat
      /\ given \in Nat \cup {NULL}
      /\ given # NULL => given = to /\ to = p + 1
      /\ given = NULL => to = NFields + 1 /\ (p = NFields \/ p = NFields + 1)
  <2>1. CASE p \in 1..NFields
    <3>1. to = p + 1
      BY <1>0, <2>1 DEF FieldAt
    <3> QED
      BY <1>0, <2>1, <3>1 DEF FieldAt
  <2>2. CASE p = NFields + 1
    <3>1. to = p
      BY <1>0, <2>2 DEF FieldAt
    <3>2. given = NULL
      BY <1>0, <2>2, <3>1 DEF FieldAt
    <3> HIDE DEF to, given, p
    <3> QED
      BY <1>0, <2>2, <3>1, <3>2
  <2> QED
    BY <1>0, <1>2, <2>1, <2>2
<1>4. /\ pos' = [pos EXCEPT ![o] = to]
      /\ Moved(o, given)
      /\ UNCHANGED <<kind, array, table, iter_curr, iter_temp>>
  BY <1>0 DEF FieldsNext
<1> HIDE DEF to, given
<1>5. /\ seen' \in [Obj -> Seq(Nat)] /\ lasting' \in [Obj -> SUBSET Nat]
      /\ jumped' \in [Obj -> BOOLEAN]
      /\ given = NULL => seen'[o] = seen[o]
      /\ given # NULL => seen'[o] = Append(seen[o], given)
      /\ lasting' = lasting /\ jumped' = jumped
      /\ \A q \in Obj : q # o => seen'[q] = seen[q]
  BY <1>0, <1>3, <1>4, MovedIs
<1>6. /\ pos' \in [Obj -> Nat] /\ pos'[o] = to /\ \A b \in Obj : b # o => pos'[b] = pos[b]
      /\ iter_curr' \in [Obj -> Nat \cup {NULL}] /\ iter_temp' \in [Obj -> Nat \cup {NULL}]
  BY <1>0, <1>3, <1>4 DEF BaseInv
<1>7. FieldsLoop(o)'
  <2>1. /\ Increasing(seen[o]) /\ UpTo(seen[o], p) /\ lasting[o] \subseteq 1..NFields
        /\ \A x \in lasting[o] : Given(seen[o], x) \/ x > p
    BY <1>1 DEF FieldsLoop
  <2>2. seen[o] \in Seq(Nat) /\ \A n \in 1..Len(seen[o]) : seen[o][n] \in Nat
    <3>1. seen[o] \in Seq(Nat)
      BY <1>0, BaseFacts
    <3> QED
      BY <3>1
  <2>3. \A x \in lasting[o] : x \in Nat /\ x <= NFields
    BY <1>0, <2>1
  <2> HIDE DEF p
  <2>4. CASE given = NULL
    <3>1. UpTo(seen[o], to)
      BY <1>0, <1>2, <1>3, <2>1, <2>2, <2>4 DEF UpTo
    <3>2. \A x \in lasting[o] : Given(seen[o], x)
      BY <1>0, <1>3, <2>1, <2>3, <2>4
    <3>3. seen'[o] = seen[o]
      BY <1>5, <2>4
    <3> QED
      BY <1>3, <1>5, <1>6, <2>1, <3>1, <3>2, <3>3 DEF FieldsLoop
  <2>5. CASE given # NULL
    <3> DEFINE s == Append(seen[o], to)
    <3>1. Before(seen[o], to)
      BY <1>2, <1>3, <2>1, <2>2, <2>5 DEF UpTo, Before
    <3>2. /\ Increasing(s) /\ Given(s, to) /\ UpTo(s, to)
          /\ \A x : Given(seen[o], x) => Given(s, x)
      BY <1>3, <2>1, <2>2, <3>1, AppendGiven
    <3>3. seen'[o] = s
      BY <1>3, <1>5, <2>5
    <3> HIDE DEF s
    <3>4. \A x \in lasting[o] : Given(s, x) \/ x > to
      BY <1>2, <1>3, <2>1, <2>3, <2>5, <3>2
    <3> QED
      BY <1>3, <1>5, <1>6, <2>1, <3>2, <3>3, <3>4 DEF FieldsLoop
  <2> QED
    BY <2>4, <2>5
<1> QED
  BY <1>0, <1>4, <1>5, <1>6, <1>7, MoveC

-----------------------------------------------------------------------------
(* Nothing has been looped over, and only a page of rows holds entries.    *)
LEMMA CInit == Init => CInv
<1> SUFFICES ASSUME Init PROVE CInv
  OBVIOUS
<1>1. /\ kind \in Kinds /\ kind \in AllKinds
      /\ NFields \in Nat /\ NRows \in Nat /\ MaxEntries \in Nat /\ NRows <= MaxEntries
  BY KindsAssumption, BoundsAssumption, RowsFit DEF Init
<1>2. /\ array \in [Obj -> Obj]
      /\ kind # "rows" => \A o \in Obj : array[o] = o
  BY DEF Init
<1>3. /\ created \in 0..MaxEntries
      /\ entries \in [Obj -> SUBSET (1..created)]
      /\ kind # "rows" => \A a \in Obj : entries[a] = {}
  <2>1. CASE kind = "rows"
    BY <1>1, <2>1 DEF Init
  <2>2. CASE kind # "rows"
    BY <1>1, <2>2 DEF Init
  <2> QED
    BY <2>1, <2>2
<1>4. /\ seen = [o \in Obj |-> <<>>] /\ lasting = [o \in Obj |-> {}]
      /\ jumped = [o \in Obj |-> FALSE]
      /\ iter_curr = [a \in Obj |-> NULL] /\ iter_temp = [a \in Obj |-> NULL]
      /\ pos = [a \in Obj |-> IF kind \in FieldKinds THEN NFields + 1 ELSE 1]
      /\ key = [i \in Entry |-> NULL] /\ val = [i \in Entry |-> NULL]
      /\ next_free = [a \in Obj |-> 0]
  BY DEF Init
<1>5. BaseInv
  <2>1. seen \in [Obj -> Seq(Nat)] /\ lasting \in [Obj -> SUBSET Nat]
    BY <1>4, NothingGiven
  <2>2. pos \in [Obj -> Nat]
    BY <1>1, <1>4
  <2>3. /\ key \in [Entry -> Key \cup Nat \cup {NULL}] /\ val \in [Entry -> Value \cup {NULL}]
        /\ next_free \in [Obj -> Nat] /\ jumped \in [Obj -> BOOLEAN]
        /\ iter_curr \in [Obj -> Nat \cup {NULL}] /\ iter_temp \in [Obj -> Nat \cup {NULL}]
    BY <1>4
  <2> QED
    BY <1>1, <1>2, <1>3, <2>1, <2>2, <2>3 DEF BaseInv
<1>6. KeysOK /\ IndexesFresh
  BY <1>3, KindsApart DEF KeysOK, IndexesFresh
<1>7. ASSUME NEW o \in Obj
      PROVE  /\ kind \in HashedKinds => HashedLoop(o)
             /\ kind \in {"collection", "rows"} /\ Alone(o) => ArrayLoop(o)
             /\ kind \in FieldKinds => FieldsLoop(o)
  <2>1. /\ seen[o] = <<>> /\ lasting[o] = {} /\ iter_temp[o] = NULL
        /\ kind \in FieldKinds => pos[o] = NFields + 1
    BY <1>4
  <2>2. kind \in FieldKinds => pos[o] \in 1..NFields + 1
    BY <1>1, <2>1
  <2> QED
    BY <2>1, <2>2, NothingGiven DEF HashedLoop, ArrayLoop, FieldsLoop
<1> QED
  BY <1>5, <1>6, <1>7 DEF CInv, LoopInv

(* Every change of a container keeps the invariant.                        *)
LEMMA ChangeC ==
  ASSUME CInv, NEW o \in Obj, Change(o)
  PROVE  CInv'
<1>0. BaseInv /\ val \in [Entry -> Value \cup {NULL}]
  BY DEF CInv, BaseInv
<1>1. ASSUME NEW k \in Key, SetAdd(o, k) PROVE CInv'
  <2>1. /\ kind = "set" /\ Find(array[o], k) = {} /\ NewEntry(array[o], k, NULL)
        /\ UNCHANGED <<kind, array, next_free, iter, loop>>
    BY <1>1 DEF SetAdd
  <2> QED
    BY <2>1, NewEntryC, KindsApart
<1>2. ASSUME NEW k \in Key, SetRemove(o, k) PROVE CInv'
  <2>1. PICK i \in entries[array[o]] : Unlink(array[o], i) /\ Forget(array[o], i)
    BY <1>2 DEF SetRemove, Find
  <2>2. /\ kind = "set"
        /\ UNCHANGED <<kind, array, key, val, created, next_free, iter_curr, pos, seen, jumped>>
    BY <1>2 DEF SetRemove
  <2> QED
    BY <2>1, <2>2, HashedRemoveC, KindsApart
<1>3. ASSUME NEW k \in Key, MapRemove(o, k) PROVE CInv'
  <2>1. PICK i \in entries[array[o]] : Unlink(array[o], i) /\ Forget(array[o], i)
    BY <1>3 DEF MapRemove, Find
  <2>2. /\ kind = "map"
        /\ UNCHANGED <<kind, array, key, val, created, next_free, iter_curr, pos, seen, jumped>>
    BY <1>3 DEF MapRemove
  <2> QED
    BY <2>1, <2>2, HashedRemoveC, KindsApart
<1>4. ASSUME NEW k \in Key, NEW v \in Value, MapSet(o, k, v) PROVE CInv'
  <2>1. kind = "map" /\ UNCHANGED <<kind, array, next_free, iter, loop>>
    BY <1>4 DEF MapSet
  <2>2. CASE NewEntry(array[o], k, v)
    BY <2>1, <2>2, NewEntryC DEF FieldKinds
  <2>3. CASE \E i \in Find(array[o], k) : /\ val' = [val EXCEPT ![i] = v]
                                          /\ UNCHANGED <<entries, key, created>>
    <3>1. val' \in [Entry -> Value \cup {NULL}] /\ UNCHANGED <<entries, key, created>>
      BY <1>0, <2>3
    <3> QED
      BY <2>1, <3>1, ValueC
  <2> QED
    BY <1>4, <2>2, <2>3 DEF MapSet
<1>5. ASSUME NEW v \in Value, CollectionAdd(o, <<v>>) PROVE CInv'
  <2>1. <<v>> \in Seq(Value)
    OBVIOUS
  <2> QED
    BY <1>5, <2>1, CollectionAddC
<1>6. ASSUME NEW v \in Value, NEW w \in Value, CollectionAdd(o, <<v, w>>) PROVE CInv'
  <2>1. <<v, w>> \in Seq(Value)
    OBVIOUS
  <2> QED
    BY <1>6, <2>1, CollectionAddC
<1>7. ASSUME NEW n \in 0..MaxEntries, CollectionRemove(o, n) PROVE CInv'
  BY <1>7, CollectionRemoveC
<1>8. ASSUME NEW f \in 1..NFields, NEW v \in Value \cup {NULL}, kind \in FieldKinds,
             SetField(o, f, v)
      PROVE  CInv'
  <2>1. UNCHANGED <<kind, array, next_free, iter, loop>>
    BY <1>8 DEF SetField
  <2>2. CASE NewEntry(array[o], f, v)
    <3>1. f \in Nat
      BY BoundsAssumption
    <3> QED
      BY <1>8, <2>1, <2>2, <3>1, NewEntryC, KindsApart
  <2>3. CASE \E i \in Find(array[o], f) : /\ val' = [val EXCEPT ![i] = v]
                                          /\ UNCHANGED <<entries, key, created>>
    <3>1. val' \in [Entry -> Value \cup {NULL}] /\ UNCHANGED <<entries, key, created>>
      BY <1>0, <2>3
    <3> QED
      BY <2>1, <3>1, ValueC
  <2> QED
    BY <1>8, <2>2, <2>3 DEF SetField
<1>9. ASSUME NEW f \in 1..NFields, NEW v \in Value \cup {NULL},
             TupleSet(o, f, v) \/ UserTypeValueSet(o, f, v)
      PROVE  CInv'
  BY <1>8, <1>9, KindsApart DEF TupleSet, UserTypeValueSet
<1> QED
  BY <1>1, <1>2, <1>3, <1>4, <1>5, <1>6, <1>7, <1>9 DEF Change

(* So does every move of a loop.                                           *)
LEMMA LoopC ==
  ASSUME CInv, NEW o \in Obj, Loop(o)
  PROVE  CInv'
<1>1. CASE SetRewind(o) \/ MapRewind(o)
  BY <1>1, HashedRewindC, KindsApart DEF SetRewind, MapRewind
<1>2. CASE SetNext(o) \/ MapNext(o)
  BY <1>2, HashedNextC, KindsApart DEF SetNext, MapNext
<1>3. CASE CollectionRewind(o) \/ RowsRewind(o)
  BY <1>3, ArrayRewindC DEF CollectionRewind, RowsRewind
<1>4. CASE CollectionNext(o) \/ RowsNext(o)
  BY <1>4, ArrayNextC DEF CollectionNext, RowsNext
<1>5. CASE TupleRewind(o) \/ UserTypeValueRewind(o)
  BY <1>5, FieldsRewindC, KindsApart DEF TupleRewind, UserTypeValueRewind
<1>6. CASE TupleNext(o) \/ UserTypeValueNext(o)
  BY <1>6, FieldsNextC, KindsApart DEF TupleNext, UserTypeValueNext
<1> QED
  BY <1>1, <1>2, <1>3, <1>4, <1>5, <1>6 DEF Loop

(* The invariant of the loops holds throughout.                            *)
LEMMA LoopInvariant == Spec => []CInv
<1>1. CInv /\ [Next]_vars => CInv'
  <2> SUFFICES ASSUME CInv, [Next]_vars PROVE CInv'
    OBVIOUS
  <2>1. CASE Next
    BY <2>1, ChangeC, LoopC DEF Next
  <2>2. CASE UNCHANGED vars
    <3>1. /\ UNCHANGED <<kind, array, entries, key, created, next_free, iter, loop>>
          /\ val' = val
      BY <2>2 DEF vars, table
    <3>2. val' \in [Entry -> Value \cup {NULL}]
      BY <3>1 DEF CInv, BaseInv
    <3> QED
      BY <3>1, <3>2, ValueC
  <2> QED
    BY <2>1, <2>2
<1> QED
  BY <1>1, CInit, PTL DEF Spec

(* The index of an element of a Collection is never given to another while *)
(* it is in use, and later elements have higher indexes, whatever is added *)
(* and removed (Collection::add appends at nNextFreeElement).              *)
THEOREM IndexesNeverReused == Spec => []IndexesFresh
<1>1. CInv => IndexesFresh
  BY DEF CInv
<1> QED
  BY <1>1, LoopInvariant, PTL

(* A loop over a Set, Map, Collection, Tuple, UserTypeValue or Rows is     *)
(* given nothing twice and everything in its order, whatever its body adds *)
(* and removes.                                                            *)
THEOREM LoopsInOrder == Spec => []LoopOrder
<1>1. CInv => LoopOrder
  <2> SUFFICES ASSUME CInv, NEW o \in Obj, Alone(o)
               PROVE  \A n \in 1..Len(seen[o]) - 1 : seen[o][n] < seen[o][n + 1]
    BY DEF LoopOrder
  <2>1. kind \in HashedKinds \/ kind \in {"collection", "rows"} \/ kind \in FieldKinds
    BY DEF CInv, BaseInv, AllKinds, HashedKinds, FieldKinds
  <2>2. Increasing(seen[o])
    BY <2>1 DEF CInv, LoopInv, HashedLoop, ArrayLoop, FieldsLoop
  <2> QED
    BY <2>2 DEF Increasing
<1> QED
  BY <1>1, LoopInvariant, PTL

(* A loop that has ended was given everything that lasted from its rewind  *)
(* to its end.                                                             *)
THEOREM LoopsComplete == Spec => []LoopComplete
<1>1. CInv => LoopComplete
  <2> SUFFICES ASSUME CInv, NEW o \in Obj, ~Valid(o), Alone(o), ~jumped[o],
                      NEW x \in lasting[o]
               PROVE  Given(seen[o], x)
    BY DEF LoopComplete, Given
  <2>0. BaseInv /\ LoopInv
    BY DEF CInv
  <2>1. CASE kind \in HashedKinds
    <3>1. HashedLoop(o) /\ iter_curr[o] = NULL
      BY <2>0, <2>1, KindsApart DEF LoopInv, Valid, BaseInv
    <3> QED
      BY <3>1 DEF HashedLoop
  <2>2. CASE kind \in {"collection", "rows"}
    <3>1. PICK a \in Obj : a = array[o]
      BY <2>0, BaseFacts
    <3>2. ArrayLoop(o) /\ ArrayCurrent(a) = NULL
      BY <2>0, <2>2, <3>1, KindsApart DEF LoopInv, Valid
    <3>3. pos[a] \notin entries[a]
      <4>1. pos[a] \in Nat /\ NULL \notin Nat
        BY <2>0, BaseFacts
      <4> QED
        BY <2>0, <3>2, <4>1, ArrayCurrentIs
    <3> QED
      BY <3>1, <3>2, <3>3 DEF ArrayLoop
  <2>3. CASE kind \in FieldKinds
    <3>1. FieldsLoop(o) /\ FieldAt(pos[o]) = NULL /\ NULL \notin Nat /\ NFields \in Nat
      BY <2>0, <2>3, KindsApart, NullIsNothing, BoundsAssumption DEF LoopInv, Valid, BaseInv
    <3>2. pos[o] \in 1..NFields + 1 /\ pos[o] \notin 1..NFields
      BY <3>1 DEF FieldsLoop, FieldAt
    <3>3. x \in 1..NFields /\ (Given(seen[o], x) \/ x > pos[o])
      BY <3>1 DEF FieldsLoop
    <3> QED
      BY <3>1, <3>2, <3>3
  <2> QED
    BY <2>0, <2>1, <2>2, <2>3 DEF BaseInv, AllKinds, HashedKinds, FieldKinds
<1> QED
  BY <1>1, LoopInvariant, PTL

-----------------------------------------------------------------------------
(* A function that maps S onto T one to one shows that T has as many       *)
(* elements as S.                                                          *)
LEMMA SameCount ==
  ASSUME NEW S, IsFiniteSet(S), NEW T, NEW f \in [S -> T],
         \A x, y \in S : f[x] = f[y] => x = y,
         \A t \in T : \E x \in S : f[x] = t
  PROVE  IsFiniteSet(T) /\ Cardinality(T) = Cardinality(S)
<1>1. f \in Injection(S, T)
  BY DEF Injection, IsInjective
<1>2. f \in Surjection(S, T)
  BY DEF Surjection
<1>3. ExistsBijection(S, T)
  BY <1>1, <1>2 DEF ExistsBijection, Bijection
<1> QED
  BY <1>3, FS_Bijection

(* A table holds finitely many entries.                                    *)
LEMMA FiniteEntries ==
  ASSUME BaseInv, NEW a \in Obj
  PROVE  \A S \in SUBSET entries[a] : IsFiniteSet(S) /\ Cardinality(S) \in Nat
<1>1. entries[a] \subseteq 1..created /\ created \in Nat
  BY BaseFacts DEF BaseInv
<1>2. IsFiniteSet(1..created)
  BY <1>1, FS_Interval
<1> QED
  BY <1>1, <1>2, FS_Subset, FS_CardinalityType

(* A set holds as many elements as its table has entries.                  *)
LEMMA SetCount ==
  ASSUME CInv, kind = "set", NEW o \in Obj
  PROVE  /\ IsFiniteSet(Contents(o))
         /\ Cardinality(Contents(o)) = Cardinality(entries[array[o]])
<1>1. PICK a \in Obj : a = array[o]
  BY BaseFacts DEF CInv
<1> DEFINE S == entries[a]
           T == {<<key[i]>> : i \in S}
           f == [i \in S |-> <<key[i]>>]
<1>2. Contents(o) = T
  BY <1>1 DEF Contents, FieldKinds
<1>3. IsFiniteSet(S)
  BY FiniteEntries DEF CInv
<1>4. \A i, j \in S : key[i] = key[j] => i = j
  BY DEF CInv, KeysOK
<1>5. f \in [S -> T]
  OBVIOUS
<1>6. \A x, y \in S : f[x] = f[y] => x = y
  BY <1>4
<1>7. \A t \in T : \E x \in S : f[x] = t
  OBVIOUS
<1>8. Cardinality(T) = Cardinality(S) /\ IsFiniteSet(T)
  <2> HIDE DEF f, S, T
  <2> QED
    BY <1>3, <1>5, <1>6, <1>7, SameCount
<1> QED
  BY <1>1, <1>2, <1>8

(* Two sets.  Equal counts make the one direction that is looked at enough. *)
LEMMA SetsEqual ==
  ASSUME CInv, kind = "set", NEW o \in Obj, NEW p \in Obj
  PROVE  Compare(o, p) <=> Contents(o) = Contents(p)
<1> DEFINE E(x) == entries[array[x]]
<1>1. /\ Contents(o) = {<<key[i]>> : i \in E(o)}
      /\ Contents(p) = {<<key[i]>> : i \in E(p)}
  BY DEF Contents, FieldKinds
<1>2. Compare(o, p) <=> /\ Cardinality(E(o)) = Cardinality(E(p))
                        /\ \A i \in E(o) : \E j \in E(p) : key[j] = key[i]
  <2>1. Compare(o, p) <=> SetCompare(o, p)
    BY DEF Compare, FieldKinds
  <2> QED
    BY <2>1 DEF SetCompare, Find
<1>3. /\ IsFiniteSet(Contents(o)) /\ Cardinality(Contents(o)) = Cardinality(E(o))
      /\ IsFiniteSet(Contents(p)) /\ Cardinality(Contents(p)) = Cardinality(E(p))
  BY SetCount
<1>4. Contents(o) \subseteq Contents(p) <=> \A i \in E(o) : \E j \in E(p) : key[j] = key[i]
  <2> HIDE DEF E
  <2>1. ASSUME Contents(o) \subseteq Contents(p), NEW i \in E(o)
        PROVE  \E j \in E(p) : key[j] = key[i]
    <3>1. <<key[i]>> \in Contents(p)
      BY <1>1, <2>1
    <3>2. PICK j \in E(p) : <<key[i]>> = <<key[j]>>
      BY <1>1, <3>1
    <3> QED
      BY <3>2
  <2>2. ASSUME \A i \in E(o) : \E j \in E(p) : key[j] = key[i], NEW c \in Contents(o)
        PROVE  c \in Contents(p)
    <3>1. PICK i \in E(o) : c = <<key[i]>>
      BY <1>1
    <3>2. PICK j \in E(p) : key[j] = key[i]
      BY <2>2
    <3> QED
      BY <1>1, <3>1, <3>2
  <2> QED
    BY <2>1, <2>2
<1>5. Contents(o) \subseteq Contents(p) /\ Cardinality(E(o)) = Cardinality(E(p))
        => Contents(o) = Contents(p)
  BY <1>3, FS_Subset
<1> QED
  BY <1>2, <1>3, <1>4, <1>5

(* The fields of F before field k.                                         *)
FieldsBefore(F, k) == {f \in F : f < k}

(* Fields set in the order of the type: the rank of a value among the      *)
(* values is the rank of its field among the fields that were set.         *)
LEMMA RankOfField ==
  ASSUME CInv, kind \in FieldKinds, NEW o \in Obj, FieldsSetInOrder(o)
  PROVE  /\ IsFiniteSet(FieldsSet(o)) /\ Cardinality(FieldsSet(o)) = Cardinality(entries[array[o]])
         /\ \A i, j \in entries[array[o]] : key[i] = key[j] => i = j
         /\ \A i \in entries[array[o]] :
              /\ key[i] \in Nat
              /\ Rank(array[o], i) = Cardinality(FieldsBefore(FieldsSet(o), key[i]))
<1>0. BaseInv
  BY DEF CInv
<1>1. PICK a \in Obj : a = array[o]
  BY <1>0, BaseFacts
<1> DEFINE S == entries[a]
           F == FieldsSet(o)
<1>2. /\ S \in SUBSET Nat /\ \A i \in S : i \in Nat /\ key[i] \in Nat
      /\ \A i, j \in S : i < j => key[i] < key[j]
      /\ F = {key[i] : i \in S}
  <2>1. \A i \in S : key[i] \in 1..NFields
    BY DEF CInv, KeysOK
  <2>2. \A i \in S : key[i] \in Nat
    BY <2>1, BoundsAssumption
  <2>3. S \in SUBSET Nat
    BY <1>0, BaseFacts
  <2> QED
    BY <1>1, <2>2, <2>3 DEF FieldsSetInOrder, FieldsSet
<1>3. \A T \in SUBSET S : IsFiniteSet(T)
  BY <1>0, FiniteEntries
<1> HIDE DEF S, F
<1>4. \A i, j \in S : key[i] = key[j] => i = j
  BY <1>2
<1>5. \A i, j \in S : key[i] < key[j] => i < j
  BY <1>2
<1>6. ASSUME NEW T \in SUBSET S, NEW G, G = {key[i] : i \in T}
      PROVE  IsFiniteSet(G) /\ Cardinality(G) = Cardinality(T)
  <2> DEFINE f == [i \in T |-> key[i]]
  <2>1. f \in [T -> G] /\ \A x, y \in T : f[x] = f[y] => x = y
    BY <1>4, <1>6
  <2>2. \A t \in G : \E x \in T : f[x] = t
    BY <1>6
  <2> HIDE DEF f
  <2> QED
    BY <1>3, <2>1, <2>2, SameCount
<1>7. IsFiniteSet(F) /\ Cardinality(F) = Cardinality(S)
  BY <1>2, <1>6
<1>8. ASSUME NEW i \in S
      PROVE  Rank(a, i) = Cardinality(FieldsBefore(F, key[i]))
  <2> DEFINE T == {j \in S : j < i}
             G == {f \in F : f < key[i]}
  <2>1. \A g : g \in G => \E j \in T : g = key[j]
    BY <1>2, <1>5
  <2>2. \A j \in T : key[j] \in G
    BY <1>2
  <2>3. G = {key[j] : j \in T}
    <3> HIDE DEF T, G
    <3> QED
      BY <2>1, <2>2
  <2>4. Rank(a, i) = Cardinality(T)
    BY DEF Rank, S
  <2>5. T \in SUBSET S
    OBVIOUS
  <2> HIDE DEF T, G
  <2>6. Cardinality(G) = Cardinality(T)
    BY <1>6, <2>3, <2>5
  <2> QED
    BY <2>4, <2>6 DEF G, FieldsBefore
<1> QED
  BY <1>1, <1>2, <1>4, <1>7, <1>8 DEF S, F

(* Different fields have different ranks.                                  *)
LEMMA RankTells ==
  ASSUME NEW F \in SUBSET Nat, IsFiniteSet(F), NEW k \in F, NEW m \in F,
         Cardinality(FieldsBefore(F, k)) = Cardinality(FieldsBefore(F, m))
  PROVE  k = m
<1>1. ASSUME NEW x \in F, NEW y \in F, x < y,
             Cardinality(FieldsBefore(F, x)) = Cardinality(FieldsBefore(F, y))
      PROVE  FALSE
  <2> DEFINE A == FieldsBefore(F, x)
             B == FieldsBefore(F, y)
  <2>1. A \in SUBSET B /\ B \in SUBSET F /\ x \in B /\ x \notin A
    <3>1. x < y /\ x \in Nat /\ y \in Nat /\ ~(x < x) /\ \A f \in F : f \in Nat
      BY <1>1
    <3>2. \A f \in F : f < x => f < y
      BY <3>1
    <3> QED
      BY <3>1, <3>2 DEF FieldsBefore
  <2>2. Cardinality(B) = Cardinality(A)
    BY <1>1
  <2> HIDE DEF A, B
  <2>3. IsFiniteSet(B)
    BY <2>1, FS_Subset
  <2>4. B = A
    BY <2>1, <2>2, <2>3, FS_Subset
  <2> QED
    BY <2>1, <2>4
<1>2. k \in Nat /\ m \in Nat
  OBVIOUS
<1>3. ~(k < m) /\ ~(m < k)
  BY <1>1
<1> QED
  BY <1>2, <1>3

(* Two tuples or user type values with the same fields set in the order of *)
(* the type: values of one rank belong to one field.                       *)
LEMMA FieldsEqual ==
  ASSUME CInv, kind \in FieldKinds, NEW o \in Obj, NEW p \in Obj,
         FieldsSet(o) = FieldsSet(p), FieldsSetInOrder(o), FieldsSetInOrder(p)
  PROVE  Compare(o, p) <=> Contents(o) = Contents(p)
<1> DEFINE F == FieldsSet(o)
           E(x) == entries[array[x]]
<1>1. /\ IsFiniteSet(F)
      /\ Cardinality(E(o)) = Cardinality(F) /\ Cardinality(E(p)) = Cardinality(F)
      /\ \A i, j \in E(o) : key[i] = key[j] => i = j
      /\ \A i, j \in E(p) : key[i] = key[j] => i = j
      /\ \A i \in E(o) : key[i] \in Nat /\ Rank(array[o], i) = Cardinality(FieldsBefore(F, key[i]))
      /\ \A i \in E(p) : key[i] \in Nat /\ Rank(array[p], i) = Cardinality(FieldsBefore(F, key[i]))
  <2>1. ASSUME NEW x \in Obj, FieldsSetInOrder(x), FieldsSet(x) = F
        PROVE  /\ IsFiniteSet(F) /\ Cardinality(F) = Cardinality(E(x))
               /\ \A i, j \in E(x) : key[i] = key[j] => i = j
               /\ \A i \in E(x) :
                    /\ key[i] \in Nat
                    /\ Rank(array[x], i) = Cardinality(FieldsBefore(F, key[i]))
    BY <2>1, RankOfField
  <2> QED
    BY <2>1
<1>2. F = {key[i] : i \in E(o)} /\ F = {key[i] : i \in E(p)}
  BY DEF FieldsSet
<1>3. F \in SUBSET Nat
  BY <1>1, <1>2
<1>4. /\ \A c : c \in Contents(o) <=>
              \E i \in E(o) : val[i] # NULL /\ c = <<key[i], val[i]>>
      /\ \A c : c \in Contents(p) <=>
              \E i \in E(p) : val[i] # NULL /\ c = <<key[i], val[i]>>
  BY KindsApart DEF Contents, FieldKinds
<1>5. Compare(o, p) <=> FieldsCompare(o, p)
  BY DEF Compare, FieldKinds
<1>6. Compare(o, p) <=>
        /\ Cardinality(E(o)) = Cardinality(E(p))
        /\ \A i \in E(o), j \in E(p) :
             Rank(array[o], i) = Rank(array[p], j) => val[i] = val[j]
  BY <1>5 DEF FieldsCompare
<1> HIDE DEF F, E
<1>7. \A i \in E(o), j \in E(p) : Rank(array[o], i) = Rank(array[p], j) <=> key[i] = key[j]
  <2> SUFFICES ASSUME NEW i \in E(o), NEW j \in E(p)
               PROVE  Rank(array[o], i) = Rank(array[p], j) <=> key[i] = key[j]
    OBVIOUS
  <2>1. key[i] \in F /\ key[j] \in F
    BY <1>2
  <2>2. Rank(array[o], i) = Rank(array[p], j) => key[i] = key[j]
    BY <1>1, <1>3, <2>1, RankTells
  <2>3. key[i] = key[j] => Rank(array[o], i) = Rank(array[p], j)
    BY <1>1
  <2> QED
    BY <2>2, <2>3
<1>8. Compare(o, p) <=> \A i \in E(o), j \in E(p) : key[i] = key[j] => val[i] = val[j]
  BY <1>1, <1>6, <1>7
<1>9. ASSUME \A i \in E(o), j \in E(p) : key[i] = key[j] => val[i] = val[j]
      PROVE  Contents(o) = Contents(p)
  <2>1. ASSUME NEW c \in Contents(o) PROVE c \in Contents(p)
    <3>1. PICK i \in E(o) : val[i] # NULL /\ c = <<key[i], val[i]>>
      BY <1>4
    <3>2. PICK j \in E(p) : key[j] = key[i]
      BY <1>2
    <3>3. val[j] = val[i]
      BY <1>9, <3>2
    <3> QED
      BY <1>4, <3>1, <3>2, <3>3
  <2>2. ASSUME NEW c \in Contents(p) PROVE c \in Contents(o)
    <3>1. PICK j \in E(p) : val[j] # NULL /\ c = <<key[j], val[j]>>
      BY <1>4
    <3>2. PICK i \in E(o) : key[i] = key[j]
      BY <1>2
    <3>3. val[j] = val[i]
      BY <1>9, <3>2
    <3> QED
      BY <1>4, <3>1, <3>2, <3>3
  <2> QED
    BY <2>1, <2>2
<1>10. ASSUME Contents(o) = Contents(p), NEW i \in E(o), NEW j \in E(p), key[i] = key[j]
       PROVE  val[i] = val[j]
  <2>1. CASE val[i] # NULL
    <3>1. <<key[i], val[i]>> \in Contents(p)
      BY <1>4, <1>10, <2>1
    <3>2. PICK m \in E(p) : <<key[i], val[i]>> = <<key[m], val[m]>>
      BY <1>4, <3>1
    <3>3. key[m] = key[i] /\ val[m] = val[i]
      BY <3>2
    <3>4. m = j
      BY <1>1, <1>10, <3>3
    <3> QED
      BY <3>3, <3>4
  <2>2. CASE val[j] # NULL
    <3>1. <<key[j], val[j]>> \in Contents(o)
      BY <1>4, <1>10, <2>2
    <3>2. PICK m \in E(o) : <<key[j], val[j]>> = <<key[m], val[m]>>
      BY <1>4, <3>1
    <3>3. key[m] = key[j] /\ val[m] = val[j]
      BY <3>2
    <3>4. m = i
      BY <1>1, <1>10, <3>3
    <3> QED
      BY <3>3, <3>4
  <2> QED
    BY <2>1, <2>2
<1> QED
  BY <1>8, <1>9, <1>10

(* Two sets compare equal exactly when they hold the same elements, and    *)
(* two tuples or user type values with the same fields set in the order of *)
(* the type exactly when their fields are equal.                           *)
THEOREM ComparisonExact == Spec => []EqualExact
<1>1. CInv => EqualExact
  BY SetsEqual, FieldsEqual DEF EqualExact
<1> QED
  BY <1>1, LoopInvariant, PTL

=============================================================================
