----------------------------- MODULE HashTable -----------------------------
(***************************************************************************)
(* The table behind Set and the keys of Map: util/uthash.h with the hash   *)
(* and the comparison of util/hash.c, which call the handlers of the class *)
(* of the key.  Which of them a class has under PHP 8 is in its define     *)
(* function: compare_objects and, for some, hash_value are only assigned   *)
(* under PHP 7, and a class whose table is a plain zend_object_handlers    *)
(* has no room for hash_value.                                             *)
(*                                                                         *)
(* An entry is a number, its key an integer (the value of the PHP object   *)
(* it points to).                                                          *)
(***************************************************************************)
EXTENDS Integers, Sequences, FiniteSets, SequencesExt

CONSTANTS Value,           \* the integers used as keys
          Classes,         \* the classes a behaviour picks one of
          MaxEntries,      \* bound: entries in the table
          MaxDumped,       \* bound: entries in it that were dumped
          InitialBuckets,  \* HASH_INITIAL_NUM_BUCKETS
          Threshold,       \* HASH_BKT_CAPACITY_THRESH
          Golden           \* 0x9e3779b9, modulo any number of buckets reached

ASSUME TableAssumption == /\ Value \subseteq Int /\ {MaxEntries, MaxDumped} \subseteq Nat
                          /\ {InitialBuckets, Threshold} \subseteq Nat \ {0} /\ Golden \in Nat

VARIABLES cls,      \* the class of the keys
          list,     \* the entries in the order they were added (hh.next)
          buckets,  \* <<>> without table, or the chain of every bucket, head first
          mult,     \* expand_mult of every bucket
          expand,   \* [ineff: ineff_expands, no: noexpand]
          key,      \* the value an entry's key has now
          hashv,    \* hh.hashv: the hash it had when the entry was added
          dumped,   \* entries whose key was given a property table (var_dump)
          last      \* the last call and its answer

table == <<list, buckets, mult, expand, hashv>>
vars == <<cls, table, key, dumped, last>>

Entry == 1 .. MaxEntries
NoCall == [op |-> "none", v |-> 0, r |-> FALSE]

(***************************************************************************)
(* The handlers of the classes under PHP 8: "own", the standard ones of    *)
(* PHP ("std"), none, or whatever memory follows the table ("beyond").     *)
(***************************************************************************)
Handlers(compare, hash) == [compare |-> compare, hash |-> hash]

Bigint_define    == Handlers("own", "own")
Varint_define    == Handlers("std", "own")
Decimal_define   == Handlers("std", "own")
Float_define     == Handlers("std", "own")
Duration_define  == Handlers("std", "own")
Date_define      == Handlers("std", "none")
Uuid_define      == Handlers("std", "none")
Blob_define      == Handlers("std", "none")
Inet_define      == Handlers("std", "none")
Smallint_define  == Handlers("own", "beyond")
Tinyint_define   == Handlers("own", "beyond")
Time_define      == Handlers("own", "beyond")
Timestamp_define == Handlers("own", "beyond")
Timeuuid_define  == Handlers("own", "beyond")

\* The PHP types int, string, bool and double need no handler.
HandlersOf(c) ==
  CASE c = "Bigint"    -> Bigint_define    [] c = "Varint"   -> Varint_define
    [] c = "Decimal"   -> Decimal_define   [] c = "Float"    -> Float_define
    [] c = "Duration"  -> Duration_define  [] c = "Date"     -> Date_define
    [] c = "Uuid"      -> Uuid_define      [] c = "Blob"     -> Blob_define
    [] c = "Inet"      -> Inet_define      [] c = "Smallint" -> Smallint_define
    [] c = "Tinyint"   -> Tinyint_define   [] c = "Time"     -> Time_define
    [] c = "Timestamp" -> Timestamp_define [] c = "Timeuuid" -> Timeuuid_define
    [] OTHER           -> Handlers("own", "own")

Abs(n) == IF n < 0 THEN -n ELSE n

\* value ^ (value >> 32), of a number within 32 bits
php_driver_bigint_hash(v) == IF v < 0 THEN -v - 1 ELSE v
\* the limbs of the magnitude: none for 0, one here; the sign is not hashed
php_driver_mpz_hash(v) == IF v = 0 THEN 0 ELSE php_driver_bigint_hash(Abs(v)) + Golden

php_driver_value_hash(c, v) ==
  IF c \in {"Varint", "Decimal"} THEN php_driver_mpz_hash(v) ELSE php_driver_bigint_hash(v)

\* zend_std_compare_objects: two objects without property table are equal,
\* as no class declares a property; one with and one without are not.
Equal(e, v) == IF HandlersOf(cls).compare = "own" THEN key[e] = v ELSE e \notin dumped

NumBuckets == Len(buckets)
Bucket(n, h) == (h % n) + 1

HASH_FIND_HeadOnly(v) ==
  IF buckets = <<>> THEN 0
  ELSE LET chain == buckets[Bucket(NumBuckets, php_driver_value_hash(cls, v))]
       IN  IF chain # <<>> /\ Equal(chain[1], v) THEN chain[1] ELSE 0

\* HASH_FIND_IN_BKT: the first entry of the chain the comparison takes for v,
\* whatever its hash; 0 for NULL.
HASH_FIND(v) ==
  IF buckets = <<>> THEN 0
  ELSE LET chain == buckets[Bucket(NumBuckets, php_driver_value_hash(cls, v))]
           hits  == {i \in 1 .. Len(chain) : Equal(chain[i], v)}
       IN  IF hits = {} THEN 0 ELSE chain[CHOOSE i \in hits : \A j \in hits : i <= j]

HASH_MAKE_TABLE == [buckets |-> [b \in 1 .. InitialBuckets |-> <<>>],
                    mult |-> [b \in 1 .. InitialBuckets |-> 0],
                    expand |-> [ineff |-> 0, no |-> FALSE]]

\* What is taken from chain c, beginning at its head, and put before what was
\* taken so far: the entries at the indexes I, the last of them first.
TakenFromHead(c, I) ==
  [k \in 1 .. Cardinality(I) |->
     c[CHOOSE i \in I : Cardinality({j \in I : j > i}) = k - 1]]

\* Twice the buckets; every chain is taken apart from its head, so that what
\* stays together is reversed.  Two expansions in a row that leave more than
\* half of the items in chains longer than ideal are the last.
HASH_EXPAND_BUCKETS(t, hs, items) ==
  LET n     == 2 * Len(t.buckets)
      ideal == (items \div n) + (IF items % n = 0 THEN 0 ELSE 1)
      chain == [b \in 1 .. n |->
                  LET old == t.buckets[Bucket(Len(t.buckets), b - 1)]
                  IN  TakenFromHead(old, {i \in 1 .. Len(old) : Bucket(n, hs[old[i]]) = b})]
      Excess(b) == IF Len(chain[b]) > ideal THEN Len(chain[b]) - ideal ELSE 0
      nonideal == SumFunction([b \in 1 .. n |-> Excess(b)])
      ineff == IF nonideal > items \div 2 THEN t.expand.ineff + 1 ELSE 0
  IN  [buckets |-> chain,
       mult |-> [b \in 1 .. n |-> IF Len(chain[b]) > ideal THEN Len(chain[b]) \div ideal ELSE 0],
       expand |-> [ineff |-> ineff, no |-> t.expand.no \/ ineff > 1]]

\* Entry e, with hash hs[e], becomes the head of its bucket.
HASH_ADD_TO_BKT(t, hs, e, items) ==
  LET b == Bucket(Len(t.buckets), hs[e])
      u == [t EXCEPT !.buckets[b] = <<e>> \o @]
  IN  IF Len(u.buckets[b]) >= (u.mult[b] + 1) * Threshold /\ ~u.expand.no
      THEN HASH_EXPAND_BUCKETS(u, hs, items) ELSE u

SetTable(t) == buckets' = t.buckets /\ mult' = t.mult /\ expand' = t.expand

HASH_ADD_KEYPTR(e, v) ==
  LET t  == IF list = <<>> THEN HASH_MAKE_TABLE
                           ELSE [buckets |-> buckets, mult |-> mult, expand |-> expand]
      hs == [hashv EXCEPT ![e] = php_driver_value_hash(cls, v)]
  IN  /\ list' = Append(list, e)
      /\ hashv' = hs
      /\ SetTable(HASH_ADD_TO_BKT(t, hs, e, Len(list) + 1))

\* The bucket is found by the hash the entry was added with, not by its key.
\* The variant hashes the key again.
HASH_DELETE_Rehash(e) ==
  /\ list' = RemoveFirst(list, e)
  /\ LET b == Bucket(NumBuckets, php_driver_value_hash(cls, key[e]))
     IN  buckets' = IF Len(list) = 1 THEN <<>> ELSE [buckets EXCEPT ![b] = RemoveFirst(@, e)]
  /\ mult' = (IF Len(list) = 1 THEN <<>> ELSE mult) /\ hashv' = [hashv EXCEPT ![e] = 0] /\ UNCHANGED expand
HASH_DELETE(e) ==
  /\ list' = RemoveFirst(list, e)
  /\ IF Len(list) = 1
     THEN buckets' = <<>> /\ mult' = <<>> /\ expand' = [ineff |-> 0, no |-> FALSE]
     ELSE /\ buckets' = [buckets EXCEPT ![Bucket(NumBuckets, hashv[e])] = RemoveFirst(@, e)]
          /\ UNCHANGED <<mult, expand>>
  /\ hashv' = [hashv EXCEPT ![e] = 0]
-----------------------------------------------------------------------------
Answer(op, v, r) == last' = [op |-> op, v |-> v, r |-> r]

Init == /\ cls \in Classes
        /\ list = <<>> /\ buckets = <<>> /\ mult = <<>>
        /\ expand = [ineff |-> 0, no |-> FALSE]
        /\ key = [e \in Entry |-> 0] /\ hashv = [e \in Entry |-> 0] /\ dumped = {}
        /\ last = NoCall

\* Without a hash_value handler the call ends the process; an empty table
\* is searched without it.
Crashed == last.op = "crash"
Hashes(op, v) == /\ ~Crashed
                 /\ HandlersOf(cls).hash = "own" \/ (op # "add" /\ list = <<>>)

Crash(op, v) ==
  /\ ~Crashed /\ ~Hashes(op, v)
  /\ Answer("crash", v, FALSE)
  /\ UNCHANGED <<cls, table, key, dumped>>

php_driver_set_add(v) ==
  /\ Hashes("add", v)
  /\ \/ HASH_FIND(v) # 0 /\ UNCHANGED <<table, key, dumped>>
     \/ /\ HASH_FIND(v) = 0
        /\ \E e \in Entry \ Range(list) :
             /\ \A f \in Entry \ Range(list) : e <= f
             /\ HASH_ADD_KEYPTR(e, v)
             /\ key' = [key EXCEPT ![e] = v]
             /\ UNCHANGED dumped
  /\ Answer("add", v, TRUE)
  /\ UNCHANGED cls

php_driver_set_del(v) ==
  /\ Hashes("remove", v)
  /\ LET e == HASH_FIND(v)
     IN  /\ IF e = 0 THEN UNCHANGED <<table, key, dumped>>
            ELSE HASH_DELETE(e) /\ key' = [key EXCEPT ![e] = 0] /\ dumped' = dumped \ {e}
         /\ Answer("remove", v, e # 0)
  /\ UNCHANGED cls

php_driver_set_has(v) ==
  /\ Hashes("has", v)
  /\ Answer("has", v, HASH_FIND(v) # 0)
  /\ UNCHANGED <<cls, table, key, dumped>>

\* var_dump, print_r or == of an element fills in its property table, which
\* matters to the standard comparison.
Dump(e) ==
  /\ HandlersOf(cls).compare = "std" /\ e \in Range(list)
  /\ Cardinality(dumped) < MaxDumped
  /\ dumped' = dumped \cup {e}
  /\ last' = NoCall
  /\ UNCHANGED <<cls, table, key>>

\* The program still holds the object it added: Decimal::add multiplies the
\* unscaled value of an operand in place (done to an element once at most).
ChangeKey(e) ==
  /\ cls = "Decimal" /\ e \in Range(list) /\ key[e] \in Value
  /\ key' = [key EXCEPT ![e] = 10 * @]
  /\ last' = NoCall
  /\ UNCHANGED <<cls, table, dumped>>

Next == \/ \E v \in Value : php_driver_set_add(v) \/ php_driver_set_del(v) \/ php_driver_set_has(v)
        \/ \E v \in Value, op \in {"add", "remove", "has"} : Crash(op, v)
        \/ \E e \in Entry : Dump(e) \/ ChangeKey(e)

Spec == Init /\ [][Next]_vars
-----------------------------------------------------------------------------
\* The table is what HASH_FSCK checks after every change in a debug build:
\* every entry is in the bucket of its recorded hash, once, and nowhere else,
\* also when the key was changed while it was in the table, the table was
\* expanded since, and the entry is deleted later.
HASH_FSCK ==
  /\ \A b \in 1 .. NumBuckets :
       /\ IsInjective(buckets[b])
       /\ Range(buckets[b]) = {e \in Range(list) : Bucket(NumBuckets, hashv[e]) = b}
  /\ IsInjective(list) /\ (list = <<>> <=> buckets = <<>>)

\* For keys whose class compares and hashes them, the table answers every
\* call of add, remove and has as a set of values does, through collisions,
\* expansions and the freeing of the table with its last entry.
Own == HandlersOf(cls) = Handlers("own", "own")
Set == INSTANCE ValueSet WITH
         elements <- IF Own THEN {key[e] : e \in Range(list)} ELSE {},
         last     <- IF Own THEN last ELSE NoCall
ImplementsSet == Set!Spec
=============================================================================
