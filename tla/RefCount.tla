------------------------------ MODULE RefCount ------------------------------
(***************************************************************************)
(* The reference counts of ext/util/ref.c.  A php_driver_ref owns one      *)
(* handle of the C/C++ driver (a CassSession, CassStatement, CassResult or *)
(* CassSchemaMeta); the PHP objects and the persistent-list entries that   *)
(* share the handle each hold a pointer to the php_driver_ref.             *)
(*                                                                         *)
(* A heap is a record                                                      *)
(*    ptr    : the handle each slot (a php_driver_ref* field) points to    *)
(*    count  : ref->count of the php_driver_ref that owns a handle         *)
(*    status : "unused" before the handle exists, "live", or "freed" once  *)
(*             ref->destruct has been called on it.                        *)
(* The operators are pure, so that the components compose them: one method *)
(* often moves several references.                                         *)
(***************************************************************************)
EXTENDS Integers, FiniteSets

CONSTANT NULL

EmptyHeap(Slot, Data) ==
  [ptr    |-> [o \in Slot |-> NULL],
   count  |-> [x \in Data |-> 0],
   status |-> [x \in Data |-> "unused"]]

(* php_driver_new_peref(data, destructor, persistent), stored in slot o.   *)
NewPeref(h, o, x) ==
  [ptr    |-> [h.ptr EXCEPT ![o] = x],
   count  |-> [h.count EXCEPT ![x] = 1],
   status |-> [h.status EXCEPT ![x] = "live"]]

(* A wrong variant, to show which properties notice it: the pointer is     *)
(* copied but the count is not incremented.                                *)
AddRef_NotCounted(h, o, x) == [h EXCEPT !.ptr[o] = x]

(* php_driver_add_ref(ref), the result stored in slot o.                   *)
AddRef(h, o, x) ==
  [ptr    |-> [h.ptr EXCEPT ![o] = x],
   count  |-> [h.count EXCEPT ![x] = @ + 1],
   status |-> h.status]

(* A wrong variant: the handle is destroyed only below zero.               *)
DelPeref_OffByOne(h, o) ==
  LET x == h.ptr[o]
      n == h.count[x] - 1
  IN  IF x = NULL
        THEN h
        ELSE [ptr    |-> [h.ptr EXCEPT ![o] = NULL],
              count  |-> [h.count EXCEPT ![x] = n],
              status |-> IF n < 0 THEN [h.status EXCEPT ![x] = "freed"]
                                  ELSE h.status]

(* php_driver_del_peref(&slot, persistent).  The code resets the slot only *)
(* when the count reaches zero; every caller frees the structure that      *)
(* contains the slot right after the call, so the slot is cleared here.    *)
DelPeref(h, o) ==
  LET x == h.ptr[o]
      n == h.count[x] - 1
  IN  IF x = NULL
        THEN h
        ELSE [ptr    |-> [h.ptr EXCEPT ![o] = NULL],
              count  |-> [h.count EXCEPT ![x] = n],
              status |-> IF n <= 0 THEN [h.status EXCEPT ![x] = "freed"]
                                   ELSE h.status]

-----------------------------------------------------------------------------
Holders(h, Slot, x) == {o \in Slot : h.ptr[o] = x}

HeapType(h, Slot, Data) ==
  h \in [ptr    : [Slot -> Data \cup {NULL}],
         count  : [Data -> Int],
         status : [Data -> {"unused", "live", "freed"}]]

(* Every count is the number of slots that point to the handle, and a      *)
(* handle is live exactly as long as some slot points to it.               *)
HeapOK(h, Slot, Data) ==
  \A x \in Data : /\ h.count[x] = Cardinality(Holders(h, Slot, x))
                  /\ h.status[x] = "live" <=> h.count[x] > 0
=============================================================================
