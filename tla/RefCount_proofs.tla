--------------------------- MODULE RefCount_proofs ---------------------------
(***************************************************************************)
(* The three operations of ref.c keep reference counts exact: HeapOK says  *)
(* that a count is the number of slots that point to the handle and that   *)
(* the handle is live as long as there is one.                             *)
(***************************************************************************)
EXTENDS RefCount, FiniteSetTheorems, TLAPS

(* The slots that point to a handle are a finite set.                      *)
LEMMA HoldersFinite ==
  ASSUME NEW Slot, IsFiniteSet(Slot), NEW h, NEW x
  PROVE  IsFiniteSet(Holders(h, Slot, x)) /\ Cardinality(Holders(h, Slot, x)) \in Nat
BY FS_Subset, FS_CardinalityType DEF Holders

(* php_driver_new_peref, stored in an empty slot, for a handle that no     *)
(* slot points to.                                                         *)
LEMMA NewPerefOK ==
  ASSUME NEW Slot, IsFiniteSet(Slot), NEW Data, NULL \notin Data,
         NEW h, HeapType(h, Slot, Data), HeapOK(h, Slot, Data),
         NEW o \in Slot, h.ptr[o] = NULL,
         NEW x \in Data, h.status[x] # "live"
  PROVE  /\ HeapType(NewPeref(h, o, x), Slot, Data)
         /\ HeapOK(NewPeref(h, o, x), Slot, Data)
<1> DEFINE g == NewPeref(h, o, x)
<1>1. HeapType(g, Slot, Data)
  BY DEF HeapType, NewPeref
<1>2. Holders(h, Slot, x) = {}
  <2>1. h.count[x] = Cardinality(Holders(h, Slot, x)) /\ ~(h.count[x] > 0)
    BY DEF HeapOK
  <2>2. IsFiniteSet(Holders(h, Slot, x)) /\ Cardinality(Holders(h, Slot, x)) \in Nat
    BY HoldersFinite
  <2>3. Cardinality(Holders(h, Slot, x)) = 0
    BY <2>1, <2>2
  <2>. QED  BY <2>2, <2>3, FS_EmptySet
<1>3. Holders(g, Slot, x) = {o}
  BY <1>2 DEF Holders, NewPeref, HeapType
<1>4. ASSUME NEW y \in Data
      PROVE  /\ g.count[y] = Cardinality(Holders(g, Slot, y))
             /\ g.status[y] = "live" <=> g.count[y] > 0
  <2>1. CASE y = x
    <3>1. g.count[y] = 1 /\ g.status[y] = "live"
      BY <2>1 DEF NewPeref, HeapType
    <3>2. Cardinality(Holders(g, Slot, y)) = 1
      BY <1>3, <2>1, FS_Singleton
    <3>. QED  BY <3>1, <3>2
  <2>2. CASE y # x
    <3>1. Holders(g, Slot, y) = Holders(h, Slot, y)
      BY <2>2 DEF Holders, NewPeref, HeapType
    <3>2. g.count[y] = h.count[y] /\ g.status[y] = h.status[y]
      BY <2>2 DEF NewPeref, HeapType
    <3>. QED  BY <3>1, <3>2 DEF HeapOK
  <2>. QED  BY <2>1, <2>2
<1>. QED  BY <1>1, <1>4 DEF HeapOK

(* php_driver_add_ref, stored in an empty slot, for a live handle.         *)
LEMMA AddRefOK ==
  ASSUME NEW Slot, IsFiniteSet(Slot), NEW Data, NULL \notin Data,
         NEW h, HeapType(h, Slot, Data), HeapOK(h, Slot, Data),
         NEW o \in Slot, h.ptr[o] = NULL,
         NEW x \in Data, h.status[x] = "live"
  PROVE  /\ HeapType(AddRef(h, o, x), Slot, Data)
         /\ HeapOK(AddRef(h, o, x), Slot, Data)
<1> DEFINE g == AddRef(h, o, x)
<1>1. HeapType(g, Slot, Data)
  BY DEF HeapType, AddRef
<1>2. Holders(g, Slot, x) = Holders(h, Slot, x) \cup {o} /\ o \notin Holders(h, Slot, x)
  BY DEF Holders, AddRef, HeapType
<1>3. ASSUME NEW y \in Data
      PROVE  /\ g.count[y] = Cardinality(Holders(g, Slot, y))
             /\ g.status[y] = "live" <=> g.count[y] > 0
  <2>1. CASE y = x
    <3>1. g.count[y] = h.count[y] + 1 /\ g.status[y] = "live"
      BY <2>1 DEF AddRef, HeapType
    <3>2. Cardinality(Holders(g, Slot, y)) = Cardinality(Holders(h, Slot, y)) + 1
      BY <1>2, <2>1, HoldersFinite, FS_AddElement
    <3>3. h.count[y] = Cardinality(Holders(h, Slot, y)) /\ h.count[y] > 0
      BY <2>1 DEF HeapOK
    <3>. QED  BY <3>1, <3>2, <3>3, HoldersFinite
  <2>2. CASE y # x
    <3>1. Holders(g, Slot, y) = Holders(h, Slot, y)
      BY <2>2 DEF Holders, AddRef, HeapType
    <3>2. g.count[y] = h.count[y] /\ g.status[y] = h.status[y]
      BY <2>2 DEF AddRef, HeapType
    <3>. QED  BY <3>1, <3>2 DEF HeapOK
  <2>. QED  BY <2>1, <2>2
<1>. QED  BY <1>1, <1>3 DEF HeapOK

(* php_driver_del_peref on any slot.                                       *)
LEMMA DelPerefOK ==
  ASSUME NEW Slot, IsFiniteSet(Slot), NEW Data, NULL \notin Data,
         NEW h, HeapType(h, Slot, Data), HeapOK(h, Slot, Data),
         NEW o \in Slot
  PROVE  /\ HeapType(DelPeref(h, o), Slot, Data)
         /\ HeapOK(DelPeref(h, o), Slot, Data)
<1> DEFINE g == DelPeref(h, o)
           x == h.ptr[o]
<1>1. CASE x = NULL
  BY <1>1 DEF DelPeref
<1>2. CASE x # NULL
  <2>0. x \in Data
    BY <1>2 DEF HeapType
  <2>1. HeapType(g, Slot, Data)
    BY <1>2, <2>0 DEF HeapType, DelPeref
  <2>2. Holders(g, Slot, x) = Holders(h, Slot, x) \ {o} /\ o \in Holders(h, Slot, x)
    BY <1>2, <2>0 DEF Holders, DelPeref, HeapType
  <2>3. ASSUME NEW y \in Data
        PROVE  /\ g.count[y] = Cardinality(Holders(g, Slot, y))
               /\ g.status[y] = "live" <=> g.count[y] > 0
    <3>1. CASE y = x
      <4>1. g.count[y] = h.count[y] - 1
        BY <1>2, <3>1 DEF DelPeref, HeapType
      <4>2. g.status[y] = IF h.count[y] - 1 <= 0 THEN "freed" ELSE h.status[y]
        BY <1>2, <3>1 DEF DelPeref, HeapType
      <4>3. Cardinality(Holders(g, Slot, y)) = Cardinality(Holders(h, Slot, y)) - 1
        BY <2>2, <3>1, HoldersFinite, FS_RemoveElement
      <4>4. /\ h.count[y] = Cardinality(Holders(h, Slot, y))
            /\ h.status[y] = "live" <=> h.count[y] > 0
        BY DEF HeapOK
      <4>5. h.count[y] \in Int
        BY DEF HeapType
      <4>. QED  BY <4>1, <4>2, <4>3, <4>4, <4>5
    <3>2. CASE y # x
      <4>1. Holders(g, Slot, y) = Holders(h, Slot, y)
        BY <1>2, <3>2 DEF Holders, DelPeref, HeapType
      <4>2. g.count[y] = h.count[y] /\ g.status[y] = h.status[y]
        BY <1>2, <3>2 DEF DelPeref, HeapType
      <4>. QED  BY <4>1, <4>2 DEF HeapOK
    <3>. QED  BY <3>1, <3>2
  <2>. QED  BY <2>1, <2>3 DEF HeapOK
<1>. QED  BY <1>1, <1>2
=============================================================================
