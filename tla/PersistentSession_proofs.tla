----------------------- MODULE PersistentSession_proofs -----------------------
(***************************************************************************)
(* Proofs about PersistentSession, for any finite number of keys, sessions *)
(* and objects, any outcomes and both builds (free_installed or not).      *)
(***************************************************************************)
EXTENDS PersistentSession, RefCount_proofs

-----------------------------------------------------------------------------
(* The inductive invariant.  TypeOK and RefCountExact need to know which   *)
(* slots are in use (a new reference is only stored in an empty slot), the *)
(* running call (its object is the one under construction), that a future  *)
(* without a stored exception still has its CassFuture, and that a         *)
(* default_session is an object that still exists and has one holder.      *)
SlotsInUse ==
  /\ \A d \in DSess : ds[d].st = "absent" <=> heap.ptr[d] = NULL
  /\ \A f \in FSess : fs[f].st = "absent" <=> heap.ptr[f] = NULL

CallInv ==
  /\ call.op = "none" => call = NoCall
  /\ call.op # "none" => /\ running
                         /\ call.d \in DSess /\ ds[call.d].st = "building"
                         /\ ds[call.d].key \in Key
                         /\ call.future \in Sess
  /\ call.op = "get" => /\ call.f \in FSess /\ fs[call.f].st = "live"
                        /\ fs[call.f].default_session = NULL
  /\ \A d \in DSess : ds[d].st = "building" => call.op # "none" /\ call.d = d

FutureInv ==
  \A f \in FSess : fs[f].st = "live" => /\ fs[f].key \in Key
                                        /\ ~fs[f].exception => fs[f].future \in Sess

DefaultInv ==
  /\ \A f \in FSess : fs[f].default_session # NULL =>
       ds[fs[f].default_session].st \in {"user", "cached"}
  /\ \A f, g \in FSess :
       fs[f].default_session # NULL /\ fs[f].default_session = fs[g].default_session => f = g

Inv == /\ TypeOK
       /\ RefCountExact
       /\ CounterExact
       /\ SlotsInUse
       /\ CallInv
       /\ FutureInv
       /\ DefaultInv

-----------------------------------------------------------------------------
(* What the assumptions on the constants say about slots.                  *)
LEMMA Constants ==
  /\ IsFiniteSet(Slot) /\ IsFiniteSet(Key)
  /\ NULL \notin Sess /\ NULL \notin Key /\ NULL \notin DSess /\ NULL \notin FSess
  /\ Key \subseteq Slot /\ DSess \subseteq Slot /\ FSess \subseteq Slot
  /\ \A d \in DSess : d \notin Key /\ d \notin FSess
  /\ \A f \in FSess : f \notin Key /\ f \notin DSess
<1>1. IsFiniteSet(Key \cup DSess)
  BY FiniteConstants, FS_Union
<1>2. IsFiniteSet(Slot)
  BY <1>1, FiniteConstants, FS_Union DEF Slot
<1>. QED  BY <1>2, FiniteConstants, DisjointSlots, NullIsNothing DEF Slot

(* php_driver_del_peref empties the slot and leaves the others alone.      *)
LEMMA DelPerefPtr ==
  ASSUME NEW h, HeapType(h, Slot, Sess), NEW o \in Slot
  PROVE  DelPeref(h, o).ptr = [h.ptr EXCEPT ![o] = NULL]
BY DEF DelPeref, HeapType

(* Freeing a DefaultSession object keeps the counts exact in both builds.  *)
LEMMA FreeSessionOK ==
  ASSUME NEW h, HeapType(h, Slot, Sess), HeapOK(h, Slot, Sess), NEW d \in DSess
  PROVE  /\ HeapType(FreeSession(h, d), Slot, Sess)
         /\ HeapOK(FreeSession(h, d), Slot, Sess)
         /\ FreeSession(h, d).ptr = IF free_installed THEN [h.ptr EXCEPT ![d] = NULL]
                                                     ELSE h.ptr
<1>1. d \in Slot /\ IsFiniteSet(Slot) /\ NULL \notin Sess
  BY Constants
<1>2. CASE free_installed
  BY <1>1, <1>2, DelPerefOK, DelPerefPtr DEF FreeSession
<1>3. CASE ~free_installed
  BY <1>3 DEF FreeSession
<1>. QED  BY <1>2, <1>3

(* The number of listed keys when one is added (HASH_UPDATE) ...           *)
LEMMA ListedAdd ==
  ASSUME NEW p, NEW q, NEW k \in Key, p[k] = NULL, q[k] # NULL,
         \A j \in Key : j # k => q[j] = p[j]
  PROVE  Cardinality(ListedKeys(q)) = Cardinality(ListedKeys(p)) + 1
<1> DEFINE P == ListedKeys(p)
           Q == ListedKeys(q)
<1>1. IsFiniteSet(P)
  BY Constants, FS_Subset DEF ListedKeys
<1>2. Q = P \cup {k} /\ k \notin P
  BY DEF ListedKeys
<1>. QED  BY <1>1, <1>2, FS_AddElement

(* ... one removed (HASH_DEL, destruction of the list) ...                 *)
LEMMA ListedRemove ==
  ASSUME NEW p, NEW q, NEW k \in Key, p[k] # NULL, q[k] = NULL,
         \A j \in Key : j # k => q[j] = p[j]
  PROVE  Cardinality(ListedKeys(q)) = Cardinality(ListedKeys(p)) - 1
<1> DEFINE P == ListedKeys(p)
           Q == ListedKeys(q)
<1>1. IsFiniteSet(P)
  BY Constants, FS_Subset DEF ListedKeys
<1>2. Q = P \ {k} /\ k \in P
  BY DEF ListedKeys
<1>. QED  BY <1>1, <1>2, FS_RemoveElement

(* ... and none changed.                                                   *)
LEMMA ListedSame ==
  ASSUME NEW p, NEW q, \A j \in Key : q[j] = p[j]
  PROVE  Cardinality(ListedKeys(q)) = Cardinality(ListedKeys(p))
<1>1. ListedKeys(q) = ListedKeys(p)
  BY DEF ListedKeys
<1>. QED  BY <1>1

(* The counter is a natural number because a cardinality is one.           *)
LEMMA CounterNat ==
  ASSUME NEW p
  PROVE  Cardinality(ListedKeys(p)) \in Nat
<1>1. IsFiniteSet(ListedKeys(p))
  BY Constants, FS_Subset DEF ListedKeys
<1>. QED  BY <1>1, FS_CardinalityType

(* A handle some slot points to is live.                                   *)
LEMMA PointedLive ==
  ASSUME NEW h, HeapType(h, Slot, Sess), HeapOK(h, Slot, Sess),
         NEW o \in Slot, h.ptr[o] # NULL
  PROVE  h.ptr[o] \in Sess /\ h.status[h.ptr[o]] = "live"
<1> DEFINE x == h.ptr[o]
<1>1. x \in Sess
  BY DEF HeapType
<1>2. o \in Holders(h, Slot, x)
  BY DEF Holders
<1>3. Cardinality(Holders(h, Slot, x)) \in Nat /\ Cardinality(Holders(h, Slot, x)) # 0
  BY <1>2, Constants, HoldersFinite, FS_EmptySet
<1>4. h.count[x] > 0
  BY <1>1, <1>3 DEF HeapOK
<1>. QED  BY <1>1, <1>4 DEF HeapOK

(* What connect and connectAsync do to the heap, the list and the counter. *)
LEMMA AcquireOK ==
  ASSUME TypeOK, RefCountExact, CounterExact,
         NEW o \in DSess \cup FSess, heap.ptr[o] = NULL,
         NEW k \in Key, NEW p \in BOOLEAN, NEW s \in Sess, Acquire(o, k, p, s)
  PROVE  /\ HeapType(heap, Slot, Sess)' /\ RefCountExact' /\ CounterExact'
         /\ persistent_sessions' \in Nat
         /\ future' \in [Sess -> {"none", "pending", "ok", "error"}]
         /\ heap'.ptr[o] = s
         /\ \A x \in DSess \cup FSess : x # o => heap'.ptr[x] = heap.ptr[x]
<1> USE Constants
<1>0. /\ HeapType(heap, Slot, Sess) /\ HeapOK(heap, Slot, Sess)
      /\ o \in Slot /\ k \in Slot /\ o # k
      /\ persistent_sessions = Cardinality(ListedKeys(heap.ptr))
      /\ \A x \in DSess \cup FSess : x \in Slot /\ x \notin Key
  <2>1. \A x \in DSess \cup FSess : x \in Slot /\ x \notin Key
    BY Constants
  <2>2. o \in Slot /\ k \in Slot /\ o # k
    BY <2>1, Constants
  <2>. QED  BY <2>1, <2>2 DEF TypeOK, RefCountExact, CounterExact
<1>1. CASE Reuse(o, k, p, s)
  <2>1. s = heap.ptr[k] /\ heap.status[s] = "live" /\ heap' = AddRef(heap, o, s)
    BY <1>0, <1>1, PointedLive DEF Reuse, Listed
  <2>2. HeapType(heap', Slot, Sess) /\ HeapOK(heap', Slot, Sess)
    BY <1>0, <2>1, AddRefOK
  <2>3. heap'.ptr = [heap.ptr EXCEPT ![o] = s]
    BY <2>1 DEF AddRef
  <2>4. /\ heap'.ptr[o] = s
        /\ \A x \in Slot : x # o => heap'.ptr[x] = heap.ptr[x]
    BY <1>0, <2>3 DEF HeapType
  <2>5. \A j \in Key : heap'.ptr[j] = heap.ptr[j]
    BY <1>0, <2>4
  <2>6. persistent_sessions' = Cardinality(ListedKeys(heap'.ptr))
    <3>1. persistent_sessions' = persistent_sessions
      BY <1>1 DEF Reuse
    <3>. QED  BY <3>1, <1>0, <2>5, ListedSame
  <2>. QED  BY <1>0, <1>1, <2>2, <2>4, <2>6
            DEF Reuse, TypeOK, RefCountExact, CounterExact, HeapType
<1>2. CASE OpenNew(o, k, p, s)
  <2> DEFINE g == NewPeref(heap, o, s)
  <2>1. HeapType(g, Slot, Sess) /\ HeapOK(g, Slot, Sess)
    BY <1>0, <1>2, NewPerefOK DEF OpenNew
  <2>2. g.ptr = [heap.ptr EXCEPT ![o] = s] /\ g.status[s] = "live"
    BY <1>0 DEF NewPeref, HeapType
  <2>3. future' \in [Sess -> {"none", "pending", "ok", "error"}]
    BY <1>2 DEF OpenNew, TypeOK
  <2>4. CASE p
    <3>1. heap' = AddRef(g, k, s) /\ heap.ptr[k] = NULL
          /\ persistent_sessions' = persistent_sessions + 1
      BY <1>2, <2>4 DEF OpenNew, Listed
    <3>2. g.ptr[k] = NULL
      BY <1>0, <2>2, <3>1 DEF HeapType
    <3>3. HeapType(heap', Slot, Sess) /\ HeapOK(heap', Slot, Sess)
      BY <1>0, <2>1, <2>2, <3>1, <3>2, AddRefOK
    <3>4. heap'.ptr = [g.ptr EXCEPT ![k] = s]
      BY <3>1 DEF AddRef
    <3>5. /\ heap'.ptr[o] = s /\ heap'.ptr[k] = s
          /\ \A x \in Slot : x # o /\ x # k => heap'.ptr[x] = heap.ptr[x]
      BY <1>0, <2>1, <2>2, <3>4 DEF HeapType
    <3>6. Cardinality(ListedKeys(heap'.ptr))
            = Cardinality(ListedKeys(heap.ptr)) + 1
      <4>1. \A j \in Key : j # k => heap'.ptr[j] = heap.ptr[j]
        BY <1>0, <3>5
      <4>2. heap.ptr[k] = NULL /\ heap'.ptr[k] # NULL
        BY <3>1, <3>5
      <4>. QED  BY <4>1, <4>2, ListedAdd
    <3>7. persistent_sessions' = Cardinality(ListedKeys(heap'.ptr))
      BY <1>0, <3>1, <3>6
    <3>8. persistent_sessions' \in Nat
      BY <3>7, CounterNat
    <3>. QED  BY <1>0, <2>3, <3>3, <3>5, <3>7, <3>8
              DEF RefCountExact, CounterExact, HeapType
  <2>5. CASE ~p
    <3>1. heap' = g /\ persistent_sessions' = persistent_sessions
      BY <1>2, <2>5 DEF OpenNew, TypeOK
    <3>2. /\ heap'.ptr[o] = s
          /\ \A x \in Slot : x # o => heap'.ptr[x] = heap.ptr[x]
      BY <1>0, <2>2, <3>1 DEF HeapType
    <3>3. \A j \in Key : heap'.ptr[j] = heap.ptr[j]
      BY <1>0, <3>2
    <3>4. persistent_sessions' = Cardinality(ListedKeys(heap'.ptr))
      BY <1>0, <3>1, <3>3, ListedSame
    <3>. QED  BY <1>0, <2>1, <2>3, <3>1, <3>2, <3>4
              DEF RefCountExact, CounterExact, HeapType, TypeOK
  <2>. QED  BY <2>4, <2>5
<1>. QED  BY <1>1, <1>2 DEF Acquire

(* What the destructor of a list entry does to the heap, the counter and   *)
(* the futures, whether or not the key is listed.                          *)
LEMMA DtorOK ==
  ASSUME TypeOK, RefCountExact, CounterExact, NEW k \in Key
  PROVE  /\ HeapType(DtorHeap(k), Slot, Sess) /\ HeapOK(DtorHeap(k), Slot, Sess)
         /\ DtorHeap(k).ptr = [heap.ptr EXCEPT ![k] = NULL]
         /\ DtorFreed(k) \in [Sess -> Nat]
         /\ DtorCounter(k) \in Nat
         /\ DtorCounter(k) = Cardinality(ListedKeys(DtorHeap(k).ptr))
<1> USE Constants
<1>0. /\ HeapType(heap, Slot, Sess) /\ HeapOK(heap, Slot, Sess) /\ k \in Slot
      /\ persistent_sessions = Cardinality(ListedKeys(heap.ptr))
      /\ heap.ptr[k] \in Sess \cup {NULL}
  BY DEF TypeOK, RefCountExact, CounterExact, HeapType
<1>1. /\ HeapType(DtorHeap(k), Slot, Sess) /\ HeapOK(DtorHeap(k), Slot, Sess)
      /\ DtorHeap(k).ptr = [heap.ptr EXCEPT ![k] = NULL]
  BY <1>0, DelPerefOK, DelPerefPtr DEF DtorHeap
<1>2. DtorFreed(k) \in [Sess -> Nat]
  BY <1>0 DEF DtorFreed, FutureFree, Listed, TypeOK
<1>3. DtorCounter(k) = Cardinality(ListedKeys(DtorHeap(k).ptr))
  <2>1. DtorHeap(k).ptr[k] = NULL
        /\ \A j \in Key : j # k => DtorHeap(k).ptr[j] = heap.ptr[j]
    BY <1>0, <1>1 DEF HeapType
  <2>2. CASE Listed(k)
    <3>1. Cardinality(ListedKeys(DtorHeap(k).ptr))
            = Cardinality(ListedKeys(heap.ptr)) - 1
      BY <2>1, <2>2, ListedRemove DEF Listed
    <3>. QED  BY <1>0, <2>2, <3>1 DEF DtorCounter
  <2>3. CASE ~Listed(k)
    <3>1. \A j \in Key : DtorHeap(k).ptr[j] = heap.ptr[j]
      BY <2>1, <2>3 DEF Listed
    <3>2. Cardinality(ListedKeys(DtorHeap(k).ptr))
            = Cardinality(ListedKeys(heap.ptr))
      BY <3>1, ListedSame
    <3>3. persistent_sessions \in Int
      BY <1>0, CounterNat
    <3>. QED  BY <1>0, <2>3, <3>2, <3>3 DEF DtorCounter
  <2>. QED  BY <2>2, <2>3
<1>. QED  BY <1>1, <1>2, <1>3, CounterNat

-----------------------------------------------------------------------------
(* The initial states satisfy the invariant.                               *)
LEMMA InitInv == Init => Inv
<1> SUFFICES ASSUME Init PROVE Inv
  OBVIOUS
<1> USE Constants
<1>1. TypeOK
  BY BuildsAssumption DEF Init, TypeOK, HeapType, EmptyHeap, NoSession, NoFuture, NoCall
<1>2. RefCountExact
  <2>1. \A x \in Sess : Holders(heap, Slot, x) = {}
    BY DEF Init, EmptyHeap, Holders
  <2>2. \A x \in Sess : Cardinality(Holders(heap, Slot, x)) = 0
    BY <2>1, FS_EmptySet
  <2>3. \A x \in Sess : heap.count[x] = 0 /\ heap.status[x] = "unused"
    BY DEF Init, EmptyHeap
  <2>. QED  BY <2>2, <2>3 DEF RefCountExact, HeapOK
<1>3. CounterExact
  <2>1. ListedKeys(heap.ptr) = {}
    BY DEF Init, EmptyHeap, ListedKeys
  <2>. QED  BY <2>1, FS_EmptySet DEF Init, CounterExact
<1>4. SlotsInUse /\ CallInv /\ FutureInv /\ DefaultInv
  BY DEF Init, EmptyHeap, SlotsInUse, CallInv, FutureInv, DefaultInv, NoSession,
         NoFuture, NoCall
<1>. QED  BY <1>1, <1>2, <1>3, <1>4 DEF Inv

(* Cluster::connect, up to its wait.                                       *)
LEMMA ConnectInv ==
  ASSUME Inv, NEW d \in DSess, NEW k \in Key, NEW p \in BOOLEAN,
         NEW timed \in BOOLEAN, NEW s \in Sess, Connect(d, k, p, timed, s)
  PROVE  Inv'
<1> USE Constants
<1>1. /\ TypeOK /\ RefCountExact /\ CounterExact /\ heap.ptr[d] = NULL
      /\ Acquire(d, k, p, s) /\ d \in DSess \cup FSess
  BY DEF Inv, Connect, SlotsInUse
<1>2. /\ HeapType(heap, Slot, Sess)' /\ RefCountExact' /\ CounterExact'
      /\ persistent_sessions' \in Nat
      /\ future' \in [Sess -> {"none", "pending", "ok", "error"}]
      /\ heap'.ptr[d] = s
      /\ \A x \in DSess \cup FSess : x # d => heap'.ptr[x] = heap.ptr[x]
  BY <1>1, AcquireOK
<1>3. TypeOK'
  BY <1>2 DEF Inv, TypeOK, Connect
<1>4. SlotsInUse'
  <2>1. ds' = [ds EXCEPT ![d] = [st |-> "building", persist |-> p, key |-> k]] /\ fs' = fs
    BY DEF Connect
  <2>2. ASSUME NEW e \in DSess PROVE ds'[e].st = "absent" <=> heap'.ptr[e] = NULL
    <3>1. CASE e = d
      BY <1>2, <2>1, <3>1 DEF Inv, TypeOK
    <3>2. CASE e # d
      BY <1>2, <2>1, <3>2 DEF Inv, TypeOK, SlotsInUse
    <3>. QED  BY <3>1, <3>2
  <2>3. ASSUME NEW f \in FSess PROVE fs'[f].st = "absent" <=> heap'.ptr[f] = NULL
    BY <1>2, <2>1 DEF Inv, SlotsInUse
  <2>. QED  BY <2>2, <2>3 DEF SlotsInUse
<1>5. CallInv'
  BY DEF Inv, TypeOK, CallInv, Connect, Idle, NoCall
<1>6. FutureInv'
  BY DEF Inv, FutureInv, Connect
<1>7. DefaultInv'
  BY DEF Inv, TypeOK, DefaultInv, Connect
<1>. QED  BY <1>2, <1>3, <1>4, <1>5, <1>6, <1>7 DEF Inv

(* A DefaultSession object that no FutureSession holds is freed, after the *)
(* heap h has been reached: the part common to every failing call and to   *)
(* DropSession.                                                            *)
LEMMA ForgetOK ==
  ASSUME Inv, NEW h, HeapType(h, Slot, Sess), HeapOK(h, Slot, Sess),
         \A x \in DSess \cup FSess : h.ptr[x] = heap.ptr[x],
         NEW d \in DSess, \A f \in FSess : fs[f].default_session # d,
         ds[d].st # "absent",
         heap' = FreeSession(h, d), ds' = ForgetSession(d),
         \A f \in FSess : /\ fs'[f].st = fs[f].st
                          /\ fs'[f].default_session = fs[f].default_session
  PROVE  /\ HeapType(heap, Slot, Sess)' /\ RefCountExact'
         /\ Cardinality(ListedKeys(heap'.ptr)) = Cardinality(ListedKeys(h.ptr))
         /\ ds' \in [DSess -> [st : {"absent", "building", "user", "cached", "leaked"},
                               persist : BOOLEAN, key : Key \cup {NULL}]]
         /\ SlotsInUse' /\ DefaultInv'
         /\ ds'[d].st # "building"
         /\ \A e \in DSess : e # d => ds'[e] = ds[e]
<1> USE Constants
<1>1. /\ HeapType(heap', Slot, Sess) /\ HeapOK(heap', Slot, Sess)
      /\ heap'.ptr = IF free_installed THEN [h.ptr EXCEPT ![d] = NULL] ELSE h.ptr
  BY FreeSessionOK
<1>2. \A x \in Slot : x # d => heap'.ptr[x] = h.ptr[x]
  BY <1>1 DEF HeapType, Inv, TypeOK
<1>3. Cardinality(ListedKeys(heap'.ptr)) = Cardinality(ListedKeys(h.ptr))
  BY <1>2, ListedSame
<1>4. ds \in [DSess -> [st : {"absent", "building", "user", "cached", "leaked"},
                        persist : BOOLEAN, key : Key \cup {NULL}]]
  BY DEF Inv, TypeOK
<1>5. /\ ds' \in [DSess -> [st : {"absent", "building", "user", "cached", "leaked"},
                            persist : BOOLEAN, key : Key \cup {NULL}]]
      /\ \A e \in DSess : e # d => ds'[e] = ds[e]
      /\ ds'[d].st = IF free_installed THEN "absent" ELSE "leaked"
  BY <1>4 DEF ForgetSession, NoSession
<1>6. SlotsInUse'
  <2>1. ASSUME NEW e \in DSess PROVE ds'[e].st = "absent" <=> heap'.ptr[e] = NULL
    <3>1. CASE e # d
      <4>1. ds'[e] = ds[e] /\ heap'.ptr[e] = heap.ptr[e]
        BY <1>2, <1>5, <3>1
      <4>. QED  BY <4>1 DEF Inv, SlotsInUse
    <3>2. CASE e = d /\ free_installed
      <4>1. ds'[e].st = "absent"
        BY <1>5, <3>2
      <4>2. heap'.ptr[e] = NULL
        BY <1>1, <3>2 DEF HeapType
      <4>. QED  BY <4>1, <4>2
    <3>3. CASE e = d /\ ~free_installed
      <4>1. ds'[e].st = "leaked" /\ heap'.ptr[e] = heap.ptr[e]
        BY <1>1, <1>5, <3>3
      <4>2. heap.ptr[e] # NULL
        BY <3>3 DEF Inv, SlotsInUse
      <4>. QED  BY <4>1, <4>2
    <3>. QED  BY <3>1, <3>2, <3>3
  <2>2. ASSUME NEW f \in FSess PROVE fs'[f].st = "absent" <=> heap'.ptr[f] = NULL
    <3>1. heap'.ptr[f] = heap.ptr[f] /\ fs'[f].st = fs[f].st
      BY <1>2
    <3>. QED  BY <3>1 DEF Inv, SlotsInUse
  <2>. QED  BY <2>1, <2>2 DEF SlotsInUse
<1>7. DefaultInv'
  <2>1. ASSUME NEW f \in FSess, fs'[f].default_session # NULL
        PROVE  ds'[fs'[f].default_session].st \in {"user", "cached"}
    <3>1. fs[f].default_session \in DSess
      BY <2>1 DEF Inv, TypeOK
    <3>. QED  BY <1>5, <2>1, <3>1 DEF Inv, DefaultInv
  <2>2. ASSUME NEW f \in FSess, NEW g \in FSess, fs'[f].default_session # NULL,
               fs'[f].default_session = fs'[g].default_session
        PROVE  f = g
    BY <2>2 DEF Inv, DefaultInv
  <2>. QED  BY <2>1, <2>2 DEF DefaultInv
<1>. QED  BY <1>1, <1>3, <1>5, <1>6, <1>7 DEF RefCountExact

(* A call of connect or get that throws: heap h is reached before the      *)
(* object under construction is freed.                                     *)
LEMMA FailInv ==
  ASSUME Inv, call.op # "none", call' = NoCall,
         NEW h, HeapType(h, Slot, Sess), HeapOK(h, Slot, Sess),
         \A x \in DSess \cup FSess : h.ptr[x] = heap.ptr[x],
         heap' = FreeSession(h, call.d), ds' = ForgetSession(call.d),
         persistent_sessions' = Cardinality(ListedKeys(h.ptr)),
         frees' \in [Sess -> Nat], reported' \subseteq Sess \cup {NULL},
         fs' \in [FSess -> [st : {"absent", "live", "leaked"}, persist : BOOLEAN,
                            key : Key \cup {NULL}, future : Sess \cup {NULL},
                            exception : BOOLEAN, default_session : DSess \cup {NULL}]],
         \A f \in FSess : /\ fs'[f].st = fs[f].st
                          /\ fs'[f].default_session = fs[f].default_session,
         FutureInv',
         UNCHANGED <<future, closed, running, free_installed>>
  PROVE  Inv'
<1> USE Constants
<1> DEFINE d == call.d
<1>1. d \in DSess /\ ds[d].st = "building"
  BY DEF Inv, CallInv
<1>2. \A f \in FSess : fs[f].default_session # d
  BY <1>1 DEF Inv, DefaultInv
<1>3. /\ HeapType(heap, Slot, Sess)' /\ RefCountExact'
      /\ Cardinality(ListedKeys(heap'.ptr)) = Cardinality(ListedKeys(h.ptr))
      /\ ds' \in [DSess -> [st : {"absent", "building", "user", "cached", "leaked"},
                            persist : BOOLEAN, key : Key \cup {NULL}]]
      /\ SlotsInUse' /\ DefaultInv'
      /\ ds'[d].st # "building"
      /\ \A e \in DSess : e # d => ds'[e] = ds[e]
  BY <1>1, <1>2, ForgetOK
<1>4. TypeOK'
  BY <1>3, CounterNat DEF Inv, TypeOK, NoCall
<1>5. CounterExact'
  BY <1>3 DEF CounterExact
<1>6. CallInv'
  <2>1. \A e \in DSess : ds'[e].st # "building"
    BY <1>1, <1>3 DEF Inv, CallInv
  <2>. QED  BY <2>1 DEF CallInv, NoCall
<1>. QED  BY <1>3, <1>4, <1>5, <1>6 DEF Inv

(* connect gives up waiting.                                               *)
LEMMA ConnectTimeoutInv ==
  ASSUME Inv, ConnectTimeout
  PROVE  Inv'
<1>1. /\ call.op # "none" /\ call.future \in Sess
      /\ HeapType(heap, Slot, Sess) /\ HeapOK(heap, Slot, Sess)
  BY DEF Inv, CallInv, TypeOK, RefCountExact, ConnectTimeout
<1>2. frees' \in [Sess -> Nat]
  BY <1>1 DEF ConnectTimeout, FutureFree, Inv, TypeOK
<1>3. FutureInv'
  BY DEF Inv, FutureInv, ConnectTimeout
<1>4. /\ heap' = FreeSession(heap, call.d) /\ ds' = ForgetSession(call.d)
      /\ call' = NoCall /\ fs' = fs /\ reported' = reported
      /\ UNCHANGED <<future, closed, running, free_installed>>
      /\ persistent_sessions' = Cardinality(ListedKeys(heap.ptr))
  BY DEF ConnectTimeout, Inv, CounterExact
<1>5. /\ reported' \subseteq Sess \cup {NULL}
      /\ fs' \in [FSess -> [st : {"absent", "live", "leaked"}, persist : BOOLEAN,
                            key : Key \cup {NULL}, future : Sess \cup {NULL},
                            exception : BOOLEAN, default_session : DSess \cup {NULL}]]
  BY <1>4 DEF Inv, TypeOK
<1>. QED  BY <1>1, <1>2, <1>3, <1>4, <1>5, FailInv

(* connect finds the connection error, with and without eviction.          *)
LEMMA ConnectErrorInv ==
  ASSUME Inv, ConnectError
  PROVE  Inv'
<1> DEFINE d == call.d
           k == ds[d].key
<1>1. /\ call.op # "none" /\ call.future \in Sess /\ k \in Key
      /\ HeapType(heap, Slot, Sess) /\ HeapOK(heap, Slot, Sess)
      /\ TypeOK /\ RefCountExact /\ CounterExact
  BY DEF Inv, CallInv, TypeOK, RefCountExact, ConnectError
<1>2. FutureInv'
  BY DEF Inv, FutureInv, ConnectError
<1>3. /\ ds' = ForgetSession(call.d) /\ call' = NoCall /\ fs' = fs
      /\ UNCHANGED <<future, closed, running, free_installed>>
      /\ reported' \subseteq Sess \cup {NULL}
      /\ fs' \in [FSess -> [st : {"absent", "live", "leaked"}, persist : BOOLEAN,
                            key : Key \cup {NULL}, future : Sess \cup {NULL},
                            exception : BOOLEAN, default_session : DSess \cup {NULL}]]
  BY <1>1 DEF ConnectError, TypeOK
<1>4. CASE ds[d].persist
  <2>1. /\ HeapType(DtorHeap(k), Slot, Sess) /\ HeapOK(DtorHeap(k), Slot, Sess)
        /\ DtorHeap(k).ptr = [heap.ptr EXCEPT ![k] = NULL]
        /\ DtorFreed(k) \in [Sess -> Nat]
        /\ DtorCounter(k) = Cardinality(ListedKeys(DtorHeap(k).ptr))
    BY <1>1, DtorOK
  <2>2. \A x \in DSess \cup FSess : DtorHeap(k).ptr[x] = heap.ptr[x]
    BY <1>1, <2>1, Constants DEF HeapType
  <2>3. /\ heap' = FreeSession(DtorHeap(k), call.d)
        /\ frees' = DtorFreed(k)
        /\ persistent_sessions' = DtorCounter(k)
    BY <1>4 DEF ConnectError
  <2>. QED  BY <1>1, <1>2, <1>3, <2>1, <2>2, <2>3, FailInv
<1>5. CASE ~ds[d].persist
  <2>1. /\ heap' = FreeSession(heap, call.d)
        /\ frees' = FutureFree(call.future)
        /\ persistent_sessions' = Cardinality(ListedKeys(heap.ptr))
    BY <1>1, <1>5 DEF ConnectError, CounterExact
  <2>2. frees' \in [Sess -> Nat]
    BY <1>1, <2>1 DEF FutureFree, TypeOK
  <2>. QED  BY <1>1, <1>2, <1>3, <2>1, <2>2, FailInv
<1>. QED  BY <1>4, <1>5

(* connect returns the session.                                            *)
LEMMA ConnectOKInv ==
  ASSUME Inv, ConnectOK
  PROVE  Inv'
<1> USE Constants
<1> DEFINE d == call.d
<1>1. /\ d \in DSess /\ ds[d].st = "building" /\ call.op # "none"
      /\ ds' = [ds EXCEPT ![d].st = "user"] /\ call' = NoCall
      /\ UNCHANGED <<heap, future, frees, closed, fs, persistent_sessions, running, reported,
                     free_installed>>
  BY DEF Inv, CallInv, ConnectOK
<1>2. TypeOK'
  BY <1>1 DEF Inv, TypeOK, HeapType, NoCall
<1>3. RefCountExact' /\ CounterExact' /\ FutureInv'
  BY <1>1 DEF Inv, RefCountExact, HeapOK, Holders, CounterExact, FutureInv
<1>4. ds'[d].st = "user" /\ \A e \in DSess : e # d => ds'[e] = ds[e]
  BY <1>1 DEF Inv, TypeOK
<1>5. SlotsInUse'
  BY <1>1, <1>4 DEF Inv, SlotsInUse
<1>6. CallInv'
  BY <1>1, <1>4 DEF Inv, CallInv, NoCall
<1>7. DefaultInv'
  BY <1>1, <1>4 DEF Inv, TypeOK, DefaultInv
<1>. QED  BY <1>2, <1>3, <1>5, <1>6, <1>7 DEF Inv

(* Cluster::connectAsync.                                                  *)
LEMMA ConnectAsyncInv ==
  ASSUME Inv, NEW f \in FSess, NEW k \in Key, NEW p \in BOOLEAN, NEW s \in Sess,
         ConnectAsync(f, k, p, s)
  PROVE  Inv'
<1> USE Constants
<1>1. /\ TypeOK /\ RefCountExact /\ CounterExact /\ heap.ptr[f] = NULL
      /\ Acquire(f, k, p, s) /\ f \in DSess \cup FSess
  BY DEF Inv, ConnectAsync, SlotsInUse
<1>2. /\ HeapType(heap, Slot, Sess)' /\ RefCountExact' /\ CounterExact'
      /\ persistent_sessions' \in Nat
      /\ future' \in [Sess -> {"none", "pending", "ok", "error"}]
      /\ heap'.ptr[f] = s
      /\ \A x \in DSess \cup FSess : x # f => heap'.ptr[x] = heap.ptr[x]
  BY <1>1, AcquireOK
<1>3. /\ fs' = [fs EXCEPT ![f] = [st |-> "live", persist |-> p, key |-> k, future |-> s,
                                  exception |-> FALSE, default_session |-> NULL]]
      /\ UNCHANGED <<frees, closed, ds, call, running, reported, free_installed>>
      /\ fs[f].st = "absent" /\ call = NoCall
  BY DEF ConnectAsync, Idle
<1>4. TypeOK'
  BY <1>1, <1>2, <1>3 DEF TypeOK
<1>5. /\ \A g \in FSess : g # f => fs'[g] = fs[g]
      /\ fs'[f].st = "live" /\ fs'[f].default_session = NULL
      /\ fs'[f].key = k /\ fs'[f].future = s
  BY <1>1, <1>3 DEF TypeOK
<1>6. SlotsInUse'
  <2>1. \A e \in DSess : heap'.ptr[e] = heap.ptr[e] /\ ds'[e] = ds[e]
    BY <1>2, <1>3
  <2>2. \A g \in FSess : g # f => heap'.ptr[g] = heap.ptr[g] /\ fs'[g] = fs[g]
    BY <1>2, <1>5
  <2>3. heap'.ptr[f] # NULL /\ fs'[f].st # "absent"
    BY <1>2, <1>5
  <2>. QED  BY <2>1, <2>2, <2>3 DEF Inv, SlotsInUse
<1>7. CallInv'
  BY <1>3 DEF Inv, CallInv, NoCall
<1>8. FutureInv'
  BY <1>5 DEF Inv, FutureInv
<1>9. DefaultInv'
  BY <1>3, <1>5 DEF Inv, DefaultInv
<1>. QED  BY <1>2, <1>4, <1>6, <1>7, <1>8, <1>9 DEF Inv

(* FutureSession::get, up to its wait: the new object shares the session.  *)
LEMMA GetInv ==
  ASSUME Inv, NEW f \in FSess, NEW d \in DSess, NEW timed \in BOOLEAN, Get(f, d, timed)
  PROVE  Inv'
<1> USE Constants
<1> DEFINE s == heap.ptr[f]
<1>1. /\ TypeOK /\ HeapType(heap, Slot, Sess) /\ HeapOK(heap, Slot, Sess)
      /\ heap.ptr[d] = NULL /\ s # NULL /\ fs[f].st = "live" /\ ds[d].st = "absent"
      /\ fs[f].key \in Key /\ fs[f].future \in Sess /\ fs[f].default_session = NULL
      /\ call = NoCall /\ running
  BY DEF Inv, TypeOK, RefCountExact, SlotsInUse, FutureInv, Get, Unsettled, Idle
<1>2. s \in Sess /\ heap.status[s] = "live"
  BY <1>1, PointedLive
<1>3. /\ heap' = AddRef(heap, d, s)
      /\ ds' = [ds EXCEPT ![d] = [st |-> "building", persist |-> fs[f].persist,
                                  key |-> fs[f].key]]
      /\ call' = [op |-> "get", d |-> d, f |-> f, future |-> fs[f].future, timed |-> timed]
      /\ UNCHANGED <<future, frees, closed, fs, persistent_sessions, running, reported,
                     free_installed>>
  BY DEF Get
<1>4. HeapType(heap', Slot, Sess) /\ HeapOK(heap', Slot, Sess)
  BY <1>1, <1>2, <1>3, AddRefOK
<1>5. heap'.ptr[d] = s /\ \A x \in Slot : x # d => heap'.ptr[x] = heap.ptr[x]
  BY <1>1, <1>3 DEF AddRef, HeapType
<1>6. CounterExact'
  <2>1. \A j \in Key : heap'.ptr[j] = heap.ptr[j]
    BY <1>5
  <2>2. Cardinality(ListedKeys(heap'.ptr)) = Cardinality(ListedKeys(heap.ptr))
    BY <2>1, ListedSame
  <2>. QED  BY <1>3, <2>2 DEF Inv, CounterExact
<1>7. TypeOK'
  <2>1. fs[f].persist \in BOOLEAN
    BY <1>1 DEF TypeOK
  <2>. QED  BY <1>1, <1>3, <1>4, <2>1 DEF TypeOK
<1>8. /\ ds'[d].st = "building" /\ ds'[d].key = fs[f].key
      /\ \A e \in DSess : e # d => ds'[e] = ds[e]
  BY <1>1, <1>3 DEF TypeOK
<1>9. SlotsInUse'
  <2>1. \A e \in DSess : e # d => heap'.ptr[e] = heap.ptr[e] /\ ds'[e] = ds[e]
    BY <1>5, <1>8
  <2>2. \A g \in FSess : heap'.ptr[g] = heap.ptr[g] /\ fs'[g] = fs[g]
    BY <1>3, <1>5
  <2>3. heap'.ptr[d] # NULL /\ ds'[d].st # "absent"
    BY <1>2, <1>5, <1>8
  <2>. QED  BY <2>1, <2>2, <2>3 DEF Inv, SlotsInUse
<1>10. CallInv'
  BY <1>1, <1>3, <1>8 DEF Inv, CallInv, NoCall
<1>11. FutureInv'
  BY <1>3 DEF Inv, FutureInv
<1>12. DefaultInv'
  BY <1>1, <1>3, <1>8 DEF Inv, TypeOK, DefaultInv
<1>. QED  BY <1>4, <1>6, <1>7, <1>9, <1>10, <1>11, <1>12 DEF Inv, RefCountExact

(* FutureSession::get returns the session of an earlier call.              *)
LEMMA GetAgainInv ==
  ASSUME Inv, NEW f \in FSess, GetAgain(f)
  PROVE  Inv'
<1> USE Constants
<1> DEFINE d == fs[f].default_session
<1>1. /\ d \in DSess /\ ds[d].st \in {"user", "cached"} /\ call = NoCall
      /\ ds' = [ds EXCEPT ![d].st = "user"]
      /\ UNCHANGED <<heap, future, frees, closed, fs, persistent_sessions, call, running, reported,
                     free_installed>>
  BY DEF Inv, TypeOK, DefaultInv, GetAgain, Idle
<1>2. TypeOK'
  BY <1>1, SMTT(30) DEF Inv, TypeOK, HeapType
<1>3. RefCountExact' /\ CounterExact' /\ FutureInv'
  BY <1>1 DEF Inv, RefCountExact, HeapOK, Holders, CounterExact, FutureInv
<1>4. ds'[d].st = "user" /\ \A e \in DSess : e # d => ds'[e] = ds[e]
  BY <1>1 DEF Inv, TypeOK
<1>5. SlotsInUse'
  BY <1>1, <1>4 DEF Inv, SlotsInUse
<1>6. CallInv'
  BY <1>1, <1>4 DEF Inv, CallInv, NoCall
<1>7. DefaultInv'
  BY <1>1, <1>4 DEF Inv, TypeOK, DefaultInv
<1>. QED  BY <1>2, <1>3, <1>5, <1>6, <1>7 DEF Inv

(* get gives up waiting: nothing but its object is undone.                 *)
LEMMA GetTimeoutInv ==
  ASSUME Inv, GetTimeout
  PROVE  Inv'
<1>1. /\ call.op # "none"
      /\ HeapType(heap, Slot, Sess) /\ HeapOK(heap, Slot, Sess)
  BY DEF Inv, TypeOK, RefCountExact, GetTimeout
<1>2. FutureInv'
  BY DEF Inv, FutureInv, GetTimeout
<1>3. /\ heap' = FreeSession(heap, call.d) /\ ds' = ForgetSession(call.d)
      /\ call' = NoCall /\ fs' = fs /\ reported' = reported /\ frees' = frees
      /\ UNCHANGED <<future, closed, running, free_installed>>
      /\ persistent_sessions' = Cardinality(ListedKeys(heap.ptr))
  BY DEF GetTimeout, Inv, CounterExact
<1>4. /\ reported' \subseteq Sess \cup {NULL} /\ frees' \in [Sess -> Nat]
      /\ fs' \in [FSess -> [st : {"absent", "live", "leaked"}, persist : BOOLEAN,
                            key : Key \cup {NULL}, future : Sess \cup {NULL},
                            exception : BOOLEAN, default_session : DSess \cup {NULL}]]
  BY <1>3 DEF Inv, TypeOK
<1>. QED  BY <1>1, <1>2, <1>3, <1>4, FailInv

(* get finds the connection error, with and without eviction.              *)
LEMMA GetErrorInv ==
  ASSUME Inv, GetError
  PROVE  Inv'
<1> DEFINE d == call.d
           f == call.f
           k == fs[f].key
<1>1. /\ call.op # "none" /\ call.future \in Sess /\ f \in FSess /\ k \in Key
      /\ HeapType(heap, Slot, Sess) /\ HeapOK(heap, Slot, Sess)
      /\ TypeOK /\ RefCountExact /\ CounterExact
  BY DEF Inv, CallInv, FutureInv, TypeOK, RefCountExact, GetError
<1>2. /\ ds' = ForgetSession(call.d) /\ call' = NoCall
      /\ UNCHANGED <<future, closed, running, free_installed>>
      /\ reported' \subseteq Sess \cup {NULL}
  BY <1>1 DEF GetError, TypeOK
<1>3. CASE fs[f].persist
  <2>1. /\ HeapType(DtorHeap(k), Slot, Sess) /\ HeapOK(DtorHeap(k), Slot, Sess)
        /\ DtorHeap(k).ptr = [heap.ptr EXCEPT ![k] = NULL]
        /\ DtorFreed(k) \in [Sess -> Nat]
        /\ DtorCounter(k) = Cardinality(ListedKeys(DtorHeap(k).ptr))
    BY <1>1, DtorOK
  <2>2. \A x \in DSess \cup FSess : DtorHeap(k).ptr[x] = heap.ptr[x]
    BY <1>1, <2>1, Constants DEF HeapType
  <2>3. /\ heap' = FreeSession(DtorHeap(k), call.d)
        /\ frees' = DtorFreed(k)
        /\ persistent_sessions' = DtorCounter(k)
        /\ fs' = [fs EXCEPT ![f].exception = TRUE,
                            ![f].future = IF Listed(k) THEN NULL ELSE @]
    BY <1>3 DEF GetError
  <2>4. /\ fs' \in [FSess -> [st : {"absent", "live", "leaked"}, persist : BOOLEAN,
                              key : Key \cup {NULL}, future : Sess \cup {NULL},
                              exception : BOOLEAN, default_session : DSess \cup {NULL}]]
        /\ \A g \in FSess : /\ fs'[g].st = fs[g].st
                            /\ fs'[g].default_session = fs[g].default_session
                            /\ fs'[g].key = fs[g].key
                            /\ g # f => fs'[g] = fs[g]
        /\ fs'[f].exception
    <3>1. /\ fs \in [FSess -> [st : {"absent", "live", "leaked"}, persist : BOOLEAN,
                              key : Key \cup {NULL}, future : Sess \cup {NULL},
                              exception : BOOLEAN, default_session : DSess \cup {NULL}]]
      BY <1>1 DEF TypeOK
    <3> DEFINE v == IF Listed(k) THEN NULL ELSE fs[f].future
               r == [fs[f] EXCEPT !.exception = TRUE]
               q == [r EXCEPT !.future = v]
    <3>2. fs' = [fs EXCEPT ![f] = q]
      BY <1>1, <2>3, <3>1
    <3>3. /\ r \in [st : {"absent", "live", "leaked"}, persist : BOOLEAN, key : Key \cup {NULL},
             future : Sess \cup {NULL}, exception : BOOLEAN,
             default_session : DSess \cup {NULL}]
          /\ r.st = fs[f].st /\ r.key = fs[f].key /\ r.exception
          /\ r.default_session = fs[f].default_session
      BY <1>1, <3>1, ZenonT(60)
    <3> HIDE DEF r
    <3>4. /\ q \in [st : {"absent", "live", "leaked"}, persist : BOOLEAN, key : Key \cup {NULL},
             future : Sess \cup {NULL}, exception : BOOLEAN,
             default_session : DSess \cup {NULL}]
          /\ q.st = fs[f].st /\ q.key = fs[f].key /\ q.exception
          /\ q.default_session = fs[f].default_session
      <4>1. v \in Sess \cup {NULL}
        BY <1>1, <3>1
      <4>. QED  BY <3>3, <4>1
    <3> HIDE DEF q
    <3>. QED  BY <1>1, <3>1, <3>2, <3>4
  <2>5. FutureInv'
    BY <2>4 DEF Inv, FutureInv
  <2>. QED  BY <1>1, <1>2, <2>1, <2>2, <2>3, <2>4, <2>5, FailInv
<1>4. CASE ~fs[f].persist
  <2>1. /\ heap' = FreeSession(heap, call.d) /\ frees' = frees /\ fs' = fs
        /\ persistent_sessions' = Cardinality(ListedKeys(heap.ptr))
    BY <1>1, <1>4 DEF GetError, CounterExact
  <2>2. /\ frees' \in [Sess -> Nat]
        /\ fs' \in [FSess -> [st : {"absent", "live", "leaked"}, persist : BOOLEAN,
                              key : Key \cup {NULL}, future : Sess \cup {NULL},
                              exception : BOOLEAN, default_session : DSess \cup {NULL}]]
    BY <1>1, <2>1 DEF TypeOK
  <2>3. FutureInv'
    BY <2>1 DEF Inv, FutureInv
  <2>. QED  BY <1>1, <1>2, <2>1, <2>2, <2>3, FailInv
<1>. QED  BY <1>3, <1>4

(* get returns a new session and keeps it as the default_session.          *)
LEMMA GetOKInv ==
  ASSUME Inv, GetOK
  PROVE  Inv'
<1> USE Constants
<1> DEFINE d == call.d
           f == call.f
<1>1. /\ d \in DSess /\ ds[d].st = "building" /\ f \in FSess
      /\ fs[f].st = "live"
      /\ ds' = [ds EXCEPT ![d].st = "user"] /\ call' = NoCall
      /\ fs' = [fs EXCEPT ![f].default_session = d]
      /\ UNCHANGED <<heap, future, frees, closed, persistent_sessions, running, reported,
                     free_installed>>
      /\ call.op # "none"
  BY DEF Inv, CallInv, GetOK
<1>2. TypeOK'
  <2>1. ds' \in [DSess -> [st : {"absent", "building", "user", "cached", "leaked"},
                         persist : BOOLEAN, key : Key \cup {NULL}]]
    BY <1>1, SMTT(30) DEF Inv, TypeOK
  <2>2. fs' \in [FSess -> [st : {"absent", "live", "leaked"}, persist : BOOLEAN,
                          key : Key \cup {NULL}, future : Sess \cup {NULL},
                          exception : BOOLEAN, default_session : DSess \cup {NULL}]]
    BY <1>1, SMTT(30) DEF Inv, TypeOK
  <2>3. call' \in [op : {"none", "connect", "get"}, d : DSess \cup {NULL},
                  f : FSess \cup {NULL}, future : Sess \cup {NULL}, timed : BOOLEAN]
    BY <1>1 DEF NoCall
  <2>4. /\ HeapType(heap', Slot, Sess)
        /\ future' \in [Sess -> {"none", "pending", "ok", "error"}]
        /\ frees' \in [Sess -> Nat] /\ closed' \in [Sess -> BOOLEAN]
        /\ persistent_sessions' \in Nat /\ running' \in BOOLEAN
        /\ reported' \subseteq Sess \cup {NULL} /\ free_installed' \in BOOLEAN
    BY <1>1 DEF Inv, TypeOK
  <2>. QED  BY <2>1, <2>2, <2>3, <2>4 DEF TypeOK
<1>3. RefCountExact' /\ CounterExact'
  BY <1>1 DEF Inv, RefCountExact, HeapOK, Holders, CounterExact
<1>4. /\ ds'[d].st = "user" /\ \A e \in DSess : e # d => ds'[e] = ds[e]
      /\ fs'[f].default_session = d
      /\ \A g \in FSess : /\ g # f => fs'[g] = fs[g]
                          /\ fs'[g].st = fs[g].st /\ fs'[g].key = fs[g].key
                          /\ fs'[g].exception = fs[g].exception
                          /\ fs'[g].future = fs[g].future
  BY <1>1 DEF Inv, TypeOK
<1>5. SlotsInUse'
  <2>1. \A x \in Slot : heap'.ptr[x] = heap.ptr[x]
    BY <1>1
  <2>2. ds'[d].st # "absent" /\ ds[d].st # "absent"
    BY <1>1, <1>4
  <2>. QED  BY <1>4, <2>1, <2>2 DEF Inv, SlotsInUse
<1>6. CallInv'
  BY <1>1, <1>4 DEF Inv, CallInv, NoCall
<1>7. FutureInv'
  BY <1>4 DEF Inv, FutureInv
<1>8. DefaultInv'
  <2>1. \A g \in FSess : fs[g].default_session # d
    BY <1>1 DEF Inv, DefaultInv
  <2>2. \A g \in FSess : fs[g].default_session \in DSess \cup {NULL}
    BY DEF Inv, TypeOK
  <2>. QED  BY <1>4, <2>1, <2>2 DEF Inv, DefaultInv
<1>. QED  BY <1>2, <1>3, <1>5, <1>6, <1>7, <1>8 DEF Inv

(* Session::close and closeAsync.                                          *)
LEMMA CloseInv ==
  ASSUME Inv, NEW d \in DSess, Close(d)
  PROVE  Inv'
<1>1. closed' \in [Sess -> BOOLEAN]
  BY DEF Inv, TypeOK, Close
<1>. QED  BY <1>1 DEF Close, Inv, TypeOK, HeapType, RefCountExact, HeapOK, Holders,
                      CounterExact, SlotsInUse, CallInv, FutureInv, DefaultInv

(* PHP code drops a DefaultSession.                                        *)
LEMMA DropSessionInv ==
  ASSUME Inv, NEW d \in DSess, DropSession(d)
  PROVE  Inv'
<1> USE Constants
<1>1. /\ ds[d].st = "user" /\ call = NoCall
      /\ UNCHANGED <<future, frees, closed, fs, persistent_sessions, call, running, reported,
                     free_installed>>
      /\ HeapType(heap, Slot, Sess) /\ HeapOK(heap, Slot, Sess)
      /\ \A e \in DSess : ds[e].st # "building"
  BY DEF Inv, TypeOK, RefCountExact, CallInv, DropSession, Idle, NoCall
<1>2. FutureInv'
  BY <1>1 DEF Inv, FutureInv
<1>3. CASE \E f \in FSess : fs[f].default_session = d
  <2>1. ds' = [ds EXCEPT ![d].st = "cached"] /\ heap' = heap
    BY <1>3 DEF DropSession
  <2>2. ds'[d].st = "cached" /\ \A e \in DSess : e # d => ds'[e] = ds[e]
    BY <2>1 DEF Inv, TypeOK
  <2>3. TypeOK'
    <3>1. ds' \in [DSess -> [st : {"absent", "building", "user", "cached", "leaked"},
                             persist : BOOLEAN, key : Key \cup {NULL}]]
      BY <2>1 DEF Inv, TypeOK
    <3>. QED  BY <1>1, <2>1, <3>1 DEF Inv, TypeOK, HeapType
  <2>4. RefCountExact' /\ CounterExact'
    BY <1>1, <2>1 DEF Inv, RefCountExact, HeapOK, Holders, CounterExact
  <2>5. SlotsInUse'
    BY <1>1, <2>1, <2>2 DEF Inv, SlotsInUse
  <2>6. CallInv'
    BY <1>1, <2>2 DEF Inv, CallInv, NoCall
  <2>7. DefaultInv'
    BY <1>1, <2>2 DEF Inv, TypeOK, DefaultInv
  <2>. QED  BY <1>2, <2>3, <2>4, <2>5, <2>6, <2>7 DEF Inv
<1>4. CASE ~\E f \in FSess : fs[f].default_session = d
  <2>1. ds' = ForgetSession(d) /\ heap' = FreeSession(heap, d)
    BY <1>4 DEF DropSession
  <2>2. /\ HeapType(heap, Slot, Sess)' /\ RefCountExact'
        /\ Cardinality(ListedKeys(heap'.ptr)) = Cardinality(ListedKeys(heap.ptr))
        /\ ds' \in [DSess -> [st : {"absent", "building", "user", "cached", "leaked"},
                              persist : BOOLEAN, key : Key \cup {NULL}]]
        /\ SlotsInUse' /\ DefaultInv'
        /\ ds'[d].st # "building"
        /\ \A e \in DSess : e # d => ds'[e] = ds[e]
    BY <1>1, <1>4, <2>1, ForgetOK
  <2>3. TypeOK'
    BY <1>1, <2>2 DEF Inv, TypeOK
  <2>4. CounterExact'
    BY <1>1, <2>2 DEF Inv, CounterExact
  <2>5. CallInv'
    BY <1>1, <2>2 DEF Inv, CallInv, NoCall
  <2>. QED  BY <1>2, <2>2, <2>3, <2>4, <2>5 DEF Inv
<1>. QED  BY <1>3, <1>4

(* PHP code drops a FutureSession: with the free handler the object and,   *)
(* if nothing else holds it, its default_session give their references     *)
(* back; without it nothing does.                                          *)
LEMMA DropFutureInv ==
  ASSUME Inv, NEW f \in FSess, DropFuture(f)
  PROVE  Inv'
<1> USE Constants
<1> DEFINE d == fs[f].default_session
           last == d # NULL /\ ds[d].st = "cached"
           g == DelPeref(heap, f)
<1>1. /\ fs[f].st = "live" /\ call = NoCall
      /\ UNCHANGED <<future, closed, persistent_sessions, call, running, reported,
                     free_installed>>
      /\ TypeOK /\ HeapType(heap, Slot, Sess) /\ HeapOK(heap, Slot, Sess)
      /\ \A e \in DSess : ds[e].st # "building"
      /\ d \in DSess \cup {NULL} /\ fs[f].future \in Sess \cup {NULL}
  BY DEF Inv, TypeOK, RefCountExact, CallInv, DropFuture, Idle, NoCall
<1>2. CASE ~free_installed
  <2>1. fs' = [fs EXCEPT ![f].st = "leaked"] /\ UNCHANGED <<frees, heap, ds>>
    BY <1>2 DEF DropFuture
  <2>2. /\ fs'[f].st = "leaked"
        /\ \A h \in FSess : /\ h # f => fs'[h] = fs[h]
                            /\ fs'[h].default_session = fs[h].default_session
    BY <1>1, <2>1 DEF TypeOK
  <2>3. TypeOK'
    BY <1>1, <2>1, SMTT(30) DEF TypeOK, HeapType
  <2>4. RefCountExact' /\ CounterExact'
    BY <1>1, <2>1 DEF Inv, RefCountExact, HeapOK, Holders, CounterExact
  <2>5. SlotsInUse' /\ FutureInv'
    BY <1>1, <2>1, <2>2 DEF Inv, SlotsInUse, FutureInv
  <2>6. CallInv'
    BY <1>1, <2>1 DEF Inv, CallInv, NoCall
  <2>7. DefaultInv'
    BY <2>1, <2>2 DEF Inv, DefaultInv
  <2>. QED  BY <2>3, <2>4, <2>5, <2>6, <2>7 DEF Inv
<1>3. CASE free_installed
  <2>1. /\ fs' = [fs EXCEPT ![f] = NoFuture]
        /\ frees' = IF OwnsFuture(fs[f].persist) /\ fs[f].future # NULL
                      THEN FutureFree(fs[f].future) ELSE frees
        /\ heap' = IF last THEN FreeSession(g, d) ELSE g
        /\ ds' = IF last THEN [ds EXCEPT ![d] = NoSession] ELSE ds
    BY <1>3 DEF DropFuture, ForgetSession
  <2>2. /\ HeapType(g, Slot, Sess) /\ HeapOK(g, Slot, Sess)
        /\ g.ptr = [heap.ptr EXCEPT ![f] = NULL]
    BY <1>1, DelPerefOK, DelPerefPtr
  <2>3. /\ HeapType(heap', Slot, Sess) /\ HeapOK(heap', Slot, Sess)
        /\ last => heap'.ptr = [g.ptr EXCEPT ![d] = NULL]
        /\ ~last => heap'.ptr = g.ptr
    <3>1. CASE last
      BY <1>1, <1>3, <2>1, <2>2, <3>1, FreeSessionOK
    <3>2. CASE ~last
      BY <2>1, <2>2, <3>2
    <3>. QED  BY <3>1, <3>2
  <2>4. /\ heap'.ptr[f] = NULL
        /\ last => heap'.ptr[d] = NULL
        /\ \A x \in Slot : x # f /\ (last => x # d) => heap'.ptr[x] = heap.ptr[x]
    BY <1>1, <2>2, <2>3 DEF HeapType
  <2>5. /\ fs'[f] = NoFuture /\ \A h \in FSess : h # f => fs'[h] = fs[h]
        /\ fs' \in [FSess -> [st : {"absent", "live", "leaked"}, persist : BOOLEAN,
                              key : Key \cup {NULL}, future : Sess \cup {NULL},
                              exception : BOOLEAN, default_session : DSess \cup {NULL}]]
    BY <1>1, <2>1 DEF TypeOK, NoFuture
  <2>6. /\ last => ds'[d] = NoSession
        /\ \A e \in DSess : (last => e # d) => ds'[e] = ds[e]
        /\ ds' \in [DSess -> [st : {"absent", "building", "user", "cached", "leaked"},
                              persist : BOOLEAN, key : Key \cup {NULL}]]
    BY <1>1, <2>1 DEF TypeOK, NoSession
  <2>7. frees' \in [Sess -> Nat]
    BY <1>1, <2>1 DEF TypeOK, FutureFree
  <2>8. TypeOK'
    BY <1>1, <2>3, <2>5, <2>6, <2>7 DEF TypeOK
  <2>9. CounterExact'
    <3>1. \A j \in Key : heap'.ptr[j] = heap.ptr[j]
      BY <1>1, <2>4
    <3>2. Cardinality(ListedKeys(heap'.ptr)) = Cardinality(ListedKeys(heap.ptr))
      BY <3>1, ListedSame
    <3>. QED  BY <1>1, <3>2 DEF Inv, CounterExact
  <2>10. SlotsInUse'
    <3>1. ASSUME NEW e \in DSess PROVE ds'[e].st = "absent" <=> heap'.ptr[e] = NULL
      <4>1. CASE last /\ e = d
        BY <2>4, <2>6, <4>1 DEF NoSession
      <4>2. CASE last => e # d
        <5>1. ds'[e] = ds[e] /\ heap'.ptr[e] = heap.ptr[e]
          BY <2>4, <2>6, <4>2
        <5>. QED  BY <5>1 DEF Inv, SlotsInUse
      <4>. QED  BY <4>1, <4>2
    <3>2. ASSUME NEW h \in FSess PROVE fs'[h].st = "absent" <=> heap'.ptr[h] = NULL
      <4>1. CASE h = f
        BY <2>4, <2>5, <4>1 DEF NoFuture
      <4>2. CASE h # f
        <5>1. fs'[h] = fs[h] /\ heap'.ptr[h] = heap.ptr[h]
          BY <1>1, <2>4, <2>5, <4>2
        <5>. QED  BY <5>1 DEF Inv, SlotsInUse
      <4>. QED  BY <4>1, <4>2
    <3>. QED  BY <3>1, <3>2 DEF SlotsInUse
  <2>11. CallInv'
    <3>1. \A e \in DSess : ds'[e].st # "building"
      BY <1>1, <2>6 DEF NoSession
    <3>. QED  BY <1>1, <3>1 DEF CallInv, NoCall
  <2>12. FutureInv'
    BY <2>5 DEF Inv, FutureInv, NoFuture
  <2>13. DefaultInv'
    <3>1. ASSUME NEW h \in FSess, fs'[h].default_session # NULL
          PROVE  /\ h # f /\ fs'[h] = fs[h]
                 /\ ds'[fs'[h].default_session].st \in {"user", "cached"}
      <4>1. h # f /\ fs'[h] = fs[h]
        BY <2>5, <3>1 DEF NoFuture
      <4>2. fs[h].default_session \in DSess /\ fs[h].default_session # d
        BY <1>1, <3>1, <4>1 DEF Inv, TypeOK, DefaultInv
      <4>. QED  BY <2>6, <3>1, <4>1, <4>2 DEF Inv, DefaultInv
    <3>2. ASSUME NEW h \in FSess, NEW i \in FSess, fs'[h].default_session # NULL,
                 fs'[h].default_session = fs'[i].default_session
          PROVE  h = i
      <4>1. fs'[h] = fs[h] /\ fs'[i] = fs[i]
        BY <3>1, <3>2
      <4>. QED  BY <3>2, <4>1 DEF Inv, DefaultInv
    <3>. QED  BY <3>1, <3>2 DEF DefaultInv
  <2>. QED  BY <2>3, <2>8, <2>9, <2>10, <2>11, <2>12, <2>13 DEF Inv, RefCountExact
<1>. QED  BY <1>2, <1>3

(* The engine destroys an entry of the list of a worker that has ended.    *)
LEMMA DestroyEntryInv ==
  ASSUME Inv, NEW k \in Key, DestroyEntry(k)
  PROVE  Inv'
<1> USE Constants
<1>1. /\ TypeOK /\ RefCountExact /\ CounterExact /\ HeapType(heap, Slot, Sess)
      /\ UNCHANGED <<future, closed, ds, fs, call, running, reported,
                     free_installed>>
      /\ heap' = DtorHeap(k) /\ frees' = DtorFreed(k)
      /\ persistent_sessions' = DtorCounter(k)
  BY DEF Inv, TypeOK, DestroyEntry
<1>2. /\ HeapType(DtorHeap(k), Slot, Sess) /\ HeapOK(DtorHeap(k), Slot, Sess)
      /\ DtorHeap(k).ptr = [heap.ptr EXCEPT ![k] = NULL]
      /\ DtorFreed(k) \in [Sess -> Nat]
      /\ DtorCounter(k) \in Nat
      /\ DtorCounter(k) = Cardinality(ListedKeys(DtorHeap(k).ptr))
  BY <1>1, DtorOK
<1>3. TypeOK'
  BY <1>1, <1>2 DEF TypeOK
<1>4. RefCountExact' /\ CounterExact'
  BY <1>1, <1>2 DEF RefCountExact, CounterExact
<1>5. \A x \in DSess \cup FSess : heap'.ptr[x] = heap.ptr[x]
  BY <1>1, <1>2 DEF HeapType
<1>6. SlotsInUse'
  BY <1>1, <1>5 DEF Inv, SlotsInUse
<1>7. CallInv' /\ FutureInv' /\ DefaultInv'
  BY <1>1 DEF Inv, CallInv, FutureInv, DefaultInv
<1>. QED  BY <1>3, <1>4, <1>6, <1>7 DEF Inv

(* The I/O thread resolves an attempt, and the worker ends.                *)
LEMMA ResolveShutdownInv ==
  ASSUME Inv, Shutdown \/ \E s \in Sess, o \in Outcome : Resolve(s, o)
  PROVE  Inv'
<1>1. /\ UNCHANGED <<heap, frees, closed, ds, fs, persistent_sessions, call, reported,
                     free_installed>>
      /\ running' \in BOOLEAN
      /\ future' \in [Sess -> {"none", "pending", "ok", "error"}]
      /\ call.op # "none" => running' = running
  <2>1. CASE Shutdown
    BY <2>1 DEF Inv, TypeOK, Shutdown, Idle, NoCall
  <2>2. ASSUME NEW s \in Sess, NEW o \in Outcome, Resolve(s, o)
        PROVE  /\ UNCHANGED <<heap, frees, closed, ds, fs, persistent_sessions, call,
                              running, reported, free_installed>>
               /\ future' \in [Sess -> {"none", "pending", "ok", "error"}]
    <3>1. o \in {"ok", "error"} /\ future' = [future EXCEPT ![s] = o]
      BY <2>2, OutcomeAssumption DEF Resolve
    <3>. QED  BY <2>2, <3>1 DEF Inv, TypeOK, Resolve
  <2>3. running \in BOOLEAN
    BY DEF Inv, TypeOK
  <2>. QED  BY <2>1, <2>2, <2>3
<1>2. TypeOK'
  BY <1>1 DEF Inv, TypeOK, HeapType
<1>3. RefCountExact' /\ CounterExact'
  BY <1>1 DEF Inv, RefCountExact, HeapOK, Holders, CounterExact
<1>4. SlotsInUse' /\ FutureInv' /\ DefaultInv'
  BY <1>1 DEF Inv, SlotsInUse, FutureInv, DefaultInv
<1>5. CallInv'
  BY <1>1 DEF Inv, CallInv
<1>. QED  BY <1>2, <1>3, <1>4, <1>5 DEF Inv

(* Every step keeps the invariant.                                         *)
LEMMA NextInv ==
  ASSUME Inv, [Next]_vars
  PROVE  Inv'
<1>1. CASE UNCHANGED vars
  <2>1. UNCHANGED <<heap, future, frees, closed, ds, fs, persistent_sessions, call,
                    running, reported, free_installed>>
    BY <1>1 DEF vars
  <2>2. TypeOK'
    BY <2>1 DEF Inv, TypeOK, HeapType
  <2>3. RefCountExact' /\ CounterExact'
    BY <2>1 DEF Inv, RefCountExact, HeapOK, Holders, CounterExact
  <2>4. SlotsInUse' /\ CallInv' /\ FutureInv' /\ DefaultInv'
    BY <2>1 DEF Inv, SlotsInUse, CallInv, FutureInv, DefaultInv
  <2>. QED  BY <2>2, <2>3, <2>4 DEF Inv
<1>2. CASE Next
  BY <1>1, <1>2, ConnectInv, ConnectAsyncInv, ConnectTimeoutInv, ConnectErrorInv,
     ConnectOKInv, GetInv, GetAgainInv, GetTimeoutInv, GetErrorInv, GetOKInv, CloseInv,
     DropSessionInv, DropFutureInv, ResolveShutdownInv, DestroyEntryInv
     DEF Next, Return, Terminated
<1>. QED  BY <1>1, <1>2

(* The invariant holds in every reachable state.                           *)
LEMMA Invariant == Spec => []Inv
<1>1. Inv /\ [Next]_vars => Inv'
  BY NextInv
<1>. QED  BY <1>1, InitInv, PTL DEF Spec

-----------------------------------------------------------------------------
(* The variables keep their shapes through connect, connectAsync, get,     *)
(* close and the free handlers; in particular persistent_sessions, which   *)
(* phpinfo() shows, is never negative.                                     *)
THEOREM TypeCorrect == Spec => []TypeOK
<1>1. Inv => TypeOK
  BY DEF Inv
<1>. QED  BY <1>1, Invariant, PTL

(* ref.c's counts are exact along every path of the session code: a        *)
(* session is live exactly while an object or a list entry points to it.   *)
THEOREM RefCountsExact == Spec => []RefCountExact
<1>1. Inv => RefCountExact
  BY DEF Inv
<1>. QED  BY <1>1, Invariant, PTL

(* No DefaultSession, FutureSession or list entry is left with a session   *)
(* that another holder's destructor has freed.                             *)
THEOREM NothingDangles == Spec => []NoDanglingSession
<1>1. Inv => NoDanglingSession
  <2> SUFFICES ASSUME Inv, NEW o \in Slot, heap.ptr[o] # NULL
               PROVE  heap.status[heap.ptr[o]] = "live"
    BY DEF NoDanglingSession
  <2>1. HeapType(heap, Slot, Sess) /\ HeapOK(heap, Slot, Sess)
    BY DEF Inv, TypeOK, RefCountExact
  <2>. QED  BY <2>1, PointedLive
<1>. QED  BY <1>1, Invariant, PTL

(* The persistent_sessions counter is the number of listed sessions, after *)
(* any mix of additions, evictions by connect and get, and destruction.    *)
THEOREM CounterCorrect == Spec => []CounterExact
<1>1. Inv => CounterExact
  BY DEF Inv
<1>. QED  BY <1>1, Invariant, PTL

(* get resets self->future to NULL when it evicts a failed attempt, and no *)
(* call of get ever waits on that NULL, because it stored an exception.    *)
THEOREM NoNullWait == Spec => []NeverWaitsOnNull
<1>1. Inv => NeverWaitsOnNull
  BY Constants DEF Inv, CallInv, NeverWaitsOnNull
<1>. QED  BY <1>1, Invariant, PTL

(* What a step may do to an entry of the list: keep it or remove it.       *)
LEMMA EntryStep ==
  ASSUME Inv, Next, NEW k \in Key, Listed(k)
  PROVE  heap'.ptr[k] \in {NULL, heap.ptr[k]}
<1> USE Constants
<1>0. /\ HeapType(heap, Slot, Sess) /\ HeapOK(heap, Slot, Sess)
      /\ TypeOK /\ RefCountExact /\ CounterExact
  BY DEF Inv, TypeOK, RefCountExact
<1>1. CASE heap' = heap
  BY <1>1
<1>2. ASSUME NEW o \in DSess \cup FSess, NEW j \in Key, NEW p \in BOOLEAN,
             NEW s \in Sess, Acquire(o, j, p, s)
      PROVE  heap'.ptr[k] = heap.ptr[k]
  <2>1. k # o /\ k \in Slot /\ o \in Slot /\ heap.ptr[k] # NULL
    BY DEF Listed
  <2>2. CASE Reuse(o, j, p, s)
    BY <1>0, <2>1, <2>2 DEF Reuse, AddRef, HeapType
  <2>3. CASE OpenNew(o, j, p, s) /\ ~p
    BY <1>0, <2>1, <2>3 DEF OpenNew, NewPeref, HeapType
  <2>4. CASE OpenNew(o, j, p, s) /\ p
    <3>1. j # k /\ heap'.ptr = [[heap.ptr EXCEPT ![o] = s] EXCEPT ![j] = s]
      BY <2>1, <2>4 DEF OpenNew, Listed, NewPeref, AddRef
    <3>. QED  BY <1>0, <2>1, <3>1 DEF HeapType
  <2>. QED  BY <1>2, <2>2, <2>3, <2>4 DEF Acquire
<1>3. ASSUME NEW h, HeapType(h, Slot, Sess), HeapOK(h, Slot, Sess), NEW d \in DSess
      PROVE  FreeSession(h, d).ptr[k] = h.ptr[k]
  <2>1. k # d /\ k \in Slot
    OBVIOUS
  <2>2. FreeSession(h, d).ptr = IF free_installed THEN [h.ptr EXCEPT ![d] = NULL]
                                                 ELSE h.ptr
    BY <1>3, FreeSessionOK
  <2>. QED  BY <1>3, <2>1, <2>2 DEF HeapType, Inv, TypeOK
<1>4. ASSUME NEW j \in Key
      PROVE  /\ DtorHeap(j).ptr[k] \in {NULL, heap.ptr[k]}
             /\ HeapType(DtorHeap(j), Slot, Sess) /\ HeapOK(DtorHeap(j), Slot, Sess)
  <2>1. /\ HeapType(DtorHeap(j), Slot, Sess) /\ HeapOK(DtorHeap(j), Slot, Sess)
        /\ DtorHeap(j).ptr = [heap.ptr EXCEPT ![j] = NULL]
    BY <1>0, DtorOK
  <2>2. k \in Slot /\ j \in Slot
    OBVIOUS
  <2>3. DtorHeap(j).ptr[k] \in {NULL, heap.ptr[k]}
    BY <1>0, <2>1, <2>2 DEF HeapType
  <2>. QED  BY <2>1, <2>3
<1>5. CASE \E j \in Key, p \in BOOLEAN, s \in Sess :
             \/ \E d \in DSess, timed \in BOOLEAN : Connect(d, j, p, timed, s)
             \/ \E f \in FSess : ConnectAsync(f, j, p, s)
  BY <1>2, <1>5 DEF Connect, ConnectAsync
<1>6. CASE Return
  <2>1. CASE ConnectOK \/ GetOK
    BY <1>1, <2>1 DEF ConnectOK, GetOK
  <2>2. CASE ConnectTimeout \/ GetTimeout
    <3>1. call.d \in DSess /\ heap' = FreeSession(heap, call.d)
      BY <2>2 DEF Inv, CallInv, ConnectTimeout, GetTimeout
    <3>. QED  BY <1>0, <1>3, <3>1
  <2>3. CASE ConnectError \/ GetError
    <3>1. /\ call.d \in DSess
          /\ \/ heap' = FreeSession(heap, call.d)
             \/ \E j \in Key : heap' = FreeSession(DtorHeap(j), call.d)
      BY <2>3 DEF Inv, CallInv, FutureInv, ConnectError, GetError
    <3>. QED  BY <1>0, <1>3, <1>4, <3>1
  <2>. QED  BY <1>6, <2>1, <2>2, <2>3 DEF Return
<1>7. CASE \E f \in FSess : \/ \E d \in DSess, timed \in BOOLEAN : Get(f, d, timed)
                            \/ GetAgain(f)
                            \/ DropFuture(f)
  <2> PICK f \in FSess : \/ \E d \in DSess, timed \in BOOLEAN : Get(f, d, timed)
                         \/ GetAgain(f)
                         \/ DropFuture(f)
    BY <1>7
  <2>1. CASE GetAgain(f)
    BY <1>1, <2>1 DEF GetAgain
  <2>2. CASE \E d \in DSess, timed \in BOOLEAN : Get(f, d, timed)
    <3> PICK d \in DSess : \E timed \in BOOLEAN : Get(f, d, timed)
      BY <2>2
    <3>1. heap'.ptr = [heap.ptr EXCEPT ![d] = heap.ptr[f]] /\ k # d /\ k \in Slot
      BY DEF Get, AddRef
    <3>. QED  BY <1>0, <3>1 DEF HeapType
  <2>3. CASE DropFuture(f)
    <3> DEFINE d == fs[f].default_session
               g == DelPeref(heap, f)
    <3>1. /\ HeapType(g, Slot, Sess) /\ HeapOK(g, Slot, Sess)
          /\ g.ptr = [heap.ptr EXCEPT ![f] = NULL]
      BY <1>0, DelPerefOK, DelPerefPtr
    <3>2. g.ptr[k] = heap.ptr[k]
      BY <1>0, <3>1 DEF HeapType
    <3>3. d \in DSess \cup {NULL}
      BY <1>0 DEF TypeOK
    <3>4. \/ heap' = heap \/ heap' = g
          \/ d # NULL /\ heap' = FreeSession(g, d)
      BY <2>3 DEF DropFuture
    <3>. QED  BY <1>1, <1>3, <3>1, <3>2, <3>3, <3>4
  <2>. QED  BY <2>1, <2>2, <2>3
<1>8. CASE \E d \in DSess : Close(d) \/ DropSession(d)
  BY <1>0, <1>1, <1>3, <1>8 DEF Close, DropSession
<1>9. CASE \E j \in Key : DestroyEntry(j)
  BY <1>4, <1>9 DEF DestroyEntry
<1>10. CASE \/ \E s \in Sess, o \in Outcome : Resolve(s, o)
            \/ Shutdown \/ Terminated
  BY <1>1, <1>10 DEF Resolve, Shutdown, Terminated, vars
<1>. QED  BY <1>5, <1>6, <1>7, <1>8, <1>9, <1>10 DEF Next

(* HASH_UPDATE never overwrites a listed session with another: connect and *)
(* connectAsync look for the key first, and no other step adds an entry.   *)
THEOREM EntriesKept == Spec => EntryNeverReplaced
<1>1. Inv /\ [Next]_vars
        => [\A k \in Key : heap.ptr[k] # NULL => heap'.ptr[k] \in {NULL, heap.ptr[k]}]_vars
  BY EntryStep DEF Listed
<1>. QED  BY <1>1, Invariant, PTL DEF Spec, EntryNeverReplaced

-----------------------------------------------------------------------------
(* The second invariant, about the list and the connect futures.  Objects  *)
(* are looked at alike, whichever class they have.                         *)
Obj == DSess \cup FSess
Rec(o) == IF o \in DSess THEN ds[o] ELSE fs[o]
Persist(o) == Rec(o).persist
KeyOf(o) == Rec(o).key

(* The objects that will free the future of the session they point to: a   *)
(* FutureSession and the object connect is building, if not persistent.    *)
Owns(o) ==
  /\ heap.ptr[o] # NULL /\ ~Persist(o)
  /\ o \in FSess \/ (call.op = "connect" /\ o = call.d)

(* An entry lists a session of its own, whose future is not freed and that *)
(* only objects of persistent clusters share.                              *)
ListOK ==
  \A k \in Key : Listed(k) =>
    /\ frees[heap.ptr[k]] = 0 /\ ~closed[heap.ptr[k]]
    /\ \A j \in Key : heap.ptr[j] = heap.ptr[k] => j = k
    /\ \A o \in Obj : heap.ptr[o] = heap.ptr[k] => Persist(o)

(* A session that does not exist yet has no history.                       *)
FreshOK == \A s \in Sess : heap.status[s] = "unused" => frees[s] = 0 /\ ~closed[s]

(* A future that an object will free is not freed yet, and no other object *)
(* will free it.                                                           *)
OwnerOK ==
  \A o \in Obj : Owns(o) =>
    /\ frees[heap.ptr[o]] = 0
    /\ \A q \in Obj : Owns(q) /\ heap.ptr[q] = heap.ptr[o] => q = o

(* A session is shared by objects of persistent clusters only, or by none. *)
KindOK ==
  \A o, q \in Obj : heap.ptr[o] # NULL /\ heap.ptr[o] = heap.ptr[q] => Persist(o) = Persist(q)

(* What a persistent object points to is listed under its key, or was      *)
(* evicted, and never closed.                                              *)
PersistOK ==
  \A o \in Obj : Persist(o) =>
    /\ heap.ptr[o] # NULL /\ KeyOf(o) \in Key /\ ~closed[heap.ptr[o]]
    /\ heap.ptr[o] = heap.ptr[KeyOf(o)] \/ frees[heap.ptr[o]] > 0

(* A failure is reported for an attempt that has been evicted.             *)
ReportedOK == \A s \in reported : s \in Sess /\ frees[s] > 0

PoolInv == /\ ListOK /\ FreshOK /\ OwnerOK /\ KindOK /\ PersistOK
           /\ NoDoubleFree /\ ReportedOK

(* The CassFuture pointers that objects and the running call copy.         *)
FuturesOK ==
  \A f \in FSess : fs[f].st # "absent" =>
    /\ ~fs[f].exception => fs[f].future = heap.ptr[f]
    /\ ~fs[f].persist => ~fs[f].exception

CallFutureOK ==
  /\ call.op # "none" => call.future = heap.ptr[call.d]
  /\ call.op = "get" => /\ heap.ptr[call.f] = call.future
                        /\ fs[call.f].persist = ds[call.d].persist
                        /\ fs[call.f].key = ds[call.d].key

(* A session PHP code was given is connected, or was evicted.              *)
ConnectedOK ==
  \A d \in DSess : ds[d].st \in {"user", "cached"} =>
    \/ ds[d].persist /\ frees[heap.ptr[d]] > 0
    \/ future[heap.ptr[d]] = "ok"

HandleInv == FuturesOK /\ CallFutureOK /\ ConnectedOK

-----------------------------------------------------------------------------
(* What an object, a connect future and a list entry go through in a step  *)
(* that hands out no session: they stay, or they end.                      *)
Keeps(o) ==
  /\ heap'.ptr[o] = heap.ptr[o] /\ Persist(o)' = Persist(o) /\ KeyOf(o)' = KeyOf(o)
  /\ Owns(o)' => Owns(o)

Leaves(o) == heap'.ptr[o] = NULL /\ ~Persist(o)'

FreedOnce(s) ==
  /\ frees[s] = 0 /\ frees'[s] = 1 /\ heap.status[s] # "unused"
  /\ \A k \in Key : heap'.ptr[k] # s
  /\ \A o \in Obj : Owns(o)' => heap'.ptr[o] # s

Release ==
  /\ \A o \in Obj : Keeps(o) \/ Leaves(o)
  /\ \A k \in Key : \/ heap'.ptr[k] = heap.ptr[k]
                    \/ heap'.ptr[k] = NULL /\ frees'[heap.ptr[k]] > 0
  /\ \A s \in Sess : /\ heap'.status[s] = "unused" => heap.status[s] = "unused"
                     /\ frees'[s] = frees[s] \/ FreedOnce(s)
  /\ closed' = closed
  /\ \A s \in reported' : s \in reported \/ (s \in Sess /\ frees'[s] > 0)

(* The shapes the proofs below need, from the first invariant.             *)
LEMMA Shapes ==
  ASSUME Inv
  PROVE  /\ HeapType(heap, Slot, Sess) /\ HeapOK(heap, Slot, Sess)
         /\ \A x \in Slot : heap.ptr[x] \in Sess \cup {NULL}
         /\ \A x \in Slot : heap.ptr[x] # NULL => heap.status[heap.ptr[x]] = "live"
         /\ frees \in [Sess -> Nat]
         /\ \A o \in Obj : o \in Slot /\ o \notin Key
         /\ \A k \in Key : k \in Slot /\ k \notin Obj
         /\ NULL \notin Sess
<1>1. HeapType(heap, Slot, Sess) /\ HeapOK(heap, Slot, Sess) /\ frees \in [Sess -> Nat]
  BY DEF Inv, TypeOK, RefCountExact
<1>2. \A x \in Slot : heap.ptr[x] \in Sess \cup {NULL}
  BY <1>1 DEF HeapType
<1>3. \A x \in Slot : heap.ptr[x] # NULL => heap.status[heap.ptr[x]] = "live"
  BY <1>1, PointedLive
<1>. QED  BY <1>1, <1>2, <1>3, Constants DEF Obj

(* Such a step keeps the list and the futures in order.                    *)
LEMMA ReleasePool ==
  ASSUME Inv, PoolInv, Release
  PROVE  PoolInv'
<1> USE DEF Release, Keeps, Leaves, FreedOnce
<1>1. /\ \A x \in Slot : heap.ptr[x] \in Sess \cup {NULL}
      /\ frees \in [Sess -> Nat]
      /\ \A o \in Obj : o \in Slot
      /\ \A k \in Key : k \in Slot
      /\ NULL \notin Sess
  BY Shapes
<1>2. ASSUME NEW o \in Obj, heap'.ptr[o] # NULL
      PROVE  /\ heap'.ptr[o] = heap.ptr[o] /\ Persist(o)' = Persist(o)
             /\ KeyOf(o)' = KeyOf(o) /\ (Owns(o)' => Owns(o)) /\ heap.ptr[o] \in Sess
  BY <1>1, <1>2
<1>3. ASSUME NEW k \in Key, heap'.ptr[k] # NULL
      PROVE  heap'.ptr[k] = heap.ptr[k] /\ heap.ptr[k] \in Sess
  BY <1>1, <1>3
<1>4. \A s \in Sess : /\ frees'[s] \in Nat /\ frees[s] \in Nat /\ frees'[s] >= frees[s]
                      /\ frees'[s] = frees[s] \/ FreedOnce(s)
  BY <1>1
<1>5. ListOK'
  <2> SUFFICES ASSUME NEW k \in Key, heap'.ptr[k] # NULL
               PROVE  /\ frees'[heap'.ptr[k]] = 0 /\ ~closed'[heap'.ptr[k]]
                      /\ \A j \in Key : heap'.ptr[j] = heap'.ptr[k] => j = k
                      /\ \A o \in Obj : heap'.ptr[o] = heap'.ptr[k] => Persist(o)'
    BY DEF ListOK, Listed
  <2>1. heap'.ptr[k] = heap.ptr[k] /\ heap.ptr[k] \in Sess
    BY <1>3
  <2>2. /\ frees[heap.ptr[k]] = 0 /\ ~closed[heap.ptr[k]]
        /\ \A j \in Key : heap.ptr[j] = heap.ptr[k] => j = k
        /\ \A o \in Obj : heap.ptr[o] = heap.ptr[k] => Persist(o)
    BY <2>1 DEF PoolInv, ListOK, Listed
  <2>3. frees'[heap.ptr[k]] = frees[heap.ptr[k]]
    BY <1>4, <2>1
  <2>. QED  BY <1>2, <1>3, <2>1, <2>2, <2>3
<1>6. FreshOK'
  BY <1>4 DEF PoolInv, FreshOK
<1>7. OwnerOK'
  <2>1. ASSUME NEW o \in Obj, Owns(o)'
        PROVE  heap'.ptr[o] = heap.ptr[o] /\ Owns(o) /\ heap.ptr[o] \in Sess
    <3>1. heap'.ptr[o] # NULL
      BY <2>1 DEF Owns
    <3>. QED  BY <1>2, <2>1, <3>1
  <2>2. ASSUME NEW o \in Obj, Owns(o)'
        PROVE  frees'[heap'.ptr[o]] = 0
    BY <1>4, <2>1, <2>2 DEF PoolInv, OwnerOK
  <2>3. ASSUME NEW o \in Obj, Owns(o)', NEW q \in Obj, Owns(q)', heap'.ptr[q] = heap'.ptr[o]
        PROVE  q = o
    BY <2>1, <2>3 DEF PoolInv, OwnerOK
  <2>. QED  BY <2>2, <2>3 DEF OwnerOK
<1>8. KindOK'
  <2> SUFFICES ASSUME NEW o \in Obj, NEW q \in Obj, heap'.ptr[o] # NULL,
                      heap'.ptr[o] = heap'.ptr[q]
               PROVE  Persist(o)' = Persist(q)'
    BY DEF KindOK
  <2>. QED  BY <1>2 DEF PoolInv, KindOK
<1>9. PersistOK'
  <2> SUFFICES ASSUME NEW o \in Obj, Persist(o)'
               PROVE  /\ heap'.ptr[o] # NULL /\ KeyOf(o)' \in Key /\ ~closed'[heap'.ptr[o]]
                      /\ heap'.ptr[o] = heap'.ptr[KeyOf(o)'] \/ frees'[heap'.ptr[o]] > 0
    BY DEF PersistOK
  <2>1. heap'.ptr[o] = heap.ptr[o] /\ Persist(o) /\ KeyOf(o)' = KeyOf(o)
    OBVIOUS
  <2>2. /\ heap.ptr[o] # NULL /\ KeyOf(o) \in Key /\ ~closed[heap.ptr[o]]
        /\ heap.ptr[o] = heap.ptr[KeyOf(o)] \/ frees[heap.ptr[o]] > 0
    BY <2>1 DEF PoolInv, PersistOK
  <2>3. heap.ptr[o] \in Sess
    BY <1>1, <2>2
  <2>4. CASE frees[heap.ptr[o]] > 0
    BY <1>4, <2>1, <2>2, <2>3, <2>4
  <2>5. CASE heap.ptr[o] = heap.ptr[KeyOf(o)]
    BY <1>4, <2>1, <2>2, <2>3, <2>5
  <2>. QED  BY <2>2, <2>4, <2>5
<1>10. NoDoubleFree'
  BY <1>4 DEF PoolInv, NoDoubleFree
<1>11. ReportedOK'
  BY <1>4 DEF PoolInv, ReportedOK
<1>. QED  BY <1>5, <1>6, <1>7, <1>8, <1>9, <1>10, <1>11 DEF PoolInv

(* What connect and connectAsync do to the list: the key is looked up, and *)
(* only an attempt that is not there yet is made and listed.               *)
LEMMA AcquireShape ==
  ASSUME Inv, NEW o \in Obj, NEW k \in Key, NEW p \in BOOLEAN, NEW s \in Sess,
         Acquire(o, k, p, s)
  PROVE  /\ heap'.ptr[o] = s
         /\ \A x \in Slot : x # o /\ x # k => heap'.ptr[x] = heap.ptr[x]
         /\ heap'.ptr[k] = IF p THEN s ELSE heap.ptr[k]
         /\ heap.status[s] = "unused" => heap.ptr[k] = NULL \/ ~p
         /\ heap.status[s] # "unused" => p /\ heap.ptr[k] = s
         /\ \A x \in Sess : heap'.status[x] = "unused" => heap.status[x] = "unused"
         /\ \A x \in Sess : heap.status[x] # "unused" => future'[x] = future[x]
<1>0. /\ HeapType(heap, Slot, Sess) /\ o \in Slot /\ k \in Slot /\ o # k
      /\ heap.ptr[k] # NULL => heap.status[heap.ptr[k]] = "live"
      /\ future \in [Sess -> {"none", "pending", "ok", "error"}]
  BY Shapes DEF Inv, TypeOK
<1>1. CASE Reuse(o, k, p, s)
  <2>1. /\ p /\ s = heap.ptr[k] /\ heap.status[s] = "live" /\ future' = future
        /\ heap'.ptr = [heap.ptr EXCEPT ![o] = s] /\ heap'.status = heap.status
    BY <1>0, <1>1, Constants DEF Reuse, Listed, AddRef
  <2>. QED  BY <1>0, <2>1 DEF HeapType
<1>2. CASE OpenNew(o, k, p, s)
  <2>1. /\ heap.status[s] = "unused" /\ ~(p /\ heap.ptr[k] # NULL)
        /\ future' = [future EXCEPT ![s] = "pending"]
        /\ heap'.status = [heap.status EXCEPT ![s] = "live"]
    BY <1>2 DEF OpenNew, Listed, AddRef, NewPeref
  <2>2. CASE p
    <3>1. heap'.ptr = [[heap.ptr EXCEPT ![o] = s] EXCEPT ![k] = s]
      BY <1>2, <2>2 DEF OpenNew, AddRef, NewPeref
    <3>. QED  BY <1>0, <2>1, <2>2, <3>1 DEF HeapType
  <2>3. CASE ~p
    <3>1. heap'.ptr = [heap.ptr EXCEPT ![o] = s]
      BY <1>2, <2>3 DEF OpenNew, NewPeref
    <3>. QED  BY <1>0, <2>1, <2>3, <3>1 DEF HeapType
  <2>. QED  BY <2>2, <2>3
<1>. QED  BY <1>1, <1>2 DEF Acquire

(* An object takes a session that nothing used before, or shares one with  *)
(* the list (connect, connectAsync) or with a FutureSession (get).         *)
LEMMA AcquirePool ==
  ASSUME Inv, PoolInv, NEW o \in Obj, heap.ptr[o] = NULL, NEW k \in Key,
         NEW p \in BOOLEAN, NEW s \in Sess, Acquire(o, k, p, s),
         Persist(o)' = p, KeyOf(o)' = k,
         \A x \in Obj : x # o => /\ Persist(x)' = Persist(x) /\ KeyOf(x)' = KeyOf(x)
                                 /\ Owns(x)' => Owns(x),
         UNCHANGED <<frees, closed, reported>>
  PROVE  PoolInv'
<1>1. /\ \A x \in Slot : heap.ptr[x] \in Sess \cup {NULL}
      /\ \A x \in Slot : heap.ptr[x] # NULL => heap.status[heap.ptr[x]] = "live"
      /\ frees \in [Sess -> Nat]
      /\ \A x \in Obj : x \in Slot /\ x \notin Key
      /\ \A j \in Key : j \in Slot /\ j \notin Obj
      /\ NULL \notin Sess
  BY Shapes
<1>2. /\ heap'.ptr[o] = s
      /\ \A x \in Slot : x # o /\ x # k => heap'.ptr[x] = heap.ptr[x]
      /\ heap'.ptr[k] = IF p THEN s ELSE heap.ptr[k]
      /\ heap.status[s] = "unused" => heap.ptr[k] = NULL \/ ~p
      /\ heap.status[s] # "unused" => p /\ heap.ptr[k] = s
      /\ \A x \in Sess : heap'.status[x] = "unused" => heap.status[x] = "unused"
  BY AcquireShape
<1>3. frees[s] = 0 /\ ~closed[s]
  BY <1>1, <1>2 DEF PoolInv, FreshOK, ListOK, Listed
<1>4. /\ \A x \in Obj : x # o /\ heap.ptr[x] = s => p /\ Persist(x)
      /\ \A j \in Key : heap.ptr[j] = s => p /\ j = k
  <2>1. CASE heap.status[s] = "unused"
    BY <1>1, <2>1
  <2>2. CASE heap.status[s] # "unused"
    BY <1>1, <1>2, <2>2 DEF PoolInv, ListOK, Listed
  <2>. QED  BY <2>1, <2>2
<1>5. \A x \in Obj : x # o => heap'.ptr[x] = heap.ptr[x]
  BY <1>1, <1>2
<1>6. \A j \in Key : j # k => heap'.ptr[j] = heap.ptr[j]
  BY <1>1, <1>2
<1>7. ListOK'
  <2> SUFFICES ASSUME NEW j \in Key, heap'.ptr[j] # NULL
               PROVE  /\ frees[heap'.ptr[j]] = 0 /\ ~closed[heap'.ptr[j]]
                      /\ \A i \in Key : heap'.ptr[i] = heap'.ptr[j] => i = j
                      /\ \A x \in Obj : heap'.ptr[x] = heap'.ptr[j] => Persist(x)'
    BY DEF ListOK, Listed
  <2>1. CASE heap'.ptr[j] = s /\ p
    BY <1>2, <1>3, <1>4, <1>5, <1>6, <2>1
  <2>2. CASE heap'.ptr[j] # s \/ ~p
    <3>1. heap'.ptr[j] = heap.ptr[j] /\ heap.ptr[j] # s
      BY <1>2, <1>4, <1>6, <2>2
    <3>2. /\ frees[heap.ptr[j]] = 0 /\ ~closed[heap.ptr[j]]
          /\ \A i \in Key : heap.ptr[i] = heap.ptr[j] => i = j
          /\ \A x \in Obj : heap.ptr[x] = heap.ptr[j] => Persist(x)
      BY <3>1 DEF PoolInv, ListOK, Listed
    <3>. QED  BY <1>2, <1>5, <1>6, <3>1, <3>2
  <2>. QED  BY <2>1, <2>2
<1>8. FreshOK'
  BY <1>2 DEF PoolInv, FreshOK
<1>9. OwnerOK'
  <2>1. ASSUME NEW x \in Obj, x # o, Owns(x)'
        PROVE  Owns(x) /\ heap'.ptr[x] = heap.ptr[x] /\ heap.ptr[x] # s
    <3>1. Owns(x) /\ heap'.ptr[x] = heap.ptr[x]
      BY <1>5, <2>1
    <3>2. ~Persist(x)
      BY <3>1 DEF Owns
    <3>. QED  BY <1>4, <2>1, <3>1, <3>2
  <2>2. ASSUME NEW x \in Obj, Owns(x)' PROVE frees'[heap'.ptr[x]] = 0
    BY <1>2, <1>3, <2>1, <2>2 DEF PoolInv, OwnerOK
  <2>3. ASSUME NEW x \in Obj, Owns(x)', NEW q \in Obj, Owns(q)', heap'.ptr[q] = heap'.ptr[x]
        PROVE  q = x
    BY <1>2, <2>1, <2>3 DEF PoolInv, OwnerOK
  <2>. QED  BY <2>2, <2>3 DEF OwnerOK
<1>10. KindOK'
  <2> SUFFICES ASSUME NEW x \in Obj, NEW q \in Obj, heap'.ptr[x] # NULL,
                      heap'.ptr[x] = heap'.ptr[q]
               PROVE  Persist(x)' = Persist(q)'
    BY DEF KindOK
  <2>0. Persist(x) \in BOOLEAN /\ Persist(q) \in BOOLEAN
    BY DEF Inv, TypeOK, Persist, Rec, Obj
  <2>1. CASE x # o /\ q # o
    BY <1>5, <2>1 DEF PoolInv, KindOK
  <2>2. CASE x = o \/ q = o
    BY <1>2, <1>4, <1>5, <2>0, <2>2
  <2>. QED  BY <2>1, <2>2
<1>11. PersistOK'
  <2> SUFFICES ASSUME NEW x \in Obj, Persist(x)'
               PROVE  /\ heap'.ptr[x] # NULL /\ KeyOf(x)' \in Key /\ ~closed[heap'.ptr[x]]
                      /\ heap'.ptr[x] = heap'.ptr[KeyOf(x)'] \/ frees[heap'.ptr[x]] > 0
    BY DEF PersistOK
  <2>1. CASE x = o
    BY <1>1, <1>2, <1>3, <2>1
  <2>2. CASE x # o
    <3>1. heap'.ptr[x] = heap.ptr[x] /\ Persist(x) /\ KeyOf(x)' = KeyOf(x)
      BY <1>5, <2>2
    <3>2. /\ heap.ptr[x] # NULL /\ KeyOf(x) \in Key /\ ~closed[heap.ptr[x]]
          /\ heap.ptr[x] = heap.ptr[KeyOf(x)] \/ frees[heap.ptr[x]] > 0
      BY <3>1 DEF PoolInv, PersistOK
    <3>3. CASE heap.ptr[x] = heap.ptr[KeyOf(x)]
      <4>1. heap'.ptr[KeyOf(x)] = heap.ptr[KeyOf(x)]
        <5>1. CASE KeyOf(x) # k
          BY <1>6, <3>2, <5>1
        <5>2. CASE KeyOf(x) = k
          BY <1>1, <1>2, <3>2, <3>3, <5>2
        <5>. QED  BY <5>1, <5>2
      <4>. QED  BY <3>1, <3>2, <3>3, <4>1
    <3>. QED  BY <3>1, <3>2, <3>3
  <2>. QED  BY <2>1, <2>2
<1>12. NoDoubleFree' /\ ReportedOK'
  BY DEF PoolInv, NoDoubleFree, ReportedOK
<1>. QED  BY <1>7, <1>8, <1>9, <1>10, <1>11, <1>12 DEF PoolInv

(* get lets a new object share the session of its FutureSession.           *)
LEMMA GetPool ==
  ASSUME Inv, PoolInv, NEW f \in FSess, NEW d \in DSess, NEW timed \in BOOLEAN,
         Get(f, d, timed)
  PROVE  PoolInv'
<1> DEFINE s == heap.ptr[f]
<1>1. /\ \A x \in Slot : heap.ptr[x] \in Sess \cup {NULL}
      /\ \A x \in Slot : heap.ptr[x] # NULL => heap.status[heap.ptr[x]] = "live"
      /\ \A x \in Obj : x \in Slot /\ x \notin Key
      /\ \A j \in Key : j \in Slot /\ j \notin Obj
      /\ NULL \notin Sess /\ HeapType(heap, Slot, Sess)
      /\ f \in Obj /\ d \in Obj /\ d # f
  BY Shapes, Constants DEF Obj
<1>2. /\ heap.ptr[d] = NULL /\ s \in Sess /\ fs[f].st = "live"
      /\ UNCHANGED <<frees, closed, fs, reported>>
      /\ heap'.ptr = [heap.ptr EXCEPT ![d] = s] /\ heap'.status = heap.status
      /\ ds' = [ds EXCEPT ![d] = [st |-> "building", persist |-> fs[f].persist,
                                  key |-> fs[f].key]]
      /\ call = NoCall /\ call'.op = "get"
  BY <1>1 DEF Get, Inv, SlotsInUse, Idle, AddRef
<1>3. heap'.ptr[d] = s /\ \A x \in Slot : x # d => heap'.ptr[x] = heap.ptr[x]
  BY <1>1, <1>2 DEF HeapType
<1>4. Persist(d)' = Persist(f) /\ KeyOf(d)' = KeyOf(f) /\ ~Owns(d)'
  BY <1>1, <1>2, Constants DEF Persist, KeyOf, Rec, Owns, Inv, TypeOK
<1>5. \A x \in Obj : x # d => /\ Persist(x)' = Persist(x) /\ KeyOf(x)' = KeyOf(x)
                              /\ Owns(x)' => Owns(x)
  <2>1. \A x \in Obj : x # d => Rec(x)' = Rec(x)
    BY <1>2 DEF Rec, Inv, TypeOK
  <2>. QED  BY <1>1, <1>2, <1>3, <2>1 DEF Persist, KeyOf, Owns
<1>6. \A x \in Obj : x # d => heap'.ptr[x] = heap.ptr[x]
  BY <1>1, <1>3
<1>7. \A k \in Key : heap'.ptr[k] = heap.ptr[k]
  BY <1>1, <1>3
<1>8. ListOK'
  <2> SUFFICES ASSUME NEW k \in Key, heap.ptr[k] # NULL
               PROVE  /\ frees[heap.ptr[k]] = 0 /\ ~closed[heap.ptr[k]]
                      /\ \A j \in Key : heap.ptr[j] = heap.ptr[k] => j = k
                      /\ \A o \in Obj : heap'.ptr[o] = heap.ptr[k] => Persist(o)'
    BY <1>2, <1>7 DEF ListOK, Listed
  <2>1. /\ frees[heap.ptr[k]] = 0 /\ ~closed[heap.ptr[k]]
        /\ \A j \in Key : heap.ptr[j] = heap.ptr[k] => j = k
        /\ \A o \in Obj : heap.ptr[o] = heap.ptr[k] => Persist(o)
    BY DEF PoolInv, ListOK, Listed
  <2>. QED  BY <1>1, <1>3, <1>4, <1>5, <1>6, <2>1
<1>9. FreshOK'
  BY <1>2 DEF PoolInv, FreshOK
<1>10. OwnerOK'
  <2>1. ASSUME NEW x \in Obj, Owns(x)'
        PROVE  Owns(x) /\ heap'.ptr[x] = heap.ptr[x]
    BY <1>4, <1>5, <1>6, <2>1
  <2>. QED  BY <1>2, <2>1 DEF PoolInv, OwnerOK
<1>11. KindOK'
  <2> SUFFICES ASSUME NEW x \in Obj, NEW q \in Obj, heap'.ptr[x] # NULL,
                      heap'.ptr[x] = heap'.ptr[q]
               PROVE  Persist(x)' = Persist(q)'
    BY DEF KindOK
  <2> DEFINE u == IF x = d THEN f ELSE x
             v == IF q = d THEN f ELSE q
  <2>1. /\ u \in Obj /\ v \in Obj /\ heap'.ptr[x] = heap.ptr[u] /\ heap'.ptr[q] = heap.ptr[v]
        /\ Persist(x)' = Persist(u) /\ Persist(q)' = Persist(v)
    BY <1>1, <1>3, <1>4, <1>5, <1>6
  <2> HIDE DEF u, v
  <2>. QED  BY <2>1 DEF PoolInv, KindOK
<1>12. PersistOK'
  <2> SUFFICES ASSUME NEW x \in Obj, Persist(x)'
               PROVE  /\ heap'.ptr[x] # NULL /\ KeyOf(x)' \in Key /\ ~closed[heap'.ptr[x]]
                      /\ heap'.ptr[x] = heap'.ptr[KeyOf(x)'] \/ frees[heap'.ptr[x]] > 0
    BY <1>2 DEF PersistOK
  <2> DEFINE u == IF x = d THEN f ELSE x
  <2>1. /\ u \in Obj /\ heap'.ptr[x] = heap.ptr[u] /\ Persist(u) /\ KeyOf(x)' = KeyOf(u)
    BY <1>1, <1>3, <1>4, <1>5, <1>6
  <2> HIDE DEF u
  <2>2. /\ heap.ptr[u] # NULL /\ KeyOf(u) \in Key /\ ~closed[heap.ptr[u]]
        /\ heap.ptr[u] = heap.ptr[KeyOf(u)] \/ frees[heap.ptr[u]] > 0
    BY <2>1 DEF PoolInv, PersistOK
  <2>. QED  BY <1>7, <2>1, <2>2
<1>13. NoDoubleFree' /\ ReportedOK'
  BY <1>2 DEF PoolInv, NoDoubleFree, ReportedOK
<1>. QED  BY <1>8, <1>9, <1>10, <1>11, <1>12, <1>13 DEF PoolInv

(* close reaches only a session that no list entry and no object of a      *)
(* persistent cluster shares.                                              *)
LEMMA ClosePool ==
  ASSUME Inv, PoolInv, NEW d \in DSess, Close(d)
  PROVE  PoolInv'
<1> DEFINE s == heap.ptr[d]
<1>1. /\ \A x \in Slot : heap.ptr[x] # NULL => heap.status[heap.ptr[x]] = "live"
      /\ closed \in [Sess -> BOOLEAN] /\ d \in Slot /\ d \in Obj
      /\ \A x \in Slot : heap.ptr[x] \in Sess \cup {NULL}
  BY Shapes, Constants DEF Inv, TypeOK, Obj
<1>2. /\ s # NULL /\ ~Persist(d) /\ closed' = [closed EXCEPT ![s] = TRUE]
      /\ UNCHANGED <<heap, frees, ds, fs, call, reported>>
  BY DEF Close, Inv, SlotsInUse, Persist, Rec
<1>3. s \in Sess /\ heap.status[s] = "live" /\ \A x \in Sess : x # s => closed'[x] = closed[x]
  BY <1>1, <1>2
<1>4. \A x \in Obj : /\ Persist(x)' = Persist(x) /\ KeyOf(x)' = KeyOf(x)
                     /\ Owns(x)' = Owns(x)
  BY <1>2 DEF Persist, KeyOf, Owns, Rec
<1>5. ListOK'
  <2>1. \A k \in Key : Listed(k) => heap.ptr[k] # s /\ heap.ptr[k] \in Sess
    BY <1>1, <1>2, Constants DEF PoolInv, ListOK, Listed
  <2>. QED  BY <1>2, <1>3, <1>4, <2>1 DEF PoolInv, ListOK, Listed
<1>6. FreshOK'
  BY <1>2, <1>3 DEF PoolInv, FreshOK
<1>7. OwnerOK' /\ KindOK'
  BY <1>2, <1>4 DEF PoolInv, OwnerOK, KindOK
<1>8. PersistOK'
  <2>1. ASSUME NEW x \in Obj, Persist(x)
        PROVE  heap.ptr[x] # s /\ heap.ptr[x] \in Sess
    <3>1. heap.ptr[x] # NULL /\ x \in Slot
      BY <2>1, Shapes DEF PoolInv, PersistOK
    <3>. QED  BY <1>1, <1>2, <2>1, <3>1 DEF PoolInv, KindOK
  <2>. QED  BY <1>2, <1>3, <1>4, <2>1 DEF PoolInv, PersistOK
<1>9. NoDoubleFree' /\ ReportedOK'
  BY <1>2 DEF PoolInv, NoDoubleFree, ReportedOK
<1>. QED  BY <1>5, <1>6, <1>7, <1>8, <1>9 DEF PoolInv

-----------------------------------------------------------------------------
(* No handle goes back to the state before it existed.                     *)
LEMMA DelPerefStatus ==
  ASSUME NEW h, HeapType(h, Slot, Sess), NEW o \in Slot, NEW x \in Sess,
         DelPeref(h, o).status[x] = "unused"
  PROVE  h.status[x] = "unused"
BY DEF DelPeref, HeapType

(* The same after a DefaultSession object was freed, in both builds.       *)
LEMMA FreeSessionStatus ==
  ASSUME NEW h, HeapType(h, Slot, Sess), NEW d \in DSess, NEW x \in Sess,
         FreeSession(h, d).status[x] = "unused"
  PROVE  h.status[x] = "unused"
<1>1. d \in Slot
  BY Constants
<1>2. CASE free_installed
  BY <1>1, <1>2, DelPerefStatus DEF FreeSession
<1>3. CASE ~free_installed
  BY <1>3 DEF FreeSession
<1>. QED  BY <1>2, <1>3

(* The object that a failing call or DropSession frees leaves or, without  *)
(* free handlers, stays for ever; the other objects stay.                  *)
LEMMA ForgetShape ==
  ASSUME Inv, NEW h, HeapType(h, Slot, Sess), HeapOK(h, Slot, Sess),
         \A x \in Obj : h.ptr[x] = heap.ptr[x],
         \A x \in Sess : h.status[x] = "unused" => heap.status[x] = "unused",
         NEW d \in DSess, heap' = FreeSession(h, d), ds' = ForgetSession(d),
         \A f \in FSess : fs'[f].persist = fs[f].persist /\ fs'[f].key = fs[f].key,
         call' = NoCall
  PROVE  /\ \A o \in Obj : Keeps(o) \/ Leaves(o)
         /\ \A o \in Obj : o # d => heap'.ptr[o] = heap.ptr[o]
         /\ \A k \in Key : heap'.ptr[k] = h.ptr[k]
         /\ \A x \in Sess : heap'.status[x] = "unused" => heap.status[x] = "unused"
         /\ \A e \in DSess : e # d => ds'[e] = ds[e]
         /\ ds'[d].st = IF free_installed THEN "absent" ELSE "leaked"
<1>1. /\ \A o \in Obj : o \in Slot /\ o \notin Key
      /\ \A k \in Key : k \in Slot /\ k \notin Obj
      /\ d \in Obj /\ d \in Slot /\ \A f \in FSess : f \notin DSess
  BY Shapes, Constants DEF Obj
<1>2. heap'.ptr = IF free_installed THEN [h.ptr EXCEPT ![d] = NULL] ELSE h.ptr
  BY FreeSessionOK
<1>3. /\ \A x \in Slot : x # d => heap'.ptr[x] = h.ptr[x]
      /\ heap'.ptr[d] = IF free_installed THEN NULL ELSE h.ptr[d]
  BY <1>1, <1>2 DEF HeapType
<1>4. ds \in [DSess -> [st : {"absent", "building", "user", "cached", "leaked"},
                        persist : BOOLEAN, key : Key \cup {NULL}]]
  BY DEF Inv, TypeOK
<1>5. /\ \A e \in DSess : e # d => ds'[e] = ds[e]
      /\ ds'[d].st = IF free_installed THEN "absent" ELSE "leaked"
      /\ ds'[d].persist = IF free_installed THEN FALSE ELSE ds[d].persist
      /\ ds'[d].key = IF free_installed THEN NULL ELSE ds[d].key
  BY <1>4 DEF ForgetSession, NoSession
<1>6. \A x \in Obj : x # d => Persist(x)' = Persist(x) /\ KeyOf(x)' = KeyOf(x)
  BY <1>5 DEF Persist, KeyOf, Rec, Obj
<1>7. \A x \in Obj : Owns(x)' => x \in FSess /\ x # d
  BY <1>1 DEF Owns, NoCall
<1>8. ASSUME NEW x \in Obj, x # d PROVE Keeps(x)
  <2>1. heap'.ptr[x] = heap.ptr[x]
    BY <1>1, <1>3, <1>8
  <2>. QED  BY <1>6, <1>7, <1>8, <2>1 DEF Keeps, Owns
<1>9. CASE free_installed
  <2>1. Leaves(d)
    BY <1>3, <1>5, <1>9 DEF Leaves, Persist, Rec
  <2>. QED  BY <1>1, <1>3, <1>5, <1>8, <2>1, FreeSessionStatus
<1>10. CASE ~free_installed
  <2>1. Keeps(d)
    BY <1>1, <1>3, <1>5, <1>7, <1>10 DEF Keeps, Persist, KeyOf, Rec
  <2>. QED  BY <1>1, <1>3, <1>5, <1>8, <2>1, FreeSessionStatus
<1>. QED  BY <1>9, <1>10

(* An eviction frees the future of the listed session, once, and nobody    *)
(* who would free it again is left.                                        *)
LEMMA EvictShape ==
  ASSUME Inv, PoolInv, NEW k \in Key, frees' = DtorFreed(k),
         \A j \in Key : heap'.ptr[j] = DtorHeap(k).ptr[j],
         \A o \in Obj : Keeps(o) \/ Leaves(o)
  PROVE  /\ \A j \in Key : \/ heap'.ptr[j] = heap.ptr[j]
                           \/ heap'.ptr[j] = NULL /\ frees'[heap.ptr[j]] > 0
         /\ \A s \in Sess : frees'[s] = frees[s] \/ FreedOnce(s)
         /\ heap.ptr[k] # NULL => frees'[heap.ptr[k]] > 0
         /\ \A s \in Sess : frees'[s] >= frees[s]
<1>1. /\ \A x \in Slot : heap.ptr[x] \in Sess \cup {NULL}
      /\ \A x \in Slot : heap.ptr[x] # NULL => heap.status[heap.ptr[x]] = "live"
      /\ frees \in [Sess -> Nat]
      /\ HeapType(heap, Slot, Sess)
      /\ \A j \in Key : j \in Slot
      /\ NULL \notin Sess
  BY Shapes
<1>2. heap'.ptr[k] = NULL /\ \A j \in Key : j # k => heap'.ptr[j] = heap.ptr[j]
  <2>1. DtorHeap(k).ptr = [heap.ptr EXCEPT ![k] = NULL]
    BY DtorOK DEF Inv
  <2>. QED  BY <1>1, <2>1 DEF HeapType
<1>3. CASE heap.ptr[k] = NULL
  BY <1>1, <1>2, <1>3 DEF DtorFreed, Listed
<1>4. CASE heap.ptr[k] # NULL
  <2> DEFINE s == heap.ptr[k]
  <2>1. s \in Sess /\ heap.status[s] = "live"
    BY <1>1, <1>4
  <2>2. /\ frees[s] = 0
        /\ \A j \in Key : heap.ptr[j] = s => j = k
        /\ \A o \in Obj : heap.ptr[o] = s => Persist(o)
    BY <1>4 DEF PoolInv, ListOK, Listed
  <2>3. /\ frees'[s] = 1
        /\ \A x \in Sess : x # s => frees'[x] = frees[x]
    BY <1>1, <1>4, <2>1, <2>2 DEF DtorFreed, Listed, FutureFree
  <2>4. \A o \in Obj : Owns(o)' => heap'.ptr[o] # s
    <3> SUFFICES ASSUME NEW o \in Obj, Owns(o)', heap'.ptr[o] = s
                 PROVE  FALSE
      OBVIOUS
    <3>1. ~Persist(o)' /\ heap'.ptr[o] # NULL
      BY DEF Owns
    <3>2. heap.ptr[o] = s /\ ~Persist(o)
      BY <3>1 DEF Keeps, Leaves
    <3>. QED  BY <2>2, <3>2
  <2>5. FreedOnce(s)
    BY <1>1, <1>2, <1>4, <2>1, <2>2, <2>3, <2>4 DEF FreedOnce
  <2>. QED  BY <1>1, <1>2, <2>1, <2>2, <2>3, <2>5
<1>. QED  BY <1>3, <1>4

(* The futures an object will free, at the step in which it frees one.     *)
LEMMA OwnerShape ==
  ASSUME Inv, PoolInv, NEW o \in Obj, Owns(o), ~Owns(o)',
         frees' = FutureFree(heap.ptr[o]),
         \A k \in Key : heap'.ptr[k] = heap.ptr[k],
         \A x \in Obj : Keeps(x) \/ Leaves(x)
  PROVE  \A s \in Sess : frees'[s] = frees[s] \/ FreedOnce(s)
<1> DEFINE s == heap.ptr[o]
<1>1. /\ s \in Sess /\ heap.status[s] = "live" /\ frees \in [Sess -> Nat]
      /\ NULL \notin Sess
  BY Shapes DEF Owns
<1>2. /\ frees[s] = 0 /\ \A q \in Obj : Owns(q) /\ heap.ptr[q] = s => q = o
  BY DEF PoolInv, OwnerOK
<1>3. frees'[s] = 1 /\ \A x \in Sess : x # s => frees'[x] = frees[x]
  BY <1>1, <1>2 DEF FutureFree
<1>4. \A k \in Key : heap'.ptr[k] # s
  <2>1. ~Persist(o) /\ s # NULL
    BY DEF Owns
  <2>. QED  BY <2>1 DEF PoolInv, ListOK, Listed
<1>5. \A q \in Obj : Owns(q)' => heap'.ptr[q] # s
  <2> SUFFICES ASSUME NEW q \in Obj, Owns(q)', heap'.ptr[q] = s
               PROVE  FALSE
    OBVIOUS
  <2>1. heap'.ptr[q] # NULL
    BY DEF Owns
  <2>2. Owns(q) /\ heap.ptr[q] = s
    BY <2>1 DEF Keeps, Leaves
  <2>. QED  BY <1>2, <2>2
<1>6. FreedOnce(s)
  BY <1>1, <1>2, <1>3, <1>4, <1>5 DEF FreedOnce
<1>. QED  BY <1>3, <1>6

-----------------------------------------------------------------------------
(* What objects know of their futures does not change when neither their   *)
(* records nor their sessions do.                                          *)
LEMMA FuturesKept ==
  ASSUME FuturesOK,
         \A f \in FSess : /\ fs'[f].st # "absent" => fs[f].st # "absent"
                          /\ fs'[f].exception = fs[f].exception
                          /\ fs'[f].future = fs[f].future
                          /\ fs'[f].persist = fs[f].persist
                          /\ heap'.ptr[f] = heap.ptr[f]
  PROVE  FuturesOK'
BY DEF FuturesOK

(* A session that PHP code keeps stays connected, or evicted.              *)
LEMMA ConnectedKept ==
  ASSUME Inv, Inv', ConnectedOK,
         \A d \in DSess : ds'[d].st \in {"user", "cached"} =>
            /\ ds[d].st \in {"user", "cached"} /\ ds'[d].persist = ds[d].persist
            /\ heap'.ptr[d] = heap.ptr[d],
         \A s \in Sess : /\ frees'[s] >= frees[s]
                         /\ heap.status[s] # "unused" /\ future[s] = "ok" => future'[s] = "ok"
  PROVE  ConnectedOK'
<1> SUFFICES ASSUME NEW d \in DSess, ds'[d].st \in {"user", "cached"}
             PROVE  \/ ds'[d].persist /\ frees'[heap'.ptr[d]] > 0
                    \/ future'[heap'.ptr[d]] = "ok"
  BY DEF ConnectedOK
<1>1. /\ ds[d].st \in {"user", "cached"} /\ ds'[d].persist = ds[d].persist
      /\ heap'.ptr[d] = heap.ptr[d]
  OBVIOUS
<1>2. heap.ptr[d] \in Sess /\ heap.status[heap.ptr[d]] = "live"
  <2>1. heap.ptr[d] # NULL
    BY <1>1 DEF Inv, SlotsInUse
  <2>. QED  BY <2>1, Shapes, Constants
<1>3. frees[heap.ptr[d]] \in Nat /\ frees'[heap.ptr[d]] \in Nat
  BY <1>2 DEF Inv, TypeOK
<1>. QED  BY <1>1, <1>2, <1>3 DEF ConnectedOK

(* A call that throws: objects stay or leave, and what is known of futures *)
(* and of the sessions in use is still true.                               *)
LEMMA FailShape ==
  ASSUME Inv, Inv', PoolInv, HandleInv, call.op # "none", call' = NoCall,
         NEW h, HeapType(h, Slot, Sess), HeapOK(h, Slot, Sess),
         \A x \in Obj : h.ptr[x] = heap.ptr[x],
         \A x \in Sess : h.status[x] = "unused" => heap.status[x] = "unused",
         heap' = FreeSession(h, call.d), ds' = ForgetSession(call.d),
         \A f \in FSess : fs'[f].persist = fs[f].persist /\ fs'[f].key = fs[f].key
  PROVE  /\ \A o \in Obj : Keeps(o) \/ Leaves(o)
         /\ \A f \in FSess : heap'.ptr[f] = heap.ptr[f]
         /\ \A k \in Key : heap'.ptr[k] = h.ptr[k]
         /\ \A x \in Sess : heap'.status[x] = "unused" => heap.status[x] = "unused"
         /\ CallFutureOK'
         /\ (\A s \in Sess : frees'[s] >= frees[s]) /\ future' = future => ConnectedOK'
<1> DEFINE d == call.d
<1>1. d \in DSess /\ ds[d].st = "building"
  BY DEF Inv, CallInv
<1>2. /\ \A o \in Obj : Keeps(o) \/ Leaves(o)
      /\ \A o \in Obj : o # d => heap'.ptr[o] = heap.ptr[o]
      /\ \A k \in Key : heap'.ptr[k] = h.ptr[k]
      /\ \A x \in Sess : heap'.status[x] = "unused" => heap.status[x] = "unused"
      /\ \A e \in DSess : e # d => ds'[e] = ds[e]
      /\ ds'[d].st = IF free_installed THEN "absent" ELSE "leaked"
  BY <1>1, ForgetShape
<1>3. CallFutureOK'
  BY DEF CallFutureOK, NoCall
<1>4. ASSUME \A s \in Sess : frees'[s] >= frees[s], future' = future
      PROVE  ConnectedOK'
  <2>1. \A e \in DSess : ds'[e].st \in {"user", "cached"} =>
            /\ ds[e].st \in {"user", "cached"} /\ ds'[e].persist = ds[e].persist
            /\ heap'.ptr[e] = heap.ptr[e]
    BY <1>2 DEF Obj
  <2>. QED  BY <1>4, <2>1, ConnectedKept DEF HandleInv
<1>5. \A f \in FSess : heap'.ptr[f] = heap.ptr[f]
  BY <1>1, <1>2, Constants DEF Obj
<1>. QED  BY <1>2, <1>3, <1>4, <1>5

(* What eviction leaves, as the failing calls meet it.                     *)
LEMMA DtorShape ==
  ASSUME Inv, NEW k \in Key
  PROVE  /\ HeapType(DtorHeap(k), Slot, Sess) /\ HeapOK(DtorHeap(k), Slot, Sess)
         /\ \A x \in Obj : DtorHeap(k).ptr[x] = heap.ptr[x]
         /\ \A x \in Sess : DtorHeap(k).status[x] = "unused" => heap.status[x] = "unused"
<1>1. /\ HeapType(heap, Slot, Sess) /\ k \in Slot
      /\ \A x \in Obj : x \in Slot /\ x # k
  BY Shapes
<1>2. /\ HeapType(DtorHeap(k), Slot, Sess) /\ HeapOK(DtorHeap(k), Slot, Sess)
      /\ DtorHeap(k).ptr = [heap.ptr EXCEPT ![k] = NULL]
  BY DtorOK DEF Inv
<1>3. \A x \in Obj : DtorHeap(k).ptr[x] = heap.ptr[x]
  BY <1>1, <1>2 DEF HeapType
<1>. QED  BY <1>1, <1>2, <1>3, DelPerefStatus DEF DtorHeap

(* connect throws, with and without eviction: an attempt of its own that   *)
(* no list entry shares is freed by connect itself.                        *)
LEMMA ConnectFailsPool ==
  ASSUME Inv, Inv', PoolInv, HandleInv, ConnectTimeout \/ ConnectError
  PROVE  PoolInv' /\ HandleInv'
<1>0. PICK d \in DSess : d = call.d
  BY DEF Inv, CallInv, ConnectTimeout, ConnectError
<1> DEFINE k == ds[d].key
<1>1. /\ call.op = "connect" /\ d = call.d /\ d \in Obj /\ k \in Key /\ call' = NoCall
      /\ ds' = ForgetSession(call.d) /\ fs' = fs /\ closed' = closed /\ future' = future
      /\ call.future \in Sess /\ call.future = heap.ptr[d]
      /\ ds[d].persist \in BOOLEAN /\ NULL \notin Sess
      /\ \A o \in Obj : o \in Slot
  <2>1. /\ call.op = "connect" /\ call' = NoCall
        /\ ds' = ForgetSession(call.d) /\ fs' = fs /\ closed' = closed /\ future' = future
    BY DEF ConnectTimeout, ConnectError
  <2>2. /\ d = call.d /\ k \in Key /\ call.future \in Sess /\ call.future = heap.ptr[d]
    BY <1>0, <2>1 DEF Inv, CallInv, HandleInv, CallFutureOK
  <2>. QED  BY <2>1, <2>2, Shapes DEF Obj, Inv, TypeOK
<1>2. /\ HeapType(heap, Slot, Sess) /\ HeapOK(heap, Slot, Sess)
      /\ frees \in [Sess -> Nat]
  BY Shapes
<1>3. Persist(d) = ds[d].persist /\ (~Persist(d) => Owns(d)) /\ ~Owns(d)'
  BY <1>1, Constants DEF Persist, Rec, Owns, NoCall
<1>4. \A s \in reported : s \in Sess /\ frees[s] > 0
  BY DEF PoolInv, ReportedOK
<1>5. CASE /\ heap' = FreeSession(heap, d) /\ reported' = reported
           /\ frees' = IF ds[d].persist THEN frees ELSE FutureFree(call.future)
  <2>1. /\ \A o \in Obj : Keeps(o) \/ Leaves(o)
        /\ \A f \in FSess : heap'.ptr[f] = heap.ptr[f]
        /\ \A j \in Key : heap'.ptr[j] = heap.ptr[j]
        /\ \A x \in Sess : heap'.status[x] = "unused" => heap.status[x] = "unused"
        /\ CallFutureOK'
        /\ (\A s \in Sess : frees'[s] >= frees[s]) /\ future' = future => ConnectedOK'
    BY <1>1, <1>2, <1>5, FailShape
  <2>2. \A s \in Sess : frees'[s] = frees[s] \/ FreedOnce(s)
    <3>1. CASE ds[d].persist
      BY <1>5, <3>1
    <3>2. CASE ~ds[d].persist
      <4>1. frees' = FutureFree(heap.ptr[d])
        BY <1>1, <1>5, <3>2
      <4>2. d \in Obj /\ Owns(d) /\ ~Owns(d)'
        BY <1>1, <1>3, <3>2
      <4>. QED  BY <2>1, <4>1, <4>2, OwnerShape
    <3>. QED  BY <3>1, <3>2
  <2>3. Release
    BY <1>1, <1>4, <1>5, <2>1, <2>2 DEF Release
  <2>4. \A s \in Sess : frees'[s] >= frees[s]
    BY <1>2, <2>2 DEF FreedOnce
  <2>5. FuturesOK'
    BY <1>1, <2>1, FuturesKept DEF HandleInv
  <2>. QED  BY <1>1, <2>1, <2>3, <2>4, <2>5, ReleasePool DEF HandleInv
<1>6. CASE /\ heap' = FreeSession(DtorHeap(k), d) /\ reported' = reported \cup {call.future}
           /\ frees' = DtorFreed(k) /\ ds[d].persist
  <2>1. /\ HeapType(DtorHeap(k), Slot, Sess) /\ HeapOK(DtorHeap(k), Slot, Sess)
        /\ \A x \in Obj : DtorHeap(k).ptr[x] = heap.ptr[x]
        /\ \A x \in Sess : DtorHeap(k).status[x] = "unused" => heap.status[x] = "unused"
    BY <1>1, DtorShape
  <2>2. /\ \A o \in Obj : Keeps(o) \/ Leaves(o)
        /\ \A f \in FSess : heap'.ptr[f] = heap.ptr[f]
        /\ \A j \in Key : heap'.ptr[j] = DtorHeap(k).ptr[j]
        /\ \A x \in Sess : heap'.status[x] = "unused" => heap.status[x] = "unused"
        /\ CallFutureOK'
        /\ (\A s \in Sess : frees'[s] >= frees[s]) /\ future' = future => ConnectedOK'
    BY <1>1, <1>6, <2>1, FailShape
  <2>3. /\ \A j \in Key : \/ heap'.ptr[j] = heap.ptr[j]
                          \/ heap'.ptr[j] = NULL /\ frees'[heap.ptr[j]] > 0
        /\ \A s \in Sess : frees'[s] = frees[s] \/ FreedOnce(s)
        /\ heap.ptr[k] # NULL => frees'[heap.ptr[k]] > 0
        /\ \A s \in Sess : frees'[s] >= frees[s]
    BY <1>1, <1>6, <2>2, EvictShape
  <2>4. frees'[call.future] > 0
    <3>1. KeyOf(d) = k
      BY <1>1 DEF KeyOf, Rec
    <3>2. heap.ptr[d] # NULL /\ (heap.ptr[d] = heap.ptr[k] \/ frees[heap.ptr[d]] > 0)
      BY <1>1, <1>3, <1>6, <3>1 DEF PoolInv, PersistOK
    <3>3. frees'[call.future] \in Nat /\ frees[call.future] \in Nat
      BY <1>1, <1>2 DEF Inv, TypeOK
    <3>. QED  BY <1>1, <2>3, <3>2, <3>3
  <2>5. Release
    BY <1>1, <1>6, <2>2, <2>3, <2>4 DEF Release
  <2>6. FuturesOK'
    BY <1>1, <2>2, FuturesKept DEF HandleInv
  <2>. QED  BY <1>1, <2>2, <2>3, <2>5, <2>6, ReleasePool DEF HandleInv
<1>7. CASE ConnectTimeout
  BY <1>1, <1>5, <1>7 DEF ConnectTimeout, OwnsFuture
<1>8. CASE ConnectError
  BY <1>1, <1>5, <1>6, <1>8 DEF ConnectError
<1>. QED  BY <1>7, <1>8

(* get throws, with and without eviction: it frees nothing of its own.     *)
LEMMA GetFailsPool ==
  ASSUME Inv, Inv', PoolInv, HandleInv, GetTimeout \/ GetError
  PROVE  PoolInv' /\ HandleInv'
<1> DEFINE d == call.d
           f == call.f
           k == fs[f].key
<1>1. /\ call.op = "get" /\ call.op # "none" /\ d \in DSess /\ d \in Obj /\ f \in FSess
      /\ k \in Key /\ call' = NoCall /\ fs[f].st = "live"
      /\ ds' = ForgetSession(call.d) /\ closed' = closed /\ future' = future
      /\ call.future \in Sess /\ call.future = heap.ptr[d]
      /\ fs[f].persist = ds[d].persist /\ fs[f].key = ds[d].key
      /\ \A o \in Obj : o \in Slot
  <2>1. /\ call.op = "get" /\ call' = NoCall
        /\ ds' = ForgetSession(call.d) /\ closed' = closed /\ future' = future
    BY DEF GetTimeout, GetError
  <2>2. /\ d \in DSess /\ call.future \in Sess /\ f \in FSess /\ fs[f].st = "live"
    BY <2>1 DEF Inv, CallInv
  <2>3. k \in Key
    BY <2>2 DEF Inv, FutureInv
  <2>4. /\ call.future = heap.ptr[d]
        /\ fs[f].persist = ds[d].persist /\ fs[f].key = ds[d].key
    BY <2>1 DEF HandleInv, CallFutureOK
  <2>. QED  BY <2>1, <2>2, <2>3, <2>4, Shapes DEF Obj
<1>2. /\ HeapType(heap, Slot, Sess) /\ HeapOK(heap, Slot, Sess)
      /\ frees \in [Sess -> Nat]
  BY Shapes
<1>3. \A s \in reported : s \in Sess /\ frees[s] > 0
  BY DEF PoolInv, ReportedOK
<1>4. CASE /\ heap' = FreeSession(heap, d) /\ reported' = reported
           /\ frees' = frees /\ fs' = fs
  <2>1. /\ \A o \in Obj : Keeps(o) \/ Leaves(o)
        /\ \A g \in FSess : heap'.ptr[g] = heap.ptr[g]
        /\ \A j \in Key : heap'.ptr[j] = heap.ptr[j]
        /\ \A x \in Sess : heap'.status[x] = "unused" => heap.status[x] = "unused"
        /\ CallFutureOK'
        /\ (\A s \in Sess : frees'[s] >= frees[s]) /\ future' = future => ConnectedOK'
    BY <1>1, <1>2, <1>4, FailShape
  <2>2. Release
    BY <1>1, <1>3, <1>4, <2>1 DEF Release
  <2>3. \A s \in Sess : frees'[s] >= frees[s]
    BY <1>2, <1>4
  <2>4. FuturesOK'
    BY <1>4, <2>1, FuturesKept DEF HandleInv
  <2>. QED  BY <1>1, <2>1, <2>2, <2>3, <2>4, ReleasePool DEF HandleInv
<1>5. CASE /\ heap' = FreeSession(DtorHeap(k), d) /\ reported' = reported \cup {call.future}
           /\ frees' = DtorFreed(k) /\ fs[f].persist
           /\ fs' = [fs EXCEPT ![f].exception = TRUE,
                               ![f].future = IF Listed(k) THEN NULL ELSE @]
  <2>1. /\ HeapType(DtorHeap(k), Slot, Sess) /\ HeapOK(DtorHeap(k), Slot, Sess)
        /\ \A x \in Obj : DtorHeap(k).ptr[x] = heap.ptr[x]
        /\ \A x \in Sess : DtorHeap(k).status[x] = "unused" => heap.status[x] = "unused"
    BY <1>1, DtorShape
  <2>2. /\ \A g \in FSess : fs'[g].persist = fs[g].persist /\ fs'[g].key = fs[g].key
        /\ \A g \in FSess : g # f => fs'[g] = fs[g]
        /\ fs'[f].exception
    <3>1. fs \in [FSess -> [st : {"absent", "live", "leaked"}, persist : BOOLEAN,
                              key : Key \cup {NULL}, future : Sess \cup {NULL},
                              exception : BOOLEAN, default_session : DSess \cup {NULL}]]
      BY DEF Inv, TypeOK
    <3> DEFINE v == IF Listed(k) THEN NULL ELSE fs[f].future
               r == [fs[f] EXCEPT !.exception = TRUE]
               q == [r EXCEPT !.future = v]
    <3>2. fs' = [fs EXCEPT ![f] = q]
      BY <1>1, <1>5, <3>1
    <3>3. /\ r \in [st : {"absent", "live", "leaked"}, persist : BOOLEAN, key : Key \cup {NULL},
             future : Sess \cup {NULL}, exception : BOOLEAN,
             default_session : DSess \cup {NULL}]
          /\ r.persist = fs[f].persist /\ r.key = fs[f].key /\ r.exception
      BY <1>1, <3>1
    <3> HIDE DEF r
    <3>4. q.persist = fs[f].persist /\ q.key = fs[f].key /\ q.exception
      BY <3>3
    <3> HIDE DEF q
    <3>. QED  BY <1>1, <3>1, <3>2, <3>4
  <2>3. /\ \A o \in Obj : Keeps(o) \/ Leaves(o)
        /\ \A g \in FSess : heap'.ptr[g] = heap.ptr[g]
        /\ \A j \in Key : heap'.ptr[j] = DtorHeap(k).ptr[j]
        /\ \A x \in Sess : heap'.status[x] = "unused" => heap.status[x] = "unused"
        /\ CallFutureOK'
        /\ (\A s \in Sess : frees'[s] >= frees[s]) /\ future' = future => ConnectedOK'
    BY <1>1, <1>5, <2>1, <2>2, FailShape, ZenonT(60)
  <2>4. /\ \A j \in Key : \/ heap'.ptr[j] = heap.ptr[j]
                          \/ heap'.ptr[j] = NULL /\ frees'[heap.ptr[j]] > 0
        /\ \A s \in Sess : frees'[s] = frees[s] \/ FreedOnce(s)
        /\ heap.ptr[k] # NULL => frees'[heap.ptr[k]] > 0
        /\ \A s \in Sess : frees'[s] >= frees[s]
    BY <1>1, <1>5, <2>3, EvictShape
  <2>5. frees'[call.future] > 0
    <3>1. KeyOf(d) = k /\ Persist(d)
      BY <1>1, <1>5 DEF KeyOf, Persist, Rec
    <3>2. heap.ptr[d] # NULL /\ (heap.ptr[d] = heap.ptr[k] \/ frees[heap.ptr[d]] > 0)
      BY <1>1, <3>1 DEF PoolInv, PersistOK
    <3>3. frees'[call.future] \in Nat /\ frees[call.future] \in Nat
      BY <1>1, <1>2 DEF Inv, TypeOK
    <3>. QED  BY <1>1, <2>4, <3>2, <3>3
  <2>6. Release
    BY <1>1, <1>5, <2>3, <2>4, <2>5 DEF Release
  <2>7. FuturesOK'
    <3>1. \A g \in FSess : g # f => fs'[g] = fs[g] /\ heap'.ptr[g] = heap.ptr[g]
      BY <2>2, <2>3
    <3>2. fs'[f].exception /\ fs'[f].persist
      BY <1>1, <1>5, <2>2
    <3>. QED  BY <3>1, <3>2 DEF HandleInv, FuturesOK
  <2>. QED  BY <1>1, <2>3, <2>4, <2>6, <2>7, ReleasePool DEF HandleInv
<1>6. CASE GetTimeout
  BY <1>1, <1>4, <1>6 DEF GetTimeout
<1>7. CASE GetError
  BY <1>1, <1>4, <1>5, <1>7 DEF GetError
<1>. QED  BY <1>6, <1>7

(* Cluster::connect, up to its wait.                                       *)
LEMMA ConnectPool ==
  ASSUME Inv, Inv', PoolInv, HandleInv, NEW d \in DSess, NEW k \in Key,
         NEW p \in BOOLEAN, NEW timed \in BOOLEAN, NEW s \in Sess,
         Connect(d, k, p, timed, s)
  PROVE  PoolInv' /\ HandleInv'
<1>1. /\ Acquire(d, k, p, s) /\ call = NoCall /\ heap.ptr[d] = NULL
      /\ ds' = [ds EXCEPT ![d] = [st |-> "building", persist |-> p, key |-> k]]
      /\ call' = [op |-> "connect", d |-> d, f |-> NULL, future |-> s, timed |-> timed]
      /\ UNCHANGED <<frees, closed, fs, running, reported>>
      /\ ds \in [DSess -> [st : {"absent", "building", "user", "cached", "leaked"},
                           persist : BOOLEAN, key : Key \cup {NULL}]]
  BY DEF Connect, Idle, Inv, SlotsInUse, TypeOK
<1>2. /\ d \in Obj /\ \A x \in Obj : x \in Slot /\ x # k
      /\ frees \in [Sess -> Nat] /\ \A f \in FSess : f \in Obj /\ f # d
      /\ \A e \in DSess : e \in Obj
  BY Shapes, Constants DEF Obj
<1>3. /\ heap'.ptr[d] = s
      /\ \A x \in Slot : x # d /\ x # k => heap'.ptr[x] = heap.ptr[x]
      /\ \A x \in Sess : heap.status[x] # "unused" => future'[x] = future[x]
  BY <1>1, <1>2, AcquireShape
<1>4. /\ ds'[d] = [st |-> "building", persist |-> p, key |-> k]
      /\ \A e \in DSess : e # d => ds'[e] = ds[e]
  BY <1>1
<1>5. Persist(d)' = p /\ KeyOf(d)' = k
  BY <1>4 DEF Persist, KeyOf, Rec
<1>6. \A x \in Obj : x # d => /\ Persist(x)' = Persist(x) /\ KeyOf(x)' = KeyOf(x)
                              /\ Owns(x)' => Owns(x)
  <2>1. \A x \in Obj : x # d => Rec(x)' = Rec(x) /\ heap'.ptr[x] = heap.ptr[x]
    BY <1>1, <1>2, <1>3, <1>4 DEF Rec
  <2>. QED  BY <1>1, <2>1 DEF Persist, KeyOf, Owns
<1>7. PoolInv'
  BY <1>1, <1>2, <1>5, <1>6, AcquirePool
<1>8. FuturesOK'
  BY <1>1, <1>2, <1>3, FuturesKept DEF HandleInv
<1>9. CallFutureOK'
  BY <1>1, <1>3 DEF CallFutureOK
<1>10. ConnectedOK'
  <2>1. \A e \in DSess : ds'[e].st \in {"user", "cached"} =>
            /\ ds[e].st \in {"user", "cached"} /\ ds'[e].persist = ds[e].persist
            /\ heap'.ptr[e] = heap.ptr[e]
    BY <1>2, <1>3, <1>4
  <2>2. \A x \in Sess : frees'[x] >= frees[x]
    BY <1>1, <1>2
  <2>. QED  BY <1>3, <2>1, <2>2, ConnectedKept DEF HandleInv
<1>. QED  BY <1>7, <1>8, <1>9, <1>10 DEF HandleInv

(* Cluster::connectAsync.                                                  *)
LEMMA ConnectAsyncPool ==
  ASSUME Inv, Inv', PoolInv, HandleInv, NEW f \in FSess, NEW k \in Key,
         NEW p \in BOOLEAN, NEW s \in Sess, ConnectAsync(f, k, p, s)
  PROVE  PoolInv' /\ HandleInv'
<1>1. /\ Acquire(f, k, p, s) /\ call = NoCall /\ call' = call /\ heap.ptr[f] = NULL
      /\ fs' = [fs EXCEPT ![f] = [st |-> "live", persist |-> p, key |-> k, future |-> s,
                                  exception |-> FALSE, default_session |-> NULL]]
      /\ UNCHANGED <<frees, closed, ds, running, reported>>
      /\ fs \in [FSess -> [st : {"absent", "live", "leaked"}, persist : BOOLEAN,
                           key : Key \cup {NULL}, future : Sess \cup {NULL},
                           exception : BOOLEAN, default_session : DSess \cup {NULL}]]
  BY DEF ConnectAsync, Idle, Inv, SlotsInUse, TypeOK
<1>2. /\ f \in Obj /\ \A x \in Obj : x \in Slot /\ x # k
      /\ frees \in [Sess -> Nat] /\ \A e \in DSess : e \in Obj /\ e # f
      /\ \A g \in FSess : g \in Obj
      /\ f \notin DSess
  BY Shapes, Constants DEF Obj
<1>3. /\ heap'.ptr[f] = s
      /\ \A x \in Slot : x # f /\ x # k => heap'.ptr[x] = heap.ptr[x]
      /\ \A x \in Sess : heap.status[x] # "unused" => future'[x] = future[x]
  BY <1>1, <1>2, AcquireShape
<1>4. /\ fs'[f] = [st |-> "live", persist |-> p, key |-> k, future |-> s,
                   exception |-> FALSE, default_session |-> NULL]
      /\ \A g \in FSess : g # f => fs'[g] = fs[g]
  BY <1>1
<1>5. Persist(f)' = p /\ KeyOf(f)' = k
  BY <1>2, <1>4 DEF Persist, KeyOf, Rec
<1>6. \A x \in Obj : x # f => /\ Persist(x)' = Persist(x) /\ KeyOf(x)' = KeyOf(x)
                              /\ Owns(x)' => Owns(x)
  <2>1. \A x \in Obj : x # f => Rec(x)' = Rec(x) /\ heap'.ptr[x] = heap.ptr[x]
    BY <1>1, <1>2, <1>3, <1>4 DEF Rec, Obj
  <2>. QED  BY <1>1, <2>1 DEF Persist, KeyOf, Owns
<1>7. PoolInv'
  BY <1>1, <1>2, <1>5, <1>6, AcquirePool
<1>8. FuturesOK'
  <2>1. \A g \in FSess : g # f => fs'[g] = fs[g] /\ heap'.ptr[g] = heap.ptr[g]
    BY <1>2, <1>3, <1>4
  <2>2. fs'[f].future = heap'.ptr[f] /\ ~fs'[f].exception
    BY <1>3, <1>4
  <2>. QED  BY <2>1, <2>2 DEF HandleInv, FuturesOK
<1>9. CallFutureOK'
  BY <1>1 DEF CallFutureOK, NoCall
<1>10. ConnectedOK'
  <2>1. \A e \in DSess : heap'.ptr[e] = heap.ptr[e] /\ ds'[e] = ds[e]
    BY <1>1, <1>2, <1>3
  <2>2. \A x \in Sess : frees'[x] >= frees[x]
    BY <1>1, <1>2
  <2>. QED  BY <1>3, <2>1, <2>2, ConnectedKept DEF HandleInv
<1>. QED  BY <1>7, <1>8, <1>9, <1>10 DEF HandleInv

(* FutureSession::get, up to its wait.                                     *)
LEMMA GetHandles ==
  ASSUME Inv, Inv', PoolInv, HandleInv, NEW f \in FSess, NEW d \in DSess,
         NEW timed \in BOOLEAN, Get(f, d, timed)
  PROVE  PoolInv' /\ HandleInv'
<1>1. PoolInv'
  BY GetPool
<1>2. /\ fs[f].st = "live" /\ ~fs[f].exception
      /\ UNCHANGED <<future, frees, fs>>
      /\ heap'.ptr = [heap.ptr EXCEPT ![d] = heap.ptr[f]]
      /\ ds' = [ds EXCEPT ![d] = [st |-> "building", persist |-> fs[f].persist,
                                  key |-> fs[f].key]]
      /\ call' = [op |-> "get", d |-> d, f |-> f, future |-> fs[f].future, timed |-> timed]
      /\ ds \in [DSess -> [st : {"absent", "building", "user", "cached", "leaked"},
                           persist : BOOLEAN, key : Key \cup {NULL}]]
  BY DEF Get, Unsettled, AddRef, Inv, TypeOK
<1>3. /\ HeapType(heap, Slot, Sess) /\ d \in Slot /\ f \in Slot /\ d # f
      /\ \A g \in FSess : g \in Slot /\ g # d
      /\ \A e \in DSess : e \in Slot
      /\ frees \in [Sess -> Nat]
  BY Shapes, Constants
<1>4. heap'.ptr[d] = heap.ptr[f] /\ \A x \in Slot : x # d => heap'.ptr[x] = heap.ptr[x]
  BY <1>2, <1>3 DEF HeapType
<1>5. /\ ds'[d] = [st |-> "building", persist |-> fs[f].persist, key |-> fs[f].key]
      /\ \A e \in DSess : e # d => ds'[e] = ds[e]
  BY <1>2
<1>6. FuturesOK'
  BY <1>2, <1>3, <1>4, FuturesKept DEF HandleInv
<1>7. CallFutureOK'
  <2>1. fs[f].future = heap.ptr[f]
    BY <1>2 DEF HandleInv, FuturesOK
  <2>. QED  BY <1>2, <1>3, <1>4, <1>5, <2>1 DEF CallFutureOK
<1>8. ConnectedOK'
  <2>1. \A e \in DSess : ds'[e].st \in {"user", "cached"} =>
            /\ ds[e].st \in {"user", "cached"} /\ ds'[e].persist = ds[e].persist
            /\ heap'.ptr[e] = heap.ptr[e]
    BY <1>3, <1>4, <1>5
  <2>2. \A x \in Sess : frees'[x] >= frees[x]
    BY <1>2, <1>3
  <2>. QED  BY <1>2, <2>1, <2>2, ConnectedKept DEF HandleInv
<1>. QED  BY <1>1, <1>6, <1>7, <1>8 DEF HandleInv

(* A step that moves no reference and frees no future.                     *)
LEMMA QuietPool ==
  ASSUME Inv, PoolInv, UNCHANGED <<heap, frees, closed, reported>>,
         \A o \in Obj : Persist(o)' = Persist(o) /\ KeyOf(o)' = KeyOf(o),
         call' = call \/ call' = NoCall
  PROVE  PoolInv'
<1>1. \A o \in Obj : Keeps(o)
  BY DEF Keeps, Owns, NoCall
<1>2. Release
  BY <1>1 DEF Release
<1>. QED  BY <1>2, ReleasePool

(* connect or get hands out the session.                                   *)
LEMMA ReturnsPool ==
  ASSUME Inv, Inv', PoolInv, HandleInv, ConnectOK \/ GetOK
  PROVE  PoolInv' /\ HandleInv'
<1>0. PICK d \in DSess : d = call.d
  BY DEF Inv, CallInv, ConnectOK, GetOK
<1>1. /\ call.op # "none" /\ Succeeds /\ call' = NoCall
      /\ ds' = [ds EXCEPT ![d].st = "user"]
      /\ UNCHANGED <<heap, future, frees, closed, running, reported>>
      /\ call.future \in Sess /\ call.future = heap.ptr[d] /\ NULL \notin Sess
      /\ ds \in [DSess -> [st : {"absent", "building", "user", "cached", "leaked"},
                           persist : BOOLEAN, key : Key \cup {NULL}]]
  BY <1>0, Constants DEF ConnectOK, GetOK, Inv, TypeOK, CallInv, HandleInv, CallFutureOK
<1>2. /\ \A f \in FSess : /\ fs'[f].st = fs[f].st /\ fs'[f].persist = fs[f].persist
                          /\ fs'[f].key = fs[f].key /\ fs'[f].exception = fs[f].exception
                          /\ fs'[f].future = fs[f].future
  <2>1. CASE ConnectOK
    BY <2>1 DEF ConnectOK
  <2>2. CASE GetOK
    <3>1. call.f \in FSess /\ fs' = [fs EXCEPT ![call.f].default_session = call.d]
      BY <2>2 DEF GetOK, Inv, CallInv
    <3>. QED  BY <3>1 DEF Inv, TypeOK
  <2>. QED  BY <2>1, <2>2
<1>3. /\ ds'[d].persist = ds[d].persist /\ ds'[d].key = ds[d].key
      /\ \A e \in DSess : e # d => ds'[e] = ds[e]
  BY <1>1
<1>4. PoolInv'
  <2>1. \A o \in Obj : Persist(o)' = Persist(o) /\ KeyOf(o)' = KeyOf(o)
    BY <1>2, <1>3 DEF Persist, KeyOf, Rec, Obj
  <2>. QED  BY <1>1, <2>1, QuietPool
<1>5. FuturesOK'
  BY <1>1, <1>2, FuturesKept DEF HandleInv
<1>6. CallFutureOK'
  BY <1>1 DEF CallFutureOK, NoCall
<1>7. (ds[d].persist /\ frees[heap.ptr[d]] > 0) \/ future[heap.ptr[d]] = "ok"
  <2>1. frees[heap.ptr[d]] > 0 \/ future[heap.ptr[d]] = "ok"
    BY <1>1 DEF Succeeds, Reads
  <2>2. ASSUME ~ds[d].persist PROVE frees[heap.ptr[d]] = 0
    <3>1. CASE ConnectOK
      <4>1. d \in Obj /\ Owns(d)
        BY <1>0, <1>1, <2>2, <3>1, Constants DEF ConnectOK, Owns, Persist, Rec, Obj
      <4>. QED  BY <4>1 DEF PoolInv, OwnerOK
    <3>2. CASE GetOK
      <4>1. PICK f \in FSess : f = call.f
        BY <3>2 DEF GetOK, Inv, CallInv
      <4>2. heap.ptr[f] = heap.ptr[d] /\ fs[f].persist = ds[d].persist
        BY <1>0, <1>1, <3>2, <4>1 DEF GetOK, HandleInv, CallFutureOK
      <4>3. f \in Obj /\ Owns(f)
        BY <1>1, <2>2, <4>2, Constants DEF Owns, Persist, Rec, Obj
      <4>. QED  BY <4>2, <4>3 DEF PoolInv, OwnerOK
    <3>. QED  BY <3>1, <3>2
  <2>. QED  BY <2>1, <2>2
<1>8. ConnectedOK'
  <2> SUFFICES ASSUME NEW e \in DSess, ds'[e].st \in {"user", "cached"}
               PROVE  \/ ds'[e].persist /\ frees'[heap'.ptr[e]] > 0
                      \/ future'[heap'.ptr[e]] = "ok"
    BY DEF ConnectedOK
  <2>1. CASE e = d
    BY <1>1, <1>3, <1>7, <2>1
  <2>2. CASE e # d
    BY <1>1, <1>3, <2>2 DEF HandleInv, ConnectedOK
  <2>. QED  BY <2>1, <2>2
<1>. QED  BY <1>4, <1>5, <1>6, <1>8 DEF HandleInv

(* The steps that touch neither reference counts nor the list: get on a    *)
(* future that has its session, close, Resolve, Shutdown.                  *)
LEMMA QuietSteps ==
  ASSUME Inv, Inv', PoolInv, HandleInv,
         \/ \E f \in FSess : GetAgain(f)
         \/ \E d \in DSess : Close(d)
         \/ \E s \in Sess, o \in Outcome : Resolve(s, o)
         \/ Shutdown \/ UNCHANGED vars
  PROVE  PoolInv' /\ HandleInv'
<1>0. frees \in [Sess -> Nat]
  BY Shapes
<1>1. ASSUME NEW f \in FSess, GetAgain(f) PROVE PoolInv' /\ HandleInv'
  <2>0. PICK d \in DSess : d = fs[f].default_session
    BY <1>1 DEF GetAgain, Inv, TypeOK
  <2>1. /\ ds' = [ds EXCEPT ![d].st = "user"] /\ ds[d].st \in {"user", "cached"}
        /\ UNCHANGED <<heap, future, frees, closed, fs, call, reported>>
        /\ call = NoCall
        /\ ds \in [DSess -> [st : {"absent", "building", "user", "cached", "leaked"},
                             persist : BOOLEAN, key : Key \cup {NULL}]]
    BY <1>1, <2>0 DEF GetAgain, Inv, TypeOK, DefaultInv, Idle
  <2>2. /\ ds'[d].persist = ds[d].persist /\ ds'[d].key = ds[d].key
        /\ \A e \in DSess : e # d => ds'[e] = ds[e]
    BY <2>1
  <2>3. \A o \in Obj : Persist(o)' = Persist(o) /\ KeyOf(o)' = KeyOf(o)
    BY <2>1, <2>2 DEF Persist, KeyOf, Rec, Obj
  <2>4. PoolInv'
    BY <2>1, <2>3, QuietPool
  <2>5. FuturesOK' /\ CallFutureOK'
    BY <2>1 DEF HandleInv, FuturesOK, CallFutureOK, NoCall
  <2>6. ConnectedOK'
    <3>1. \A e \in DSess : ds'[e].st \in {"user", "cached"} =>
              /\ ds[e].st \in {"user", "cached"} /\ ds'[e].persist = ds[e].persist
              /\ heap'.ptr[e] = heap.ptr[e]
      BY <2>1, <2>2
    <3>2. \A x \in Sess : frees'[x] >= frees[x]
      BY <1>0, <2>1
    <3>. QED  BY <2>1, <3>1, <3>2, ConnectedKept DEF HandleInv
  <2>. QED  BY <2>4, <2>5, <2>6 DEF HandleInv
<1>2. ASSUME NEW d \in DSess, Close(d) PROVE PoolInv' /\ HandleInv'
  <2>1. PoolInv'
    BY <1>2, ClosePool
  <2>2. UNCHANGED <<heap, future, frees, ds, fs, call>>
    BY <1>2 DEF Close
  <2>. QED  BY <2>1, <2>2 DEF HandleInv, FuturesOK, CallFutureOK, ConnectedOK
<1>3. ASSUME UNCHANGED <<heap, frees, closed, ds, fs, call, reported>>,
             \A x \in Sess : future[x] = "ok" => future'[x] = "ok"
      PROVE  PoolInv' /\ HandleInv'
  <2>1. \A o \in Obj : Persist(o)' = Persist(o) /\ KeyOf(o)' = KeyOf(o)
    BY <1>3 DEF Persist, KeyOf, Rec
  <2>2. PoolInv'
    BY <1>3, <2>1, QuietPool
  <2>3. FuturesOK' /\ CallFutureOK'
    BY <1>3 DEF HandleInv, FuturesOK, CallFutureOK
  <2>4. \A x \in Sess : frees'[x] >= frees[x]
    BY <1>0, <1>3
  <2>5. ConnectedOK'
    BY <1>3, <2>4, ConnectedKept DEF HandleInv
  <2>. QED  BY <2>2, <2>3, <2>5 DEF HandleInv
<1>4. ASSUME NEW s \in Sess, NEW o \in Outcome, Resolve(s, o) PROVE PoolInv' /\ HandleInv'
  <2>1. /\ future[s] = "pending" /\ future' = [future EXCEPT ![s] = o]
        /\ UNCHANGED <<heap, frees, closed, ds, fs, call, reported>>
    BY <1>4 DEF Resolve
  <2>2. \A x \in Sess : future[x] = "ok" => future'[x] = "ok"
    BY <2>1 DEF Inv, TypeOK
  <2>. QED  BY <1>3, <2>1, <2>2
<1>5. CASE Shutdown
  BY <1>3, <1>5 DEF Shutdown
<1>6. CASE UNCHANGED vars
  BY <1>3, <1>6 DEF vars
<1>. QED  BY <1>1, <1>2, <1>4, <1>5, <1>6

(* PHP code drops a DefaultSession.                                        *)
LEMMA DropSessionPool ==
  ASSUME Inv, Inv', PoolInv, HandleInv, NEW d \in DSess, DropSession(d)
  PROVE  PoolInv' /\ HandleInv'
<1>1. /\ ds[d].st = "user" /\ call = NoCall /\ call' = call
      /\ UNCHANGED <<future, frees, closed, fs, reported>>
      /\ ds \in [DSess -> [st : {"absent", "building", "user", "cached", "leaked"},
                           persist : BOOLEAN, key : Key \cup {NULL}]]
  BY DEF DropSession, Idle, Inv, TypeOK
<1>2. /\ HeapType(heap, Slot, Sess) /\ HeapOK(heap, Slot, Sess)
      /\ frees \in [Sess -> Nat]
      /\ \A f \in FSess : f \in Obj /\ f # d
      /\ \A e \in DSess : e \in Obj
  BY Shapes, Constants DEF Obj
<1>3. \A x \in Sess : frees'[x] >= frees[x]
  BY <1>1, <1>2
<1>4. CallFutureOK'
  BY <1>1 DEF CallFutureOK, NoCall
<1>5. CASE \E f \in FSess : fs[f].default_session = d
  <2>1. ds' = [ds EXCEPT ![d].st = "cached"] /\ heap' = heap
    BY <1>5 DEF DropSession
  <2>2. /\ ds'[d].persist = ds[d].persist /\ ds'[d].key = ds[d].key
        /\ \A e \in DSess : e # d => ds'[e] = ds[e]
    BY <1>1, <2>1
  <2>3. \A o \in Obj : Persist(o)' = Persist(o) /\ KeyOf(o)' = KeyOf(o)
    BY <1>1, <2>2 DEF Persist, KeyOf, Rec, Obj
  <2>4. PoolInv'
    BY <1>1, <2>1, <2>3, QuietPool
  <2>5. FuturesOK'
    BY <1>1, <2>1, FuturesKept DEF HandleInv
  <2>6. \A e \in DSess : ds'[e].st \in {"user", "cached"} =>
            /\ ds[e].st \in {"user", "cached"} /\ ds'[e].persist = ds[e].persist
            /\ heap'.ptr[e] = heap.ptr[e]
    BY <1>1, <2>1, <2>2
  <2>7. ConnectedOK'
    BY <1>1, <1>3, <2>6, ConnectedKept DEF HandleInv
  <2>. QED  BY <1>4, <2>4, <2>5, <2>7 DEF HandleInv
<1>6. CASE ~\E f \in FSess : fs[f].default_session = d
  <2>1. ds' = ForgetSession(d) /\ heap' = FreeSession(heap, d)
    BY <1>6 DEF DropSession
  <2>2. /\ \A o \in Obj : Keeps(o) \/ Leaves(o)
        /\ \A o \in Obj : o # d => heap'.ptr[o] = heap.ptr[o]
        /\ \A k \in Key : heap'.ptr[k] = heap.ptr[k]
        /\ \A x \in Sess : heap'.status[x] = "unused" => heap.status[x] = "unused"
        /\ \A e \in DSess : e # d => ds'[e] = ds[e]
        /\ ds'[d].st = IF free_installed THEN "absent" ELSE "leaked"
    BY <1>1, <1>2, <2>1, ForgetShape
  <2>3. Release
    BY <1>1, <2>2 DEF Release
  <2>4. PoolInv'
    BY <2>3, ReleasePool
  <2>5. FuturesOK'
    BY <1>1, <1>2, <2>2, FuturesKept DEF HandleInv
  <2>6. \A e \in DSess : ds'[e].st \in {"user", "cached"} =>
            /\ ds[e].st \in {"user", "cached"} /\ ds'[e].persist = ds[e].persist
            /\ heap'.ptr[e] = heap.ptr[e]
    BY <1>2, <2>2
  <2>7. ConnectedOK'
    BY <1>1, <1>3, <2>6, ConnectedKept DEF HandleInv
  <2>. QED  BY <1>4, <2>4, <2>5, <2>7 DEF HandleInv
<1>. QED  BY <1>5, <1>6

(* PHP code drops a FutureSession, which frees the future of an attempt    *)
(* that no list entry shares.                                              *)
LEMMA DropFuturePool ==
  ASSUME Inv, Inv', PoolInv, HandleInv, NEW f \in FSess, DropFuture(f)
  PROVE  PoolInv' /\ HandleInv'
<1> DEFINE d == fs[f].default_session
           last == d # NULL /\ ds[d].st = "cached"
           g == DelPeref(heap, f)
<1>1. /\ fs[f].st = "live" /\ call = NoCall /\ call' = call
      /\ UNCHANGED <<future, closed, reported>>
      /\ d \in DSess \cup {NULL}
      /\ ds \in [DSess -> [st : {"absent", "building", "user", "cached", "leaked"},
                           persist : BOOLEAN, key : Key \cup {NULL}]]
      /\ fs \in [FSess -> [st : {"absent", "live", "leaked"}, persist : BOOLEAN,
                           key : Key \cup {NULL}, future : Sess \cup {NULL},
                           exception : BOOLEAN, default_session : DSess \cup {NULL}]]
      /\ heap.ptr[f] # NULL
  BY DEF DropFuture, Idle, Inv, TypeOK, SlotsInUse
<1>2. /\ HeapType(heap, Slot, Sess) /\ HeapOK(heap, Slot, Sess)
      /\ frees \in [Sess -> Nat] /\ f \in Slot /\ f \in Obj /\ f \notin DSess
      /\ \A o \in Obj : o \in Slot /\ o \notin Key
      /\ \A k \in Key : k \in Slot /\ k # f /\ k \notin DSess
      /\ \A e \in DSess : e \in Obj /\ e # f /\ e \in Slot
      /\ \A h \in FSess : h \in Obj /\ h \in Slot /\ h \notin DSess
      /\ NULL \notin Sess /\ IsFiniteSet(Slot)
  BY Shapes, Constants DEF Obj
<1>3. CallFutureOK'
  BY <1>1 DEF CallFutureOK, NoCall
<1>4. CASE ~free_installed
  <2>1. fs' = [fs EXCEPT ![f].st = "leaked"] /\ UNCHANGED <<frees, heap, ds>>
    BY <1>4 DEF DropFuture
  <2>2. \A h \in FSess : /\ fs'[h].persist = fs[h].persist /\ fs'[h].key = fs[h].key
                         /\ fs'[h].exception = fs[h].exception /\ fs'[h].future = fs[h].future
                         /\ fs'[h].st # "absent" => fs[h].st # "absent"
    BY <1>1, <2>1
  <2>3. \A o \in Obj : Persist(o)' = Persist(o) /\ KeyOf(o)' = KeyOf(o)
    BY <2>1, <2>2 DEF Persist, KeyOf, Rec, Obj
  <2>4. PoolInv'
    BY <1>1, <2>1, <2>3, QuietPool
  <2>5. FuturesOK'
    BY <2>1, <2>2, FuturesKept DEF HandleInv
  <2>6. ConnectedOK'
    BY <1>1, <2>1 DEF HandleInv, ConnectedOK
  <2>. QED  BY <1>3, <2>4, <2>5, <2>6 DEF HandleInv
<1>5. CASE free_installed
  <2>1. /\ fs' = [fs EXCEPT ![f] = NoFuture]
        /\ frees' = IF ~fs[f].persist /\ fs[f].future # NULL
                      THEN FutureFree(fs[f].future) ELSE frees
        /\ heap' = IF last THEN DelPeref(g, d) ELSE g
        /\ ds' = IF last THEN [ds EXCEPT ![d] = NoSession] ELSE ds
    BY <1>5 DEF DropFuture, ForgetSession, FreeSession, OwnsFuture
  <2>2. HeapType(g, Slot, Sess) /\ g.ptr = [heap.ptr EXCEPT ![f] = NULL]
    BY <1>2, DelPerefOK, DelPerefPtr
  <2>3. \A x \in Sess : g.status[x] = "unused" => heap.status[x] = "unused"
    BY <1>2, DelPerefStatus
  <2> HIDE DEF g
  <2>4. /\ last => heap'.ptr = [g.ptr EXCEPT ![d] = NULL]
        /\ ~last => heap'.ptr = g.ptr
        /\ \A x \in Sess : heap'.status[x] = "unused" => heap.status[x] = "unused"
    <3>1. CASE last
      <4>1. d \in Slot /\ heap' = DelPeref(g, d)
        BY <1>1, <1>2, <2>1, <3>1
      <4>2. heap'.ptr = [g.ptr EXCEPT ![d] = NULL]
        BY <2>2, <4>1, DelPerefPtr
      <4>3. \A x \in Sess : heap'.status[x] = "unused" => g.status[x] = "unused"
        BY <2>2, <4>1, DelPerefStatus
      <4>. QED  BY <2>3, <3>1, <4>2, <4>3
    <3>2. CASE ~last
      BY <2>1, <2>3, <3>2
    <3>. QED  BY <3>1, <3>2
  <2>5. /\ heap'.ptr[f] = NULL
        /\ last => heap'.ptr[d] = NULL
        /\ \A x \in Slot : x # f /\ (last => x # d) => heap'.ptr[x] = heap.ptr[x]
    BY <1>1, <1>2, <2>2, <2>4 DEF HeapType
  <2>6. fs'[f] = NoFuture /\ \A h \in FSess : h # f => fs'[h] = fs[h]
    BY <1>1, <2>1
  <2>7. /\ last => ds'[d] = NoSession
        /\ \A e \in DSess : (last => e # d) => ds'[e] = ds[e]
    BY <1>1, <2>1
  <2>8. Leaves(f) /\ ~Owns(f)'
    BY <1>2, <2>5, <2>6 DEF Leaves, Owns, Persist, Rec, NoFuture
  <2>9. ASSUME NEW e \in DSess, last, e = d PROVE Leaves(e)
    BY <2>5, <2>7, <2>9 DEF Leaves, Persist, Rec, NoSession
  <2>10. ASSUME NEW x \in Obj, x # f, last => x # d PROVE Keeps(x)
    <3>1. heap'.ptr[x] = heap.ptr[x]
      BY <1>2, <2>5, <2>10
    <3>2. Rec(x)' = Rec(x)
      BY <2>6, <2>7, <2>10 DEF Rec, Obj
    <3>. QED  BY <1>1, <3>1, <3>2 DEF Keeps, Persist, KeyOf, Owns
  <2>11. \A x \in Obj : Keeps(x) \/ Leaves(x)
    <3> SUFFICES ASSUME NEW x \in Obj PROVE Keeps(x) \/ Leaves(x)
      OBVIOUS
    <3>1. CASE x = f
      BY <2>8, <3>1
    <3>2. CASE x # f /\ (last => x # d)
      BY <2>10, <3>2
    <3>3. CASE last /\ x = d
      BY <1>1, <2>9, <3>3
    <3>. QED  BY <3>1, <3>2, <3>3
  <2>12. \A k \in Key : heap'.ptr[k] = heap.ptr[k]
    BY <1>1, <1>2, <2>5
  <2>13. \A s \in Sess : frees'[s] = frees[s] \/ FreedOnce(s)
    <3>1. CASE fs[f].persist \/ fs[f].future = NULL
      BY <2>1, <3>1
    <3>2. CASE ~fs[f].persist /\ fs[f].future # NULL
      <4>1. fs[f].future = heap.ptr[f]
        BY <1>1, <3>2 DEF HandleInv, FuturesOK
      <4>2. Owns(f)
        BY <1>1, <1>2, <3>2 DEF Owns, Persist, Rec
      <4>3. frees' = FutureFree(heap.ptr[f])
        BY <2>1, <3>2, <4>1
      <4>. QED  BY <1>2, <2>8, <2>11, <2>12, <4>2, <4>3, OwnerShape
    <3>. QED  BY <3>1, <3>2
  <2>14. Release
    BY <1>1, <2>4, <2>11, <2>12, <2>13 DEF Release, PoolInv, ReportedOK
  <2>15. PoolInv'
    BY <2>14, ReleasePool
  <2>16. FuturesOK'
    <3>1. \A h \in FSess : h # f => fs'[h] = fs[h] /\ heap'.ptr[h] = heap.ptr[h]
      BY <1>1, <1>2, <2>5, <2>6
    <3>2. fs'[f].st = "absent"
      BY <2>6 DEF NoFuture
    <3>. QED  BY <3>1, <3>2 DEF HandleInv, FuturesOK
  <2>17. ConnectedOK'
    <3>1. \A e \in DSess : ds'[e].st \in {"user", "cached"} =>
              /\ ds[e].st \in {"user", "cached"} /\ ds'[e].persist = ds[e].persist
              /\ heap'.ptr[e] = heap.ptr[e]
      BY <1>2, <2>5, <2>7 DEF NoSession
    <3>2. \A x \in Sess : frees'[x] >= frees[x]
      BY <1>2, <2>13 DEF FreedOnce
    <3>. QED  BY <1>1, <3>1, <3>2, ConnectedKept DEF HandleInv
  <2>. QED  BY <1>3, <2>15, <2>16, <2>17 DEF HandleInv
<1>. QED  BY <1>4, <1>5

(* The engine destroys an entry of the list of a worker that has ended.    *)
LEMMA DestroyEntryPool ==
  ASSUME Inv, Inv', PoolInv, HandleInv, NEW k \in Key, DestroyEntry(k)
  PROVE  PoolInv' /\ HandleInv'
<1>1. /\ UNCHANGED <<future, closed, ds, fs, call, running, reported>>
      /\ heap' = DtorHeap(k) /\ frees' = DtorFreed(k)
  BY DEF DestroyEntry
<1>2. /\ \A x \in Obj : DtorHeap(k).ptr[x] = heap.ptr[x]
      /\ \A x \in Sess : DtorHeap(k).status[x] = "unused" => heap.status[x] = "unused"
  BY DtorShape
<1>3. \A x \in Obj : Keeps(x)
  BY <1>1, <1>2 DEF Keeps, Persist, KeyOf, Owns, Rec
<1>4. /\ \A j \in Key : \/ heap'.ptr[j] = heap.ptr[j]
                        \/ heap'.ptr[j] = NULL /\ frees'[heap.ptr[j]] > 0
      /\ \A s \in Sess : frees'[s] = frees[s] \/ FreedOnce(s)
      /\ \A s \in Sess : frees'[s] >= frees[s]
  BY <1>1, <1>3, EvictShape
<1>5. Release
  BY <1>1, <1>2, <1>3, <1>4 DEF Release
<1>6. PoolInv'
  BY <1>5, ReleasePool
<1>7. \A x \in DSess \cup FSess : heap'.ptr[x] = heap.ptr[x]
  BY <1>1, <1>2 DEF Obj
<1>8. FuturesOK'
  BY <1>1, <1>7, FuturesKept DEF HandleInv
<1>9. CallFutureOK'
  BY <1>1, <1>7 DEF HandleInv, CallFutureOK, Inv, CallInv
<1>10. ConnectedOK'
  BY <1>1, <1>4, <1>7, ConnectedKept DEF HandleInv
<1>. QED  BY <1>6, <1>8, <1>9, <1>10 DEF HandleInv

(* The initial states satisfy the second invariant.                        *)
LEMMA InitPool == Init => PoolInv /\ HandleInv
<1> SUFFICES ASSUME Init PROVE PoolInv /\ HandleInv
  OBVIOUS
<1>1. /\ \A x \in Slot : heap.ptr[x] = NULL
      /\ \A s \in Sess : frees[s] = 0 /\ ~closed[s]
      /\ reported = {} /\ call = NoCall
      /\ \A d \in DSess : ds[d] = NoSession
      /\ \A f \in FSess : fs[f] = NoFuture
  BY DEF Init, EmptyHeap
<1>2. \A o \in Obj : o \in Slot /\ ~Persist(o)
  BY <1>1, Constants DEF Obj, Persist, Rec, NoSession, NoFuture
<1>3. PoolInv
  <2>1. ListOK
    BY <1>1, Constants DEF ListOK, Listed
  <2>2. OwnerOK /\ KindOK /\ PersistOK
    BY <1>1, <1>2 DEF OwnerOK, Owns, KindOK, PersistOK
  <2>3. FreshOK /\ NoDoubleFree /\ ReportedOK
    BY <1>1 DEF FreshOK, NoDoubleFree, ReportedOK
  <2>. QED  BY <2>1, <2>2, <2>3 DEF PoolInv
<1>4. HandleInv
  BY <1>1 DEF HandleInv, FuturesOK, CallFutureOK, ConnectedOK, NoSession, NoFuture, NoCall
<1>. QED  BY <1>3, <1>4

(* Both invariants hold in every reachable state.                          *)
LEMMA PoolInvariant == Spec => [](Inv /\ PoolInv /\ HandleInv)
<1>1. ASSUME Inv, PoolInv, HandleInv, [Next]_vars
      PROVE  Inv' /\ PoolInv' /\ HandleInv'
  <2>1. Inv'
    BY <1>1, NextInv
  <2>2. CASE UNCHANGED vars
    BY <1>1, <2>1, <2>2, QuietSteps
  <2>3. CASE Next
    BY <1>1, <2>1, <2>2, <2>3, ConnectPool, ConnectAsyncPool, ConnectFailsPool,
       GetFailsPool, ReturnsPool, GetHandles, QuietSteps, DropSessionPool,
       DropFuturePool, DestroyEntryPool
       DEF Next, Return, Terminated
  <2>. QED  BY <1>1, <2>1, <2>2, <2>3
<1>. QED  BY <1>1, InitInv, InitPool, PTL DEF Spec

-----------------------------------------------------------------------------
(* cass_future_free is called at most once on a connect future, whether    *)
(* connect, the FutureSession or the list entry gets to it, after any mix  *)
(* of timeouts, errors and shared attempts, in both builds.                *)
THEOREM FreedAtMostOnce == Spec => []NoDoubleFree
<1>1. Inv /\ PoolInv /\ HandleInv => NoDoubleFree
  BY DEF PoolInv
<1>. QED  BY <1>1, PoolInvariant, PTL

(* Session::close never closes a session that is listed or that a          *)
(* persistent cluster has handed out.                                      *)
THEOREM PooledStaysOpen == Spec => []PooledNeverClosed
<1>1. Inv /\ PoolInv /\ HandleInv => PooledNeverClosed
  <2> SUFFICES ASSUME PoolInv PROVE PooledNeverClosed
    OBVIOUS
  <2>1. \A k \in Key : Listed(k) => ~closed[heap.ptr[k]]
    BY DEF PoolInv, ListOK
  <2>2. \A d \in DSess : ds[d].persist => ~closed[heap.ptr[d]]
    BY DEF PoolInv, PersistOK, Persist, Rec, Obj
  <2>. QED  BY <2>1, <2>2 DEF PooledNeverClosed
<1>. QED  BY <1>1, PoolInvariant, PTL

(* connect and get throw a connection error only after they evicted the    *)
(* attempt: it is never in the list again.                                 *)
THEOREM FailureEvicted == Spec => []FailureNotListed
<1>1. Inv /\ PoolInv /\ HandleInv => FailureNotListed
  <2> SUFFICES ASSUME Inv, PoolInv, NEW s \in reported, NEW k \in Key, heap.ptr[k] = s
               PROVE  FALSE
    BY DEF FailureNotListed
  <2>1. s \in Sess /\ frees[s] > 0 /\ s # NULL
    BY Constants DEF PoolInv, ReportedOK
  <2>2. frees[s] = 0
    BY <2>1 DEF PoolInv, ListOK, Listed
  <2>. QED  BY <2>1, <2>2
<1>. QED  BY <1>1, PoolInvariant, PTL

(* The sessions PHP code holds are connected and, on a persistent cluster, *)
(* the one listed under their key, unless the attempt was evicted.         *)
THEOREM SessionsShared == Spec => []SharedSession
<1>1. Inv /\ PoolInv /\ HandleInv => SharedSession
  <2> SUFFICES ASSUME Inv, PoolInv, HandleInv, NEW d \in DSess, ds[d].st = "user"
               PROVE  \/ ds[d].persist /\ Evicted(heap.ptr[d])
                      \/ /\ future[heap.ptr[d]] = "ok"
                         /\ ds[d].persist => heap.ptr[d] = heap.ptr[ds[d].key]
    BY DEF SharedSession
  <2>1. \/ ds[d].persist /\ frees[heap.ptr[d]] > 0
        \/ future[heap.ptr[d]] = "ok"
    BY DEF HandleInv, ConnectedOK
  <2>2. ds[d].persist => \/ heap.ptr[d] = heap.ptr[ds[d].key]
                         \/ frees[heap.ptr[d]] > 0
    BY DEF PoolInv, PersistOK, Persist, KeyOf, Rec, Obj
  <2>. QED  BY <2>1, <2>2 DEF Evicted
<1>. QED  BY <1>1, PoolInvariant, PTL

(* The connect future of a persistent attempt is freed exactly when the    *)
(* list loses the attempt, in both builds: a listed one can be waited on,  *)
(* and after the worker's end none is left.                                *)
THEOREM FuturesFollowEntries == Spec => []FutureFollowsEntry
<1>1. Inv /\ PoolInv /\ HandleInv => FutureFollowsEntry
  <2> SUFFICES ASSUME Inv, PoolInv PROVE FutureFollowsEntry
    OBVIOUS
  <2>1. ASSUME NEW o \in Obj, Persist(o)
        PROVE  frees[heap.ptr[o]] = IF heap.ptr[KeyOf(o)] = heap.ptr[o] THEN 0 ELSE 1
    <3>1. /\ heap.ptr[o] # NULL /\ KeyOf(o) \in Key
          /\ heap.ptr[o] = heap.ptr[KeyOf(o)] \/ frees[heap.ptr[o]] > 0
      BY <2>1 DEF PoolInv, PersistOK
    <3>2. heap.ptr[o] \in Sess /\ frees[heap.ptr[o]] \in Nat /\ frees[heap.ptr[o]] <= 1
      BY <3>1, Shapes DEF PoolInv, NoDoubleFree
    <3>3. heap.ptr[o] = heap.ptr[KeyOf(o)] => frees[heap.ptr[o]] = 0
      BY <3>1 DEF PoolInv, ListOK, Listed
    <3>. QED  BY <3>1, <3>2, <3>3
  <2>2. \A d \in DSess : d \in Obj /\ Persist(d) = ds[d].persist /\ KeyOf(d) = ds[d].key
    BY DEF Obj, Persist, KeyOf, Rec
  <2>3. \A f \in FSess : f \in Obj /\ Persist(f) = fs[f].persist /\ KeyOf(f) = fs[f].key
    BY Constants DEF Obj, Persist, KeyOf, Rec
  <2>. QED  BY <2>1, <2>2, <2>3 DEF FutureFollowsEntry
<1>. QED  BY <1>1, PoolInvariant, PTL
=============================================================================
