-------------------------- MODULE PagedRows_proofs --------------------------
(***************************************************************************)
(* Proofs about PagedRows, for any number of pages, of requests and of     *)
(* Rows and FutureRows objects, and for both builds (free_installed).      *)
(***************************************************************************)
EXTENDS PagedRows, RefCount_proofs

-----------------------------------------------------------------------------
(* The inductive invariant.                                                *)
Unused(h) == {x \in Data : h.status[x] = "unused"}

State == {"absent", "live", "leaked"}

RowsType == [st : State, user : BOOLEAN, page : Nat, prev : Nat,
             future_next_page : {"none", "value", "future"} \X (RowsObj \cup FutObj \cup {NULL})]
FutType  == [st : State, user : BOOLEAN, future : Req \cup {NULL}, prev : Nat]
ReqType  == [st : {"none", "pending", "ok", "error", "garbled"}, page : Nat]
CallType == [op : {"none", "execute", "get", "next", "next_future"},
             r : RowsObj \cup {NULL}, f : FutObj \cup {NULL}, q : Req \cup {NULL},
             timed : BOOLEAN]

TypeInv ==
  /\ HeapType(heap, Slot, Data)
  /\ position \in Nat
  /\ reqs \in [Req -> ReqType]
  /\ frees \in [Req -> Nat]
  /\ rows \in [RowsObj -> RowsType]
  /\ futs \in [FutObj -> FutType]
  /\ call \in CallType

(* What the fields of a Rows object point to: its page, the statement and  *)
(* the session when there is a next page, and the next page once known.    *)
RowsOK(r) ==
  /\ Field(r, "result") \in Req \cup {NULL} /\ Field(r, "next_result") \in Req \cup {NULL}
  /\ Field(r, "statement") \in {Statement, NULL} /\ Field(r, "session") \in {Session, NULL}
  /\ rows[r].st = "absent" => /\ \A n \in RowsField : Field(r, n) = NULL
                              /\ rows[r].future_next_page = <<"none", NULL>>
  /\ rows[r].st # "absent" => /\ rows[r].page = rows[r].prev + 1
                              /\ Field(r, "result") # NULL <=> More(rows[r].page)
  /\ Field(r, "result") # NULL =>
       /\ Field(r, "statement") # NULL /\ Field(r, "session") # NULL
       /\ reqs[Field(r, "result")].st = "ok"
       /\ reqs[Field(r, "result")].page = rows[r].page
  /\ Field(r, "next_result") # NULL =>
       /\ Field(r, "result") # NULL
       /\ reqs[Field(r, "next_result")].st \in {"ok", "garbled"}
       /\ reqs[Field(r, "next_result")].page = rows[r].page + 1

(* The future of the next page is that of an object that still exists and  *)
(* was asked for from this page; a FutureValue means the page is there.    *)
NextOK(r) ==
  LET next == rows[r].future_next_page IN
  /\ next[1] = "none" => next = <<"none", NULL>>
  /\ next[1] = "value" => Field(r, "next_result") # NULL
  /\ next[1] = "future" => /\ next[2] \in FutObj /\ futs[next[2]].st = "live"
                           /\ futs[next[2]].prev = rows[r].page
                           /\ Field(r, "result") # NULL

(* A FutureRows has its own request, whose future it alone frees and whose *)
(* result becomes a counted handle only through it.                        *)
FutOK(f) ==
  /\ Field(f, "statement") \in {Statement, NULL} /\ Field(f, "session") \in {Session, NULL}
  /\ futs[f].st = "absent" => \A n \in FutField : Field(f, n) = NULL
  /\ futs[f].st # "absent" =>
       LET q == futs[f].future IN
       /\ Field(f, "statement") # NULL /\ Field(f, "session") # NULL
       /\ q \in Req /\ reqs[q].st # "none" /\ reqs[q].page = futs[f].prev + 1
       /\ frees[q] = 0
       /\ Field(f, "result") \in {q, NULL}
       /\ Field(f, "result") # NULL => reqs[q].st \in {"ok", "garbled"}
       /\ Field(f, "result") = NULL => q \in Unused(heap)

FutsDistinct ==
  \A f, g \in FutObj : futs[f].st # "absent" /\ futs[g].st # "absent" /\ f # g
                         => futs[f].future # futs[g].future

(* A request that no object has yet.                                       *)
Private(q) ==
  /\ q \in Req /\ reqs[q].st # "none"
  /\ frees[q] = 0 /\ q \in Unused(heap)
  /\ \A f \in FutObj : futs[f].st # "absent" => futs[f].future # q

CallOK ==
  /\ call.op = "none" => call = NoCall
  /\ call.op = "execute" => /\ Private(call.q) /\ reqs[call.q].page = 1
                            /\ Statement \in Unused(heap)
                            /\ heap.ptr[DefaultSession] # NULL
  /\ call.op = "get" => /\ call.f \in FutObj /\ futs[call.f].st = "live"
                        /\ call.q = futs[call.f].future
  /\ call.op \in {"next", "next_future"} =>
       /\ call.r \in RowsObj /\ rows[call.r].st = "live"
       /\ Field(call.r, "result") # NULL /\ Field(call.r, "next_result") = NULL
  /\ call.op = "next" => Private(call.q) /\ reqs[call.q].page = rows[call.r].page + 1
  /\ call.op = "next_future" =>
       /\ rows[call.r].future_next_page = <<"future", call.f>>
       /\ call.q = futs[call.f].future

(* The session's own field, and the requests that were not made yet.       *)
ReqOK ==
  /\ heap.ptr[DefaultSession] \in {Session, NULL}
  /\ \A q \in Req : /\ frees[q] <= 1
                    /\ reqs[q].st = "none" => frees[q] = 0 /\ q \in Unused(heap)
  /\ 1 \in Req /\ reqs[1].st = "none" => position = 1

Inv == /\ TypeInv
       /\ RefCountExact
       /\ \A r \in RowsObj : RowsOK(r) /\ NextOK(r)
       /\ \A f \in FutObj : FutOK(f)
       /\ FutsDistinct
       /\ CallOK
       /\ ReqOK

-----------------------------------------------------------------------------
(* What the assumptions on the constants say about slots.                  *)
LEMMA Constants ==
  /\ IsFiniteSet(Slot) /\ NULL \notin Data
  /\ Session \in Data /\ Statement \in Data /\ Req \subseteq Data
  /\ DefaultSession \in Slot
  /\ \A r \in RowsObj, n \in RowsField : <<r, n>> \in Slot /\ <<r, n>> # DefaultSession
  /\ \A f \in FutObj, n \in FutField : <<f, n>> \in Slot /\ <<f, n>> # DefaultSession
  /\ \A r \in RowsObj, f \in FutObj : r # f /\ r # NULL /\ f # NULL
<1>1. IsFiniteSet(RowsField) /\ IsFiniteSet(FutField) /\ IsFiniteSet({DefaultSession})
  <2>1. /\ IsFiniteSet({"statement"}) /\ IsFiniteSet({"session"}) /\ IsFiniteSet({"result"})
        /\ IsFiniteSet({"next_result"}) /\ IsFiniteSet({DefaultSession})
    BY FS_Singleton
  <2>2. IsFiniteSet({"statement"} \cup {"session"})
    BY <2>1, FS_Union
  <2>3. IsFiniteSet({"statement"} \cup {"session"} \cup {"result"})
    BY <2>1, <2>2, FS_Union
  <2>4. IsFiniteSet({"statement"} \cup {"session"} \cup {"result"} \cup {"next_result"})
    BY <2>1, <2>3, FS_Union
  <2>5. /\ FutField = {"statement"} \cup {"session"} \cup {"result"}
        /\ RowsField = {"statement"} \cup {"session"} \cup {"result"} \cup {"next_result"}
    BY DEF FutField, RowsField
  <2>. QED  BY <2>1, <2>3, <2>4, <2>5
<1>2. IsFiniteSet(RowsObj \X RowsField) /\ IsFiniteSet(FutObj \X FutField)
  BY <1>1, FiniteObjects, FS_Product
<1>3. IsFiniteSet((RowsObj \X RowsField) \cup (FutObj \X FutField))
  BY <1>2, FS_Union
<1>4. IsFiniteSet(Slot)
  BY <1>1, <1>3, FS_Union DEF Slot
<1>5. /\ \A r \in RowsObj, n \in RowsField : <<r, n>> \in Slot
      /\ \A f \in FutObj, n \in FutField : <<f, n>> \in Slot
      /\ DefaultSession \in Slot
  BY DEF Slot
<1>6. \A r \in RowsObj, f \in FutObj : r # f /\ r # NULL /\ f # NULL
  BY DistinctObjects
<1>7. \A o \in RowsObj \cup FutObj, n \in RowsField \cup FutField : <<o, n>> # DefaultSession
  BY DistinctObjects DEF DefaultSession
<1>. QED  BY <1>4, <1>5, <1>6, <1>7, DistinctData DEF Data

(* A heap whose counts are exact.                                          *)
Heap(h) == HeapType(h, Slot, Data) /\ HeapOK(h, Slot, Data)

(* php_driver_new_peref for a handle that was not used yet ...             *)
LEMMA NewFacts ==
  ASSUME NEW h, Heap(h), NEW o \in Slot, h.ptr[o] = NULL, NEW x \in Unused(h)
  PROVE  LET g == NewPeref(h, o, x) IN
         /\ Heap(g)
         /\ g.ptr = [h.ptr EXCEPT ![o] = x]
         /\ Unused(g) = Unused(h) \ {x}
<1>1. x \in Data /\ h.status[x] # "live"
  BY DEF Unused
<1>2. Heap(NewPeref(h, o, x))
  BY <1>1, Constants, NewPerefOK DEF Heap
<1>3. Unused(NewPeref(h, o, x)) = Unused(h) \ {x}
  BY <1>1 DEF Unused, NewPeref, Heap, HeapType
<1>. QED  BY <1>2, <1>3 DEF NewPeref

(* ... php_driver_add_ref for the handle that slot p points to ...         *)
LEMMA AddFacts ==
  ASSUME NEW h, Heap(h), NEW o \in Slot, h.ptr[o] = NULL,
         NEW p \in Slot, h.ptr[p] # NULL
  PROVE  LET g == AddRef(h, o, h.ptr[p]) IN
         /\ Heap(g)
         /\ g.ptr = [h.ptr EXCEPT ![o] = h.ptr[p]]
         /\ Unused(g) = Unused(h)
<1> DEFINE x == h.ptr[p]
<1>1. x \in Data
  BY DEF Heap, HeapType
<1>2. p \in Holders(h, Slot, x)
  BY DEF Holders
<1>3. Cardinality(Holders(h, Slot, x)) \in Nat /\ Cardinality(Holders(h, Slot, x)) # 0
  BY <1>2, Constants, HoldersFinite, FS_EmptySet
<1>4. h.status[x] = "live"
  BY <1>1, <1>3 DEF Heap, HeapOK
<1>5. Heap(AddRef(h, o, x))
  BY <1>1, <1>4, Constants, AddRefOK DEF Heap
<1>6. Unused(AddRef(h, o, x)) = Unused(h) /\ AddRef(h, o, x).ptr = [h.ptr EXCEPT ![o] = x]
  BY DEF Unused, AddRef
<1>. QED  BY <1>5, <1>6

(* ... and php_driver_del_peref.                                           *)
LEMMA DelFacts ==
  ASSUME NEW h, Heap(h), NEW o \in Slot
  PROVE  LET g == DelPeref(h, o) IN
         /\ Heap(g)
         /\ g.ptr = [h.ptr EXCEPT ![o] = NULL]
         /\ Unused(g) = Unused(h)
<1> DEFINE x == h.ptr[o]
           g == DelPeref(h, o)
<1>1. Heap(g)
  BY Constants, DelPerefOK DEF Heap
<1>2. g.ptr = [h.ptr EXCEPT ![o] = NULL]
  BY DEF DelPeref, Heap, HeapType
<1>3. CASE x = NULL
  BY <1>1, <1>2, <1>3 DEF DelPeref
<1>4. CASE x # NULL
  <2>1. x \in Data /\ h.count[x] \in Int
    BY <1>4 DEF Heap, HeapType
  <2>2. o \in Holders(h, Slot, x)
    BY DEF Holders
  <2>3. Cardinality(Holders(h, Slot, x)) \in Nat /\ Cardinality(Holders(h, Slot, x)) # 0
    BY <2>2, Constants, HoldersFinite, FS_EmptySet
  <2>4. h.status[x] = "live"
    BY <2>1, <2>3 DEF Heap, HeapOK
  <2>5. /\ g.status = h.status \/ g.status = [h.status EXCEPT ![x] = "freed"]
        /\ h.status \in [Data -> {"unused", "live", "freed"}]
    BY <1>4 DEF DelPeref, Heap, HeapType
  <2>6. Unused(g) = Unused(h)
    BY <2>1, <2>4, <2>5 DEF Unused
  <2>. QED  BY <1>1, <1>2, <2>6
<1>. QED  BY <1>3, <1>4

(* cass_statement_free on the statement of an execute that ended.          *)
LEMMA FreeStatementFacts ==
  ASSUME Heap(heap), Statement \in Unused(heap), NEW g,
         g = [heap EXCEPT !.status[Statement] = "freed"]
  PROVE  Heap(g) /\ g.ptr = heap.ptr /\ Unused(g) = Unused(heap) \ {Statement}
<1>1. /\ Statement \in Data /\ heap.status[Statement] = "unused"
      /\ heap.status \in [Data -> {"unused", "live", "freed"}]
  BY Constants DEF Unused, Heap, HeapType
<1>2. /\ g.ptr = heap.ptr /\ g.count = heap.count
      /\ g.status = [heap.status EXCEPT ![Statement] = "freed"]
      /\ HeapType(g, Slot, Data)
  BY <1>1 DEF Heap, HeapType
<1>3. \A x \in Data : Holders(g, Slot, x) = Holders(heap, Slot, x)
  BY <1>2 DEF Holders
<1>4. HeapOK(g, Slot, Data)
  BY <1>1, <1>2, <1>3 DEF Heap, HeapOK
<1>. QED  BY <1>1, <1>2, <1>4 DEF Heap, Unused

-----------------------------------------------------------------------------
(* What a step leaves alone of an object, of the requests and of a request *)
(* that is not used yet.                                                   *)
SameRows(r) ==
  /\ rows'[r].st = "absent" <=> rows[r].st = "absent"
  /\ rows'[r].page = rows[r].page /\ rows'[r].prev = rows[r].prev
  /\ rows'[r].future_next_page = rows[r].future_next_page
  /\ \A n \in RowsField : heap'.ptr[<<r, n>>] = heap.ptr[<<r, n>>]

NextKept(r) ==
  LET next == rows[r].future_next_page IN
  next[1] = "future" => /\ futs'[next[2]].st = futs[next[2]].st
                        /\ futs'[next[2]].prev = futs[next[2]].prev

SameFut(f) ==
  /\ futs'[f].st = "absent" <=> futs[f].st = "absent"
  /\ futs'[f].future = futs[f].future /\ futs'[f].prev = futs[f].prev
  /\ \A n \in FutField : heap'.ptr[<<f, n>>] = heap.ptr[<<f, n>>]
  /\ futs[f].st # "absent" =>
       /\ frees'[futs[f].future] = frees[futs[f].future]
       /\ futs[f].future \in Unused(heap) => futs[f].future \in Unused(heap')

ReqsKept ==
  \A q \in Req : reqs[q].st # "none" =>
    /\ reqs'[q].st # "none" /\ reqs'[q].page = reqs[q].page
    /\ reqs[q].st \in {"ok", "garbled"} => reqs'[q].st = reqs[q].st

(* A Rows object stays as it is while its fields and its requests do. *)
LEMMA RowsStable ==
  ASSUME Inv, ReqsKept, NEW r \in RowsObj, SameRows(r)
  PROVE  RowsOK(r)'
<1>1. RowsOK(r) /\ rows[r] \in RowsType /\ NULL \notin Req
  BY Constants DEF Inv, TypeInv
<1>2. \A n \in RowsField : Field(r, n)' = Field(r, n)
  BY DEF SameRows, Field
<1>3. /\ Field(r, "result")' = Field(r, "result")
      /\ Field(r, "next_result")' = Field(r, "next_result")
      /\ Field(r, "statement")' = Field(r, "statement")
      /\ Field(r, "session")' = Field(r, "session")
  BY <1>2 DEF RowsField
<1>4. (Field(r, "result") # NULL =>
        /\ reqs[Field(r, "result")].st = "ok"
        /\ reqs[Field(r, "result")].page = rows[r].page)'
  BY <1>1, <1>3 DEF RowsOK, SameRows, ReqsKept
<1>5. (Field(r, "next_result") # NULL =>
        /\ reqs[Field(r, "next_result")].st \in {"ok", "garbled"}
        /\ reqs[Field(r, "next_result")].page = rows[r].page + 1)'
  BY <1>1, <1>3 DEF RowsOK, SameRows, ReqsKept
<1>. QED  BY <1>1, <1>2, <1>3, <1>4, <1>5 DEF RowsOK, SameRows, More

(* So does what it knows of its next page. *)
LEMMA NextStable ==
  ASSUME Inv, NEW r \in RowsObj, SameRows(r), NextKept(r)
  PROVE  NextOK(r)'
<1>1. NextOK(r)
  BY DEF Inv
<1>2. /\ Field(r, "result")' = Field(r, "result")
      /\ Field(r, "next_result")' = Field(r, "next_result")
  BY DEF SameRows, Field, RowsField
<1>. QED  BY <1>1, <1>2 DEF NextOK, SameRows, NextKept

(* A FutureRows stays as it is while its fields and its request do. *)
LEMMA FutStable ==
  ASSUME Inv, ReqsKept, NEW f \in FutObj, SameFut(f)
  PROVE  FutOK(f)'
<1>1. FutOK(f)
  BY DEF Inv
<1>2. \A n \in FutField : Field(f, n)' = Field(f, n)
  BY DEF SameFut, Field
<1>3. /\ Field(f, "result")' = Field(f, "result")
      /\ Field(f, "statement")' = Field(f, "statement")
      /\ Field(f, "session")' = Field(f, "session")
  BY <1>2 DEF FutField
<1>. QED  BY <1>1, <1>2, <1>3 DEF FutOK, SameFut, ReqsKept

(* When no object is given a request, futures stay distinct.               *)
LEMMA DistinctStable ==
  ASSUME Inv, \A f \in FutObj : futs'[f].st # "absent" =>
                 futs[f].st # "absent" /\ futs'[f].future = futs[f].future
  PROVE  FutsDistinct'
BY DEF Inv, FutsDistinct

(* The initial state.                                                      *)
LEMMA InitInv == Init => Inv
<1> SUFFICES ASSUME Init PROVE Inv
  OBVIOUS
<1> DEFINE h == EmptyHeap(Slot, Data)
<1>1. HeapType(h, Slot, Data) /\ h.ptr = [o \in Slot |-> NULL] /\ Unused(h) = Data
  BY DEF EmptyHeap, HeapType, Unused
<1>2. Heap(h)
  <2>1. \A x \in Data : Holders(h, Slot, x) = {}
    BY <1>1, Constants DEF Holders
  <2>2. \A x \in Data : h.count[x] = 0 /\ h.status[x] = "unused"
    BY DEF EmptyHeap
  <2>. QED  BY <1>1, <2>1, <2>2, FS_EmptySet DEF Heap, HeapOK
<1> HIDE DEF h
<1>3. /\ Heap(heap) /\ heap.ptr = [h.ptr EXCEPT ![DefaultSession] = Session]
      /\ Unused(heap) = Data \ {Session}
  BY <1>1, <1>2, Constants, NewFacts DEF Init, h
<1>4. TypeInv
  BY <1>3 DEF Init, TypeInv, Heap, ReqType, RowsType, FutType, CallType, NoRows, NoFut,
              NoCall, State
<1>5. RefCountExact
  BY <1>3 DEF Heap, RefCountExact
<1>6. ASSUME NEW r \in RowsObj PROVE RowsOK(r) /\ NextOK(r)
  <2>1. \A n \in RowsField : Field(r, n) = NULL
    BY <1>1, <1>3, Constants DEF Field
  <2>2. /\ Field(r, "result") = NULL /\ Field(r, "next_result") = NULL
        /\ Field(r, "statement") = NULL /\ Field(r, "session") = NULL
    BY <2>1 DEF RowsField
  <2>3. rows[r].st = "absent" /\ rows[r].future_next_page = <<"none", NULL>>
    BY DEF Init, NoRows
  <2>. QED  BY <2>1, <2>2, <2>3 DEF RowsOK, NextOK
<1>7. ASSUME NEW f \in FutObj PROVE FutOK(f) /\ futs[f].st = "absent"
  <2>1. \A n \in FutField : Field(f, n) = NULL
    BY <1>1, <1>3, Constants DEF Field
  <2>2. /\ Field(f, "result") = NULL
        /\ Field(f, "statement") = NULL /\ Field(f, "session") = NULL
    BY <2>1 DEF FutField
  <2>3. futs[f].st = "absent"
    BY DEF Init, NoFut
  <2>. QED  BY <2>1, <2>2, <2>3 DEF FutOK
<1>8. FutsDistinct
  BY <1>7 DEF FutsDistinct
<1>9. CallOK
  BY DEF Init, CallOK, NoCall
<1>10. ReqOK
  <2>1. heap.ptr[DefaultSession] = Session
    BY <1>1, <1>3, Constants
  <2>2. \A q \in Req : q \in Unused(heap)
    BY <1>3, Constants, DistinctData
  <2>. QED  BY <2>1, <2>2 DEF ReqOK, Init
<1>. QED  BY <1>4, <1>5, <1>6, <1>7, <1>8, <1>9, <1>10 DEF Inv

-----------------------------------------------------------------------------
(* cass_session_execute takes the next request.                            *)
LEMMA SubmitFacts ==
  ASSUME Inv, NEW q \in Req, NEW page \in Nat, Submit(q, page)
  PROVE  /\ ReqsKept /\ reqs' \in [Req -> ReqType]
         /\ reqs[q].st = "none" /\ reqs'[q].st = "pending" /\ reqs'[q].page = page
         /\ \A p \in Req : reqs'[p].st = "none" => reqs[p].st = "none"
         /\ 1 \in Req => reqs'[1].st # "none"
         /\ q = 1 => position = 1
         /\ q \in Unused(heap) /\ frees[q] = 0
         /\ \A f \in FutObj : futs[f].st # "absent" => futs[f].future # q
<1>1. reqs \in [Req -> ReqType] /\ q \in Nat /\ q >= 1 /\ q >= q
  BY DEF Inv, TypeInv, Req
<1>2. reqs[q].st = "none" /\ reqs' = [reqs EXCEPT ![q] = [st |-> "pending", page |-> page]]
  BY <1>1 DEF Submit
<1>3. reqs'[q].st = "pending" /\ reqs'[q].page = page
      /\ \A p \in Req : p # q => reqs'[p] = reqs[p]
  BY <1>1, <1>2
<1>4. reqs' \in [Req -> ReqType]
  BY <1>1, <1>2 DEF ReqType
<1>5. 1 \in Req /\ 1 # q => reqs[1].st # "none"
  BY <1>1 DEF Submit
<1>6. q \in Unused(heap) /\ frees[q] = 0 /\ (q = 1 => position = 1)
  BY <1>2 DEF Inv, ReqOK
<1>7. \A f \in FutObj : futs[f].st # "absent" => futs[f].future # q
  BY <1>2 DEF Inv, FutOK
<1>8. ReqsKept
  BY <1>2, <1>3 DEF ReqsKept
<1>. QED  BY <1>2, <1>3, <1>4, <1>5, <1>6, <1>7, <1>8

(* The statement is made to ask for the page after the one of object r.    *)
LEMMA PagingFacts ==
  ASSUME Inv, NEW r \in RowsObj, Field(r, "result") # NULL, SetPagingState(r)
  PROVE  position' = rows[r].page + 1 /\ position' \in Nat
<1>1. /\ RowsOK(r) /\ rows[r].page \in Nat
      /\ position' = reqs[Field(r, "result")].page + 1
  BY DEF Inv, TypeInv, RowsType, SetPagingState
<1>. QED  BY <1>1 DEF RowsOK

(* What holds of the objects when none is changed, but for its user.       *)
LEMMA ObjectsStable ==
  ASSUME Inv, ReqsKept,
         \A r \in RowsObj : SameRows(r) /\ NextKept(r),
         \A f \in FutObj : SameFut(f)
  PROVE  /\ (\A r \in RowsObj : RowsOK(r) /\ NextOK(r))'
         /\ (\A f \in FutObj : FutOK(f))'
         /\ FutsDistinct'
<1>1. \A r \in RowsObj : RowsOK(r)'
  BY RowsStable
<1>2. \A r \in RowsObj : NextOK(r)'
  BY NextStable
<1>3. \A f \in FutObj : FutOK(f)'
  BY FutStable
<1>4. FutsDistinct'
  BY DistinctStable DEF SameFut
<1>. QED  BY <1>1, <1>2, <1>3, <1>4

(* A step that leaves heap, objects and old requests alone keeps them. *)
LEMMA ObjectsUnchanged ==
  ASSUME Inv, ReqsKept, UNCHANGED <<heap, rows, futs, frees>>
  PROVE  /\ (\A r \in RowsObj : RowsOK(r) /\ NextOK(r))'
         /\ (\A f \in FutObj : FutOK(f))'
         /\ FutsDistinct'
<1>1. \A r \in RowsObj : SameRows(r) /\ NextKept(r)
  BY DEF SameRows, NextKept
<1>2. \A f \in FutObj : SameFut(f)
  BY DEF SameFut, Unused
<1>. QED  BY <1>1, <1>2, ObjectsStable

(* Session::execute up to the wait. *)
LEMMA ExecuteInv ==
  ASSUME Inv, NEW q \in Req, NEW timed \in BOOLEAN, Execute(q, timed)
  PROVE  Inv'
<1>1. /\ q = 1 /\ Submit(q, position) /\ position \in Nat
      /\ heap.ptr[DefaultSession] # NULL /\ heap.status[Statement] = "unused"
      /\ call' = [NoCall EXCEPT !.op = "execute", !.q = q, !.timed = timed]
      /\ UNCHANGED <<heap, position, frees, rows, futs>>
  BY DEF Execute, Inv, TypeInv
<1>2. /\ ReqsKept /\ reqs' \in [Req -> ReqType]
      /\ reqs'[q].st = "pending" /\ reqs'[q].page = position /\ position = 1
      /\ \A p \in Req : reqs'[p].st = "none" => reqs[p].st = "none"
      /\ 1 \in Req => reqs'[1].st # "none"
      /\ q \in Unused(heap) /\ frees[q] = 0
      /\ \A f \in FutObj : futs[f].st # "absent" => futs[f].future # q
  BY <1>1, SubmitFacts
<1>3. TypeInv' /\ RefCountExact'
  BY <1>1, <1>2 DEF Inv, TypeInv, CallType, NoCall, RefCountExact
<1>4. CallOK'
  BY <1>1, <1>2, Constants DEF CallOK, NoCall, Private, Unused
<1>5. ReqOK'
  BY <1>1, <1>2 DEF Inv, ReqOK, Unused
<1>. QED  BY <1>1, <1>2, <1>3, <1>4, <1>5, ObjectsUnchanged DEF Inv

(* FutureRows::get up to the wait. *)
LEMMA GetInv ==
  ASSUME Inv, NEW f \in FutObj, NEW timed \in BOOLEAN, Get(f, timed)
  PROVE  Inv'
<1>1. /\ futs[f].st = "live"
      /\ call' = [NoCall EXCEPT !.op = "get", !.f = f, !.q = futs[f].future, !.timed = timed]
      /\ UNCHANGED <<heap, position, reqs, frees, rows, futs>>
  BY DEF Get
<1>2. ReqsKept
  BY <1>1 DEF ReqsKept
<1>3. TypeInv' /\ RefCountExact'
  <2>1. futs[f].future \in Req
    BY <1>1 DEF Inv, FutOK
  <2>. QED  BY <1>1, <2>1 DEF Inv, TypeInv, CallType, NoCall, RefCountExact
<1>4. CallOK'
  BY <1>1 DEF CallOK, NoCall
<1>5. ReqOK'
  BY <1>1 DEF Inv, ReqOK, Unused
<1>. QED  BY <1>1, <1>2, <1>3, <1>4, <1>5, ObjectsUnchanged DEF Inv

(* Rows::nextPage up to the wait. *)
LEMMA NextPageInv ==
  ASSUME Inv, NEW r \in RowsObj, NEW q \in Req, NEW timed \in BOOLEAN, NextPage(r, q, timed)
  PROVE  Inv'
<1>1. /\ rows[r].st = "live" /\ Field(r, "next_result") = NULL
      /\ UNCHANGED <<heap, frees, rows, futs>>
      /\ heap.ptr = heap'.ptr
  BY DEF NextPage, Usable
<1>2. /\ Field(r, "next_result")' = Field(r, "next_result")
      /\ Field(r, "result")' = Field(r, "result")
  BY <1>1 DEF Field
<1>3. RefCountExact' /\ Unused(heap') = Unused(heap)
  BY <1>1 DEF Inv, RefCountExact, Unused
<1>4. CASE rows[r].future_next_page[1] = "future"
  <2> DEFINE f == rows[r].future_next_page[2]
  <2>1. /\ call' = [op |-> "next_future", r |-> r, f |-> f,
                    q |-> futs[f].future, timed |-> timed]
        /\ UNCHANGED <<position, reqs>>
    BY <1>4 DEF NextPage
  <2>2. /\ f \in FutObj /\ futs[f].st = "live" /\ Field(r, "result") # NULL
        /\ rows[r].future_next_page = <<"future", f>>
    <3>1. rows[r].future_next_page \in
            {"none", "value", "future"} \X (RowsObj \cup FutObj \cup {NULL})
      BY DEF Inv, TypeInv, RowsType
    <3>. QED  BY <1>4, <3>1 DEF Inv, NextOK
  <2>3. futs[f].future \in Req
    BY <2>2 DEF Inv, FutOK
  <2> HIDE DEF f
  <2>4. ReqsKept
    BY <2>1 DEF ReqsKept
  <2>5. TypeInv'
    BY <1>1, <2>1, <2>2, <2>3 DEF Inv, TypeInv, CallType
  <2>6. CallOK'
    BY <1>1, <1>2, <2>1, <2>2 DEF CallOK
  <2>7. ReqOK'
    BY <1>1, <1>3, <2>1 DEF Inv, ReqOK
  <2>. QED  BY <1>1, <1>3, <2>4, <2>5, <2>6, <2>7, ObjectsUnchanged DEF Inv
<1>5. CASE rows[r].future_next_page[1] = "none"
  <2>1. /\ Field(r, "result") # NULL /\ SetPagingState(r) /\ Submit(q, position')
        /\ call' = [op |-> "next", r |-> r, f |-> NULL, q |-> q, timed |-> timed]
    BY <1>5 DEF NextPage
  <2>2. position' = rows[r].page + 1 /\ position' \in Nat
    BY <2>1, PagingFacts
  <2>3. /\ ReqsKept /\ reqs' \in [Req -> ReqType]
        /\ reqs'[q].st = "pending" /\ reqs'[q].page = position'
        /\ \A p \in Req : reqs'[p].st = "none" => reqs[p].st = "none"
        /\ 1 \in Req => reqs'[1].st # "none"
        /\ q \in Unused(heap) /\ frees[q] = 0
        /\ \A f \in FutObj : futs[f].st # "absent" => futs[f].future # q
    BY <2>1, <2>2, SubmitFacts
  <2>4. TypeInv'
    BY <1>1, <2>1, <2>2, <2>3 DEF Inv, TypeInv, CallType
  <2>5. Private(q)'
    BY <1>1, <1>3, <2>3 DEF Private
  <2>6. CallOK'
    BY <1>1, <1>2, <2>1, <2>2, <2>3, <2>5 DEF CallOK
  <2>7. ReqOK'
    BY <1>1, <1>3, <2>3 DEF Inv, ReqOK
  <2>. QED  BY <1>1, <1>3, <2>3, <2>4, <2>6, <2>7, ObjectsUnchanged DEF Inv
<1>. QED  BY <1>4, <1>5 DEF NextPage

(* A request is answered, whichever call waits for it.                     *)
LEMMA ResolveInv ==
  ASSUME Inv, NEW q \in Req, NEW o \in Outcome, Resolve(q, o)
  PROVE  Inv'
<1>1. /\ reqs[q].st = "pending" /\ reqs' = [reqs EXCEPT ![q].st = o]
      /\ UNCHANGED <<heap, position, frees, rows, futs, call>>
      /\ reqs \in [Req -> ReqType] /\ o \in {"ok", "error", "garbled"}
  BY OutcomeAssumption DEF Resolve, Inv, TypeInv
<1>2. /\ reqs' \in [Req -> ReqType]
      /\ \A p \in Req : /\ reqs'[p].page = reqs[p].page
                        /\ reqs'[p].st = "none" <=> reqs[p].st = "none"
                        /\ reqs[p].st \in {"ok", "garbled"} => reqs'[p].st = reqs[p].st
  <2>1. reqs[q] \in ReqType
    BY <1>1
  <2>2. [reqs[q] EXCEPT !.st = o] \in ReqType /\ [reqs[q] EXCEPT !.st = o].st = o
        /\ [reqs[q] EXCEPT !.st = o].page = reqs[q].page
    BY <1>1, <2>1 DEF ReqType
  <2>3. \A p \in Req : reqs'[p] = IF p = q THEN [reqs[q] EXCEPT !.st = o] ELSE reqs[p]
    BY <1>1
  <2>4. reqs' \in [Req -> ReqType]
    BY <1>1, <2>2
  <2>. QED  BY <1>1, <2>2, <2>3, <2>4
<1>3. ReqsKept
  BY <1>2 DEF ReqsKept
<1>4. TypeInv' /\ RefCountExact' /\ Unused(heap') = Unused(heap)
  BY <1>1, <1>2 DEF Inv, TypeInv, RefCountExact, Unused
<1>5. CallOK'
  <2>1. \A p : Private(p) => Private(p)'
    BY <1>1, <1>2, <1>4 DEF Private
  <2>2. \A p : Private(p) => reqs'[p].page = reqs[p].page
    BY <1>2 DEF Private
  <2>. QED  BY <1>1, <1>4, <2>1, <2>2 DEF Inv, CallOK, Field
<1>6. ReqOK'
  BY <1>1, <1>2, <1>4 DEF Inv, ReqOK
<1>. QED  BY <1>1, <1>3, <1>4, <1>5, <1>6, ObjectsUnchanged DEF Inv

-----------------------------------------------------------------------------
(* The steps between calls.                                                *)
LEMMA NoCallOK ==
  ASSUME call' = NoCall
  PROVE  CallOK'
BY DEF CallOK, NoCall

(* The requests when their states do not change and what is freed or put   *)
(* to use belongs to a request that was made.                              *)
LEMMA ReqStable ==
  ASSUME Inv, UNCHANGED <<position, reqs>>,
         heap'.ptr[DefaultSession] \in {heap.ptr[DefaultSession], NULL},
         NEW q, reqs[q].st # "none",
         frees' = frees \/ (frees[q] = 0 /\ frees' = FutureFree(q)),
         \A p \in Req : p # q /\ p \in Unused(heap) => p \in Unused(heap')
  PROVE  ReqOK'
<1>1. frees \in [Req -> Nat] /\ ReqOK
  BY DEF Inv, TypeInv
<1>2. \A p \in Req : frees'[p] <= 1 /\ (p # q => frees'[p] = frees[p])
  BY <1>1 DEF ReqOK, FutureFree
<1>. QED  BY <1>1, <1>2 DEF ReqOK

(* PHP code takes or drops a reference to an object.                       *)
LEMMA RowsUser ==
  ASSUME rows \in [RowsObj -> RowsType], NEW x, NEW b \in BOOLEAN,
         rows' = [rows EXCEPT ![x].user = b]
  PROVE  /\ rows' \in [RowsObj -> RowsType]
         /\ \A p \in RowsObj : /\ rows'[p].st = rows[p].st /\ rows'[p].page = rows[p].page
                               /\ rows'[p].prev = rows[p].prev
                               /\ rows'[p].future_next_page = rows[p].future_next_page
<1>1. CASE x \in RowsObj
  BY <1>1 DEF RowsType
<1>2. CASE x \notin RowsObj
  <2>1. rows' = rows
    BY <1>2
  <2>. QED  BY <2>1
<1>. QED  BY <1>1, <1>2

(* Handing a FutureRows to PHP code changes none of its fields. *)
LEMMA FutUser ==
  ASSUME futs \in [FutObj -> FutType], NEW x, NEW b \in BOOLEAN,
         futs' = [futs EXCEPT ![x].user = b]
  PROVE  /\ futs' \in [FutObj -> FutType]
         /\ \A f \in FutObj : /\ futs'[f].st = futs[f].st /\ futs'[f].prev = futs[f].prev
                              /\ futs'[f].future = futs[f].future
<1>1. CASE x \in FutObj
  BY <1>1 DEF FutType
<1>2. CASE x \notin FutObj
  <2>1. futs' = futs
    BY <1>2
  <2>. QED  BY <2>1
<1>. QED  BY <1>1, <1>2

(* nextPageAsync on a page whose future it has already. *)
LEMMA NextPageAsyncAgainInv ==
  ASSUME Inv, NEW r \in RowsObj, NextPageAsyncAgain(r)
  PROVE  Inv'
<1> DEFINE next == rows[r].future_next_page
<1>1. /\ call = NoCall /\ UNCHANGED <<heap, position, reqs, frees, call>>
      /\ \/ futs' = [futs EXCEPT ![next[2]].user = TRUE] /\ rows' = rows
         \/ rows' = [rows EXCEPT ![next[2]].user = TRUE] /\ futs' = futs
  BY DEF NextPageAsyncAgain, Usable, Idle
<1>2. /\ rows \in [RowsObj -> RowsType] /\ futs \in [FutObj -> FutType]
  BY DEF Inv, TypeInv
<1> HIDE DEF next
<1>3. /\ rows' \in [RowsObj -> RowsType]
      /\ \A p \in RowsObj : /\ rows'[p].st = rows[p].st /\ rows'[p].page = rows[p].page
                            /\ rows'[p].prev = rows[p].prev
                            /\ rows'[p].future_next_page = rows[p].future_next_page
  BY <1>1, <1>2, RowsUser
<1>4. /\ futs' \in [FutObj -> FutType]
      /\ \A f \in FutObj : /\ futs'[f].st = futs[f].st /\ futs'[f].prev = futs[f].prev
                           /\ futs'[f].future = futs[f].future
  BY <1>1, <1>2, FutUser
<1>5. \A p \in RowsObj : SameRows(p) /\ NextKept(p)
  BY <1>1, <1>3, <1>4 DEF SameRows, NextKept, Inv, NextOK
<1>6. \A f \in FutObj : SameFut(f)
  BY <1>1, <1>4 DEF SameFut, Unused
<1>7. ReqsKept
  BY <1>1 DEF ReqsKept
<1>8. TypeInv' /\ RefCountExact'
  BY <1>1, <1>3, <1>4 DEF Inv, TypeInv, RefCountExact
<1>9. ReqOK'
  BY <1>1 DEF Inv, ReqOK, Unused
<1>. QED  BY <1>1, <1>5, <1>6, <1>7, <1>8, <1>9, NoCallOK, ObjectsStable DEF Inv

(* PHP code drops its reference to an object. *)
LEMMA DropInv ==
  ASSUME Inv, Drop
  PROVE  Inv'
<1>1. call = NoCall /\ UNCHANGED <<position, reqs, frees, call>>
  BY DEF Drop, Idle
<1>2. ReqsKept /\ CallOK'
  BY <1>1, NoCallOK DEF ReqsKept
<1>3. /\ rows \in [RowsObj -> RowsType] /\ futs \in [FutObj -> FutType] /\ Heap(heap)
  BY DEF Inv, TypeInv, Heap, RefCountExact
<1>4. CASE \E r \in RowsObj : /\ rows' = [rows EXCEPT ![r].user = FALSE]
                              /\ UNCHANGED <<futs, heap>>
  <2> PICK s \in RowsObj : rows' = [rows EXCEPT ![s].user = FALSE] /\ UNCHANGED <<futs, heap>>
    BY <1>4
  <2>1. /\ rows' \in [RowsObj -> RowsType]
        /\ \A p \in RowsObj : /\ rows'[p].st = rows[p].st /\ rows'[p].page = rows[p].page
                              /\ rows'[p].prev = rows[p].prev
                              /\ rows'[p].future_next_page = rows[p].future_next_page
    BY <1>3, RowsUser
  <2>2. \A r \in RowsObj : SameRows(r) /\ NextKept(r)
    BY <2>1 DEF SameRows, NextKept
  <2>3. \A f \in FutObj : SameFut(f)
    BY <1>1 DEF SameFut, Unused
  <2>4. TypeInv' /\ RefCountExact' /\ ReqOK'
    BY <1>1, <2>1 DEF Inv, TypeInv, RefCountExact, ReqOK, Unused
  <2>. QED  BY <1>2, <2>2, <2>3, <2>4, ObjectsStable DEF Inv
<1>5. CASE \E f \in FutObj : /\ futs' = [futs EXCEPT ![f].user = FALSE]
                             /\ UNCHANGED <<rows, heap>>
  <2> PICK s \in FutObj : futs' = [futs EXCEPT ![s].user = FALSE] /\ UNCHANGED <<rows, heap>>
    BY <1>5
  <2>1. /\ futs' \in [FutObj -> FutType]
        /\ \A f \in FutObj : /\ futs'[f].st = futs[f].st /\ futs'[f].prev = futs[f].prev
                             /\ futs'[f].future = futs[f].future
    BY <1>3, FutUser
  <2>2. \A r \in RowsObj : SameRows(r) /\ NextKept(r)
    BY <2>1 DEF SameRows, NextKept, Inv, NextOK
  <2>3. \A f \in FutObj : SameFut(f)
    BY <1>1, <2>1 DEF SameFut, Unused
  <2>4. TypeInv' /\ RefCountExact' /\ ReqOK'
    BY <1>1, <2>1 DEF Inv, TypeInv, RefCountExact, ReqOK, Unused
  <2>. QED  BY <1>2, <2>2, <2>3, <2>4, ObjectsStable DEF Inv
<1>6. CASE heap' = DelPeref(heap, DefaultSession) /\ UNCHANGED <<rows, futs>>
  <2>1. /\ Heap(heap') /\ heap'.ptr = [heap.ptr EXCEPT ![DefaultSession] = NULL]
        /\ Unused(heap') = Unused(heap)
    BY <1>3, <1>6, Constants, DelFacts
  <2>2. \A s \in Slot : heap'.ptr[s] = IF s = DefaultSession THEN NULL ELSE heap.ptr[s]
    BY <1>3, <2>1 DEF Heap, HeapType
  <2>3. \A r \in RowsObj : SameRows(r) /\ NextKept(r)
    BY <1>6, <2>2, Constants DEF SameRows, NextKept
  <2>4. \A f \in FutObj : SameFut(f)
    BY <1>1, <1>6, <2>1, <2>2, Constants DEF SameFut
  <2>5. TypeInv' /\ RefCountExact'
    BY <1>1, <1>6, <2>1 DEF Inv, TypeInv, RefCountExact, Heap
  <2>6. ReqOK'
    BY <1>1, <2>1, <2>2, Constants DEF Inv, ReqOK
  <2>. QED  BY <1>2, <2>3, <2>4, <2>5, <2>6, ObjectsStable DEF Inv
<1>. QED  BY <1>4, <1>5, <1>6 DEF Drop

(* php_driver_rows_free, with or without the free handler. *)
LEMMA FreeRowsInv ==
  ASSUME Inv, NEW r \in RowsObj, FreeRows(r)
  PROVE  Inv'
<1> DEFINE h1 == DelPeref(heap, <<r, "result">>)
           h2 == DelPeref(h1, <<r, "statement">>)
           h3 == DelPeref(h2, <<r, "session">>)
           h4 == DelPeref(h3, <<r, "next_result">>)
<1>1. /\ call = NoCall /\ rows[r].st = "live"
      /\ heap' = (IF free_installed THEN h4 ELSE heap)
      /\ rows' = [rows EXCEPT ![r] = IF free_installed THEN NoRows ELSE [@ EXCEPT !.st = "leaked"]]
      /\ UNCHANGED <<position, reqs, frees, futs, call>>
  BY DEF FreeRows, Released, Emptied
<1>2. ReqsKept /\ CallOK'
  BY <1>1, NoCallOK DEF ReqsKept
<1>3. /\ rows \in [RowsObj -> RowsType] /\ rows[r] \in RowsType /\ Heap(heap)
  BY DEF Inv, TypeInv, Heap, RefCountExact
<1>4. CASE free_installed
  <2>1. Heap(h1) /\ h1.ptr = [heap.ptr EXCEPT ![<<r, "result">>] = NULL]
        /\ Unused(h1) = Unused(heap)
    BY <1>3, Constants, DelFacts DEF RowsField
  <2> HIDE DEF h1
  <2>2. Heap(h2) /\ h2.ptr = [h1.ptr EXCEPT ![<<r, "statement">>] = NULL]
        /\ Unused(h2) = Unused(h1)
    BY <2>1, Constants, DelFacts DEF RowsField
  <2> HIDE DEF h2
  <2>3. Heap(h3) /\ h3.ptr = [h2.ptr EXCEPT ![<<r, "session">>] = NULL]
        /\ Unused(h3) = Unused(h2)
    BY <2>2, Constants, DelFacts DEF RowsField
  <2> HIDE DEF h3
  <2>4. Heap(h4) /\ h4.ptr = [h3.ptr EXCEPT ![<<r, "next_result">>] = NULL]
        /\ Unused(h4) = Unused(h3)
    BY <2>3, Constants, DelFacts DEF RowsField
  <2> HIDE DEF h4
  <2>5. heap' = h4
    BY <1>1, <1>4
  <2>6. \A s \in Slot : (\A n \in RowsField : s # <<r, n>>) => heap'.ptr[s] = heap.ptr[s]
    BY <1>3, <2>1, <2>2, <2>3, <2>4, <2>5 DEF Heap, HeapType, RowsField
  <2>7. \A n \in RowsField : heap'.ptr[<<r, n>>] = NULL
    <3>1. \A n \in RowsField : <<r, n>> \in Slot
      BY Constants
    <3>2. h1.ptr[<<r, "result">>] = NULL
      BY <1>3, <2>1, <3>1 DEF Heap, HeapType, RowsField
    <3>3. h2.ptr[<<r, "result">>] = NULL /\ h2.ptr[<<r, "statement">>] = NULL
      BY <2>1, <2>2, <3>1, <3>2 DEF Heap, HeapType, RowsField
    <3>4. /\ h3.ptr[<<r, "result">>] = NULL /\ h3.ptr[<<r, "statement">>] = NULL
          /\ h3.ptr[<<r, "session">>] = NULL
      BY <2>2, <2>3, <3>1, <3>3 DEF Heap, HeapType, RowsField
    <3>5. /\ h4.ptr[<<r, "result">>] = NULL /\ h4.ptr[<<r, "statement">>] = NULL
          /\ h4.ptr[<<r, "session">>] = NULL /\ h4.ptr[<<r, "next_result">>] = NULL
      BY <2>3, <2>4, <3>1, <3>4 DEF Heap, HeapType, RowsField
    <3>. QED  BY <2>5, <3>5 DEF RowsField
  <2>8. Heap(heap') /\ Unused(heap') = Unused(heap)
    BY <2>1, <2>2, <2>3, <2>4, <2>5
  <2>9. rows' = [rows EXCEPT ![r] = NoRows]
    BY <1>1, <1>4
  <2>10. \A p \in RowsObj : p # r => SameRows(p) /\ NextKept(p)
    <3>1. \A p \in RowsObj, n \in RowsField : p # r => heap'.ptr[<<p, n>>] = heap.ptr[<<p, n>>]
      BY <2>6, Constants
    <3>. QED  BY <1>1, <1>3, <2>9, <3>1 DEF SameRows, NextKept
  <2>11. \A f \in FutObj : SameFut(f)
    <3>1. \A f \in FutObj, n \in FutField : heap'.ptr[<<f, n>>] = heap.ptr[<<f, n>>]
      BY <2>6, Constants
    <3>. QED  BY <1>1, <2>8, <3>1 DEF SameFut
  <2>12. RowsOK(r)' /\ NextOK(r)'
    <3>1. rows'[r] = NoRows
      BY <1>3, <2>9
    <3>2. /\ Field(r, "result")' = NULL /\ Field(r, "next_result")' = NULL
          /\ Field(r, "statement")' = NULL /\ Field(r, "session")' = NULL
          /\ \A n \in RowsField : Field(r, n)' = NULL
      BY <2>7 DEF Field, RowsField
    <3>. QED  BY <3>1, <3>2 DEF RowsOK, NextOK, NoRows
  <2>13. \A p \in RowsObj : RowsOK(p)' /\ NextOK(p)'
    BY <1>2, <2>10, <2>12, RowsStable, NextStable
  <2>14. (\A f \in FutObj : FutOK(f)') /\ FutsDistinct'
    BY <1>1, <1>2, <2>11, FutStable, DistinctStable
  <2>15. NoRows \in RowsType
    BY DEF NoRows, RowsType, State
  <2>16. TypeInv' /\ RefCountExact'
    BY <1>1, <2>8, <2>9, <2>15 DEF Inv, TypeInv, RefCountExact, Heap
  <2>17. ReqOK'
    <3>1. heap'.ptr[DefaultSession] = heap.ptr[DefaultSession]
      BY <2>6, Constants
    <3>. QED  BY <1>1, <2>8, <3>1 DEF Inv, ReqOK
  <2>. QED  BY <1>2, <2>13, <2>14, <2>16, <2>17 DEF Inv
<1>5. CASE ~free_installed
  <2>1. heap' = heap /\ rows' = [rows EXCEPT ![r].st = "leaked"]
    BY <1>1, <1>5
  <2>2. /\ rows' \in [RowsObj -> RowsType]
        /\ \A p \in RowsObj : /\ rows'[p].st = "absent" <=> rows[p].st = "absent"
                              /\ rows'[p].page = rows[p].page /\ rows'[p].prev = rows[p].prev
                              /\ rows'[p].future_next_page = rows[p].future_next_page
    BY <1>1, <1>3, <2>1 DEF RowsType, State
  <2>3. \A p \in RowsObj : SameRows(p) /\ NextKept(p)
    BY <1>1, <2>1, <2>2 DEF SameRows, NextKept
  <2>4. \A f \in FutObj : SameFut(f)
    BY <1>1, <2>1 DEF SameFut, Unused
  <2>5. TypeInv' /\ RefCountExact' /\ ReqOK'
    BY <1>1, <2>1, <2>2 DEF Inv, TypeInv, RefCountExact, ReqOK, Unused
  <2>. QED  BY <1>2, <2>3, <2>4, <2>5, ObjectsStable DEF Inv
<1>. QED  BY <1>4, <1>5

(* php_driver_future_rows_free, with or without the free handler. *)
LEMMA FreeFutInv ==
  ASSUME Inv, NEW f \in FutObj, FreeFut(f)
  PROVE  Inv'
<1> DEFINE h1 == DelPeref(heap, <<f, "statement">>)
           h2 == DelPeref(h1, <<f, "session">>)
           h3 == DelPeref(h2, <<f, "result">>)
           q == futs[f].future
<1>1. /\ call = NoCall /\ futs[f].st = "live" /\ ~FutHeld(f)
      /\ heap' = (IF free_installed THEN h3 ELSE heap)
      /\ frees' = (IF free_installed THEN FutureFree(q) ELSE frees)
      /\ futs' = [futs EXCEPT ![f] = IF free_installed THEN NoFut ELSE [@ EXCEPT !.st = "leaked"]]
      /\ UNCHANGED <<position, reqs, rows, call>>
  BY DEF FreeFut, Released, Emptied
<1>2. ReqsKept /\ CallOK'
  BY <1>1, NoCallOK DEF ReqsKept
<1>3. /\ futs \in [FutObj -> FutType] /\ futs[f] \in FutType /\ Heap(heap)
      /\ frees \in [Req -> Nat]
  BY DEF Inv, TypeInv, Heap, RefCountExact
<1>4. q \in Req /\ frees[q] = 0 /\ reqs[q].st # "none"
  BY <1>1 DEF Inv, FutOK
<1>5. \A g \in FutObj : g # f => futs'[g] = futs[g]
                                 /\ (futs[g].st # "absent" => futs[g].future # q)
  BY <1>1, <1>3 DEF Inv, FutsDistinct
<1>6. \A p \in RowsObj : NextKept(p)
  <2>1. ASSUME NEW p \in RowsObj, rows[p].future_next_page[1] = "future"
        PROVE  rows[p].future_next_page[2] \in FutObj /\ rows[p].future_next_page[2] # f
    <3>1. /\ rows[p].future_next_page \in
               {"none", "value", "future"} \X (RowsObj \cup FutObj \cup {NULL})
          /\ NextOK(p) /\ RowsOK(p)
      BY DEF Inv, TypeInv, RowsType
    <3>2. rows[p].st # "absent"
      BY <2>1, <3>1 DEF RowsOK
    <3>3. rows[p].future_next_page # <<"future", f>>
      BY <1>1, <3>2 DEF FutHeld
    <3>. QED  BY <2>1, <3>1, <3>3 DEF NextOK
  <2>. QED  BY <1>5, <2>1 DEF NextKept
<1>7. CASE free_installed
  <2>1. Heap(h1) /\ h1.ptr = [heap.ptr EXCEPT ![<<f, "statement">>] = NULL]
        /\ Unused(h1) = Unused(heap)
    BY <1>3, Constants, DelFacts DEF FutField
  <2> HIDE DEF h1
  <2>2. Heap(h2) /\ h2.ptr = [h1.ptr EXCEPT ![<<f, "session">>] = NULL]
        /\ Unused(h2) = Unused(h1)
    BY <2>1, Constants, DelFacts DEF FutField
  <2> HIDE DEF h2
  <2>3. Heap(h3) /\ h3.ptr = [h2.ptr EXCEPT ![<<f, "result">>] = NULL]
        /\ Unused(h3) = Unused(h2)
    BY <2>2, Constants, DelFacts DEF FutField
  <2> HIDE DEF h3
  <2>4. heap' = h3 /\ frees' = FutureFree(q) /\ futs' = [futs EXCEPT ![f] = NoFut]
    BY <1>1, <1>7
  <2>5. \A s \in Slot : (\A n \in FutField : s # <<f, n>>) => heap'.ptr[s] = heap.ptr[s]
    BY <1>3, <2>1, <2>2, <2>3, <2>4 DEF Heap, HeapType, FutField
  <2>6. \A n \in FutField : heap'.ptr[<<f, n>>] = NULL
    BY <1>3, <2>1, <2>2, <2>3, <2>4, Constants DEF Heap, HeapType, FutField
  <2>7. Heap(heap') /\ Unused(heap') = Unused(heap)
    BY <2>1, <2>2, <2>3, <2>4
  <2> HIDE DEF q
  <2>8. \A p \in RowsObj : SameRows(p)
    <3>1. \A p \in RowsObj, n \in RowsField : heap'.ptr[<<p, n>>] = heap.ptr[<<p, n>>]
      BY <2>5, Constants
    <3>. QED  BY <1>1, <3>1 DEF SameRows
  <2>9. \A g \in FutObj : g # f => SameFut(g)
    <3>1. \A g \in FutObj, n \in FutField : g # f => heap'.ptr[<<g, n>>] = heap.ptr[<<g, n>>]
      BY <2>5, Constants
    <3>2. \A p \in Req : p # q => frees'[p] = frees[p]
      BY <1>3, <2>4 DEF FutureFree
    <3>3. \A g \in FutObj : futs[g].st # "absent" => futs[g].future \in Req
      BY DEF Inv, FutOK
    <3>. QED  BY <1>5, <2>7, <3>1, <3>2, <3>3 DEF SameFut
  <2>10. FutOK(f)' /\ futs'[f].st = "absent"
    <3>1. futs'[f] = NoFut
      BY <1>3, <2>4
    <3>2. /\ Field(f, "statement")' = NULL /\ Field(f, "session")' = NULL
          /\ \A n \in FutField : Field(f, n)' = NULL
      BY <2>6 DEF Field, FutField
    <3>. QED  BY <3>1, <3>2 DEF FutOK, NoFut
  <2>11. \A p \in RowsObj : RowsOK(p)' /\ NextOK(p)'
    BY <1>2, <1>6, <2>8, RowsStable, NextStable
  <2>12. \A g \in FutObj : FutOK(g)'
    BY <1>2, <2>9, <2>10, FutStable
  <2>13. FutsDistinct'
    BY <1>5, <2>10, DistinctStable
  <2>14. NoFut \in FutType /\ FutureFree(q) \in [Req -> Nat]
    BY <1>3, <1>4 DEF NoFut, FutType, State, FutureFree
  <2>15. TypeInv' /\ RefCountExact'
    BY <1>1, <2>4, <2>7, <2>14 DEF Inv, TypeInv, RefCountExact, Heap
  <2>16. heap'.ptr[DefaultSession] = heap.ptr[DefaultSession]
    BY <2>5, Constants
  <2>17. ReqOK'
    BY <1>1, <1>4, <2>4, <2>7, <2>16, ReqStable
  <2>. QED  BY <1>2, <2>11, <2>12, <2>13, <2>15, <2>17 DEF Inv
<1>8. CASE ~free_installed
  <2>1. heap' = heap /\ frees' = frees /\ futs' = [futs EXCEPT ![f].st = "leaked"]
    BY <1>1, <1>8
  <2>2. /\ futs' \in [FutObj -> FutType]
        /\ \A g \in FutObj : /\ futs'[g].st = "absent" <=> futs[g].st = "absent"
                             /\ futs'[g].prev = futs[g].prev
                             /\ futs'[g].future = futs[g].future
    BY <1>1, <1>3, <2>1 DEF FutType, State
  <2>3. \A p \in RowsObj : SameRows(p)
    BY <1>1, <2>1 DEF SameRows
  <2>4. \A g \in FutObj : SameFut(g)
    BY <2>1, <2>2 DEF SameFut, Unused
  <2>5. TypeInv' /\ RefCountExact' /\ ReqOK'
    BY <1>1, <2>1, <2>2 DEF Inv, TypeInv, RefCountExact, ReqOK, Unused
  <2>. QED  BY <1>2, <1>6, <2>3, <2>4, <2>5, ObjectsStable DEF Inv
<1>. QED  BY <1>7, <1>8

-----------------------------------------------------------------------------
(* A new Rows object for the answer to request q.                          *)
Shares(p, r, q) ==
  IF More(reqs[q].page)
    THEN /\ p[<<r, "result">>] = q
         /\ p[<<r, "statement">>] = Statement /\ p[<<r, "session">>] = Session
         /\ p[<<r, "next_result">>] = NULL
    ELSE \A n \in RowsField : p[<<r, n>>] = NULL

(* The Rows object that php_driver_rows_create fills. *)
LEMMA CreatedOK ==
  ASSUME Inv, reqs' = reqs, NEW r \in RowsObj, NEW q \in Req, NEW prev \in Nat,
         reqs[q].st = "ok", reqs[q].page = prev + 1,
         rows'[r] = NewRows(q, prev), Shares(heap'.ptr, r, q)
  PROVE  RowsOK(r)' /\ NextOK(r)' /\ rows'[r] \in RowsType
<1>1. /\ rows'[r].st = "live" /\ rows'[r].page = reqs[q].page /\ rows'[r].prev = prev
      /\ rows'[r].future_next_page = <<"none", NULL>>
      /\ reqs[q].page \in Nat
      /\ rows'[r] \in RowsType
  <2>1. reqs[q].page \in Nat
    BY DEF Inv, TypeInv, ReqType
  <2>2. rows'[r] = [st |-> "live", user |-> TRUE, page |-> reqs[q].page, prev |-> prev,
                    future_next_page |-> <<"none", NULL>>]
    BY DEF NewRows, NoRows
  <2>. QED  BY <2>1, <2>2 DEF RowsType, State
<1>2. q # NULL /\ Statement # NULL /\ Session # NULL
  BY Constants
<1>3. CASE More(reqs[q].page)
  <2>1. /\ Field(r, "result")' = q /\ Field(r, "next_result")' = NULL
        /\ Field(r, "statement")' = Statement /\ Field(r, "session")' = Session
    BY <1>3 DEF Shares, Field
  <2>. QED  BY <1>1, <1>2, <1>3, <2>1 DEF RowsOK, NextOK, More
<1>4. CASE ~More(reqs[q].page)
  <2>1. /\ Field(r, "result")' = NULL /\ Field(r, "next_result")' = NULL
        /\ Field(r, "statement")' = NULL /\ Field(r, "session")' = NULL
    BY <1>4 DEF Shares, Field, RowsField
  <2>. QED  BY <1>1, <1>2, <1>4, <2>1 DEF RowsOK, NextOK, More
<1>. QED  BY <1>3, <1>4

(* The tail of rows_create and of FutureRows::get.                         *)
LEMMA ShareFacts ==
  ASSUME NEW h, Heap(h), NEW r \in RowsObj, \A n \in RowsField : h.ptr[<<r, n>>] = NULL,
         NEW o, o # r, NEW res, <<o, "statement">> \in Slot, <<o, "session">> \in Slot,
         <<o, res>> \in Slot, NEW q, q = h.ptr[<<o, res>>], q # NULL,
         h.ptr[<<o, "statement">>] = Statement, h.ptr[<<o, "session">>] = Session
  PROVE  LET g == Share(h, r, o, res) IN
         /\ Heap(g) /\ Unused(g) = Unused(h)
         /\ Shares(g.ptr, r, q)
         /\ \A s \in Slot : (\A n \in RowsField : s # <<r, n>>) => g.ptr[s] = h.ptr[s]
<1>1. CASE ~More(reqs[q].page)
  BY <1>1 DEF Share, Shares
<1>2. CASE More(reqs[q].page)
  <2> DEFINE g1 == AddRef(h, <<r, "statement">>, h.ptr[<<o, "statement">>])
             g2 == AddRef(g1, <<r, "session">>, h.ptr[<<o, "session">>])
             g3 == AddRef(g2, <<r, "result">>, h.ptr[<<o, res>>])
  <2>0. /\ \A n \in RowsField : <<r, n>> \in Slot
        /\ <<r, "statement">> \in Slot /\ <<r, "session">> \in Slot /\ <<r, "result">> \in Slot
        /\ <<r, "next_result">> \in Slot
        /\ Statement # NULL /\ Session # NULL
        /\ h.ptr[<<r, "statement">>] = NULL /\ h.ptr[<<r, "session">>] = NULL
        /\ h.ptr[<<r, "result">>] = NULL /\ h.ptr[<<r, "next_result">>] = NULL
    BY Constants DEF RowsField
  <2>1. Heap(g1) /\ Unused(g1) = Unused(h)
        /\ g1.ptr = [h.ptr EXCEPT ![<<r, "statement">>] = Statement]
    BY <2>0, AddFacts
  <2> HIDE DEF g1
  <2>2. \A s \in Slot : g1.ptr[s] = IF s = <<r, "statement">> THEN Statement ELSE h.ptr[s]
    BY <2>1 DEF Heap, HeapType
  <2>3. Heap(g2) /\ Unused(g2) = Unused(g1)
        /\ g2.ptr = [g1.ptr EXCEPT ![<<r, "session">>] = Session]
    <3>1. g1.ptr[<<o, "session">>] = Session /\ g1.ptr[<<r, "session">>] = NULL
      BY <2>0, <2>2
    <3>2. g2 = AddRef(g1, <<r, "session">>, g1.ptr[<<o, "session">>])
      BY <3>1
    <3> HIDE DEF g2
    <3> DEFINE a == <<r, "session">>
               b == <<o, "session">>
    <3>3. /\ Heap(g1) /\ a \in Slot /\ b \in Slot /\ g1.ptr[a] = NULL /\ g1.ptr[b] # NULL
          /\ g2 = AddRef(g1, a, g1.ptr[b])
      BY <2>0, <2>1, <3>1, <3>2
    <3> HIDE DEF a, b
    <3>4. Heap(g2) /\ Unused(g2) = Unused(g1) /\ g2.ptr = [g1.ptr EXCEPT ![a] = g1.ptr[b]]
      BY <3>3, AddFacts
    <3>. QED  BY <3>1, <3>4 DEF a, b
  <2> HIDE DEF g2
  <2>4. \A s \in Slot : g2.ptr[s] = IF s = <<r, "session">> THEN Session ELSE g1.ptr[s]
    BY <2>1, <2>3 DEF Heap, HeapType
  <2>5. Heap(g3) /\ Unused(g3) = Unused(g2)
        /\ g3.ptr = [g2.ptr EXCEPT ![<<r, "result">>] = q]
    <3>1. g2.ptr[<<o, res>>] = q /\ g2.ptr[<<r, "result">>] = NULL
      BY <2>0, <2>2, <2>4
    <3>2. g3 = AddRef(g2, <<r, "result">>, g2.ptr[<<o, res>>])
      BY <3>1
    <3> HIDE DEF g3
    <3> DEFINE a == <<r, "result">>
               b == <<o, res>>
    <3>3. /\ Heap(g2) /\ a \in Slot /\ b \in Slot /\ g2.ptr[a] = NULL /\ g2.ptr[b] # NULL
          /\ g3 = AddRef(g2, a, g2.ptr[b])
      BY <2>0, <2>3, <3>1, <3>2
    <3> HIDE DEF a, b
    <3>4. Heap(g3) /\ Unused(g3) = Unused(g2) /\ g3.ptr = [g2.ptr EXCEPT ![a] = g2.ptr[b]]
      BY <3>3, AddFacts
    <3>. QED  BY <3>1, <3>4 DEF a, b
  <2> HIDE DEF g3
  <2>6. \A s \in Slot : g3.ptr[s] = IF s = <<r, "result">> THEN q ELSE g2.ptr[s]
    BY <2>3, <2>5 DEF Heap, HeapType
  <2>7. Share(h, r, o, res) = g3
    BY <1>2 DEF Share, ShareAll, g1, g2, g3
  <2>8. Shares(g3.ptr, r, q)
    BY <1>2, <2>0, <2>2, <2>4, <2>6 DEF Shares
  <2>9. \A s \in Slot : (\A n \in RowsField : s # <<r, n>>) => g3.ptr[s] = h.ptr[s]
    BY <2>2, <2>4, <2>6 DEF RowsField
  <2>. QED  BY <2>1, <2>3, <2>5, <2>7, <2>8, <2>9
<1>. QED  BY <1>1, <1>2

(* An object learns its next result; a future its result.                  *)
LEMMA NextResultOK ==
  ASSUME Inv, reqs' = reqs, NEW r \in RowsObj, NEW q \in Req,
         reqs[q].st \in {"ok", "garbled"}, reqs[q].page = rows[r].page + 1,
         rows'[r] = rows[r], rows[r].st # "absent", Field(r, "result") # NULL, NextKept(r),
         \A n \in RowsField : n # "next_result" => heap'.ptr[<<r, n>>] = heap.ptr[<<r, n>>],
         heap'.ptr[<<r, "next_result">>] = q
  PROVE  RowsOK(r)' /\ NextOK(r)'
<1>1. RowsOK(r) /\ NextOK(r) /\ q # NULL
  BY Constants DEF Inv
<1>2. /\ Field(r, "result")' = Field(r, "result") /\ Field(r, "next_result")' = q
      /\ Field(r, "statement")' = Field(r, "statement")
      /\ Field(r, "session")' = Field(r, "session")
  BY DEF Field, RowsField
<1>3. RowsOK(r)'
  BY <1>1, <1>2 DEF RowsOK, More
<1>4. NextOK(r)'
  BY <1>1, <1>2 DEF NextOK, NextKept
<1>. QED  BY <1>3, <1>4

(* php_driver_future_rows_get_result makes the handle of a result once. *)
LEMMA FutResultOK ==
  ASSUME Inv, reqs' = reqs, NEW f \in FutObj, futs[f].st # "absent", futs' = futs,
         reqs[futs[f].future].st \in {"ok", "garbled"},
         frees'[futs[f].future] = frees[futs[f].future],
         heap'.ptr[<<f, "result">>] = futs[f].future,
         heap'.ptr[<<f, "statement">>] = heap.ptr[<<f, "statement">>],
         heap'.ptr[<<f, "session">>] = heap.ptr[<<f, "session">>]
  PROVE  FutOK(f)'
<1>1. FutOK(f) /\ futs[f].future \in Req /\ NULL \notin Req
  BY Constants DEF Inv, FutOK
<1>2. /\ Field(f, "result")' = futs[f].future
      /\ Field(f, "statement")' = Field(f, "statement")
      /\ Field(f, "session")' = Field(f, "session")
  BY DEF Field
<1>. QED  BY <1>1, <1>2 DEF FutOK

(* What the heap is after that function. *)
LEMMA GetResultFacts ==
  ASSUME Inv, NEW f \in FutObj, futs[f].st # "absent"
  PROVE  LET h == GetResult(heap, f) IN
         /\ Heap(h) /\ h.ptr[<<f, "result">>] = futs[f].future
         /\ \A s \in Slot : s # <<f, "result">> => h.ptr[s] = heap.ptr[s]
         /\ \A x \in Unused(heap) : x # futs[f].future => x \in Unused(h)
<1>1. /\ <<f, "result">> \in Slot /\ Heap(heap) /\ NULL \notin Req
      /\ heap.ptr[<<f, "result">>] \in {futs[f].future, NULL}
      /\ heap.ptr[<<f, "result">>] = NULL => futs[f].future \in Unused(heap)
      /\ futs[f].future \in Req
  BY Constants DEF Inv, FutOK, Field, FutField, Heap, TypeInv, RefCountExact
<1>2. CASE heap.ptr[<<f, "result">>] = NULL
  <2> DEFINE h == NewPeref(heap, <<f, "result">>, futs[f].future)
  <2>1. /\ Heap(h) /\ h.ptr = [heap.ptr EXCEPT ![<<f, "result">>] = futs[f].future]
        /\ Unused(h) = Unused(heap) \ {futs[f].future}
    BY <1>1, <1>2, NewFacts
  <2> HIDE DEF h
  <2>2. GetResult(heap, f) = h
    BY <1>2 DEF GetResult, h
  <2>3. \A s \in Slot : h.ptr[s] = IF s = <<f, "result">> THEN futs[f].future ELSE heap.ptr[s]
    BY <1>1, <2>1 DEF Heap, HeapType
  <2>. QED  BY <1>1, <2>1, <2>2, <2>3
<1>3. CASE heap.ptr[<<f, "result">>] # NULL
  <2>1. GetResult(heap, f) = heap /\ heap.ptr[<<f, "result">>] = futs[f].future
    BY <1>1, <1>3 DEF GetResult
  <2>. QED  BY <1>1, <2>1
<1>. QED  BY <1>2, <1>3

-----------------------------------------------------------------------------
(* The returns of execute, get and nextPage.                               *)
LEMMA PrivateFreed ==
  ASSUME Inv, NEW q, Private(q), frees' = FutureFree(q), futs' = futs,
         \A f \in FutObj, n \in FutField : heap'.ptr[<<f, n>>] = heap.ptr[<<f, n>>],
         \A p \in Req : p # q /\ p \in Unused(heap) => p \in Unused(heap')
  PROVE  /\ frees' \in [Req -> Nat]
         /\ \A f \in FutObj : SameFut(f)
<1>1. frees \in [Req -> Nat] /\ q \in Req
  BY DEF Inv, TypeInv, Private
<1>2. frees' \in [Req -> Nat] /\ \A p \in Req : p # q => frees'[p] = frees[p]
  BY <1>1 DEF FutureFree
<1>3. \A f \in FutObj : futs[f].st # "absent" => futs[f].future \in Req /\ futs[f].future # q
  BY DEF Inv, FutOK, Private
<1>. QED  BY <1>2, <1>3 DEF SameFut

(* Session::execute returns without a page. *)
LEMMA ExecuteFailsInv ==
  ASSUME Inv, ExecuteFails
  PROVE  Inv'
<1> DEFINE q == call.q
<1>1. /\ Private(q) /\ Statement \in Unused(heap)
      /\ frees' = FutureFree(q) /\ heap' = [heap EXCEPT !.status[Statement] = "freed"]
      /\ call' = NoCall
      /\ UNCHANGED <<position, reqs, rows, futs>>
      /\ Heap(heap)
  BY DEF ExecuteFails, Inv, CallOK, Heap, TypeInv, RefCountExact
<1>2. ReqsKept /\ CallOK'
  BY <1>1, NoCallOK DEF ReqsKept
<1>3. Heap(heap') /\ heap'.ptr = heap.ptr /\ Unused(heap') = Unused(heap) \ {Statement}
  BY <1>1, FreeStatementFacts
<1>4. \A p \in Req : p \in Unused(heap) => p \in Unused(heap')
  BY <1>3, DistinctData
<1> HIDE DEF q
<1>5. frees' \in [Req -> Nat] /\ \A f \in FutObj : SameFut(f)
  BY <1>1, <1>3, <1>4, PrivateFreed
<1>6. \A r \in RowsObj : SameRows(r) /\ NextKept(r)
  BY <1>1, <1>3 DEF SameRows, NextKept
<1>7. TypeInv' /\ RefCountExact'
  <2>1. NoCall \in CallType
    BY DEF NoCall, CallType
  <2>. QED  BY <1>1, <1>3, <1>5, <2>1 DEF Inv, TypeInv, RefCountExact, Heap
<1>8. ReqOK'
  BY <1>1, <1>3, <1>4, ReqStable DEF Private
<1>. QED  BY <1>2, <1>5, <1>6, <1>7, <1>8, ObjectsStable DEF Inv

(* Session::execute returns the first page. *)
LEMMA ExecuteOKInv ==
  ASSUME Inv, NEW r \in RowsObj, ExecuteOK(r)
  PROVE  Inv'
<1> DEFINE q == call.q
<1>1. /\ Private(q) /\ Statement \in Unused(heap) /\ reqs[q].page = 0 + 1
      /\ heap.ptr[DefaultSession] = Session
      /\ rows[r].st = "absent" /\ reqs[q].st = "ok"
      /\ frees' = FutureFree(q) /\ rows' = [rows EXCEPT ![r] = NewRows(q, 0)]
      /\ call' = NoCall
      /\ UNCHANGED <<position, reqs, futs>>
      /\ Heap(heap)
  BY DEF ExecuteOK, Decoded, Inv, CallOK, ReqOK, Heap, TypeInv, RefCountExact
<1>2. heap' = IF More(reqs[q].page)
                THEN AddRef(NewPeref(NewPeref(heap, <<r, "statement">>, Statement),
                                     <<r, "result">>, q),
                            <<r, "session">>, Session)
                ELSE [heap EXCEPT !.status[Statement] = "freed"]
  BY DEF ExecuteOK
<1>3. ReqsKept /\ CallOK' /\ q \in Req /\ q # NULL
  BY <1>1, NoCallOK, Constants DEF ReqsKept, Private
<1> HIDE DEF q
<1>4. /\ \A n \in RowsField : heap.ptr[<<r, n>>] = NULL
      /\ heap.ptr[<<r, "statement">>] = NULL /\ heap.ptr[<<r, "session">>] = NULL
      /\ heap.ptr[<<r, "result">>] = NULL /\ heap.ptr[<<r, "next_result">>] = NULL
      /\ <<r, "statement">> \in Slot /\ <<r, "session">> \in Slot /\ <<r, "result">> \in Slot
      /\ <<r, "next_result">> \in Slot
      /\ DefaultSession \in Slot /\ <<r, "session">> # DefaultSession
      /\ <<r, "statement">> # DefaultSession /\ <<r, "result">> # DefaultSession
      /\ Session # NULL
  BY <1>1, Constants DEF Inv, RowsOK, Field, RowsField
<1>5. /\ Heap(heap')
      /\ Shares(heap'.ptr, r, q)
      /\ \A s \in Slot : (\A n \in RowsField : s # <<r, n>>) => heap'.ptr[s] = heap.ptr[s]
      /\ \A p \in Req : p # q /\ p \in Unused(heap) => p \in Unused(heap')
  <2>1. CASE ~More(reqs[q].page)
    <3>1. heap' = [heap EXCEPT !.status[Statement] = "freed"]
      BY <1>2, <2>1
    <3>2. Heap(heap') /\ heap'.ptr = heap.ptr /\ Unused(heap') = Unused(heap) \ {Statement}
      BY <1>1, <3>1, FreeStatementFacts
    <3>. QED  BY <1>4, <2>1, <3>2, DistinctData DEF Shares
  <2>2. CASE More(reqs[q].page)
    <3> DEFINE a == <<r, "statement">>
               b == <<r, "result">>
               c == <<r, "session">>
               h1 == NewPeref(heap, a, Statement)
               h2 == NewPeref(h1, b, q)
               h3 == AddRef(h2, c, Session)
    <3>1. heap' = h3
      BY <1>2, <2>2
    <3>2. /\ a \in Slot /\ b \in Slot /\ c \in Slot /\ DefaultSession \in Slot
          /\ a # b /\ a # c /\ b # c
          /\ a # DefaultSession /\ b # DefaultSession /\ c # DefaultSession
          /\ heap.ptr[a] = NULL /\ heap.ptr[b] = NULL /\ heap.ptr[c] = NULL
      BY <1>4
    <3> HIDE DEF a, b, c
    <3>3. Heap(h1) /\ h1.ptr = [heap.ptr EXCEPT ![a] = Statement]
          /\ Unused(h1) = Unused(heap) \ {Statement}
      BY <1>1, <3>2, NewFacts
    <3> HIDE DEF h1
    <3>4. \A s \in Slot : h1.ptr[s] = IF s = a THEN Statement ELSE heap.ptr[s]
      BY <1>1, <3>3 DEF Heap, HeapType
    <3>5. q \in Unused(h1)
      BY <1>1, <1>3, <3>3, DistinctData DEF Private
    <3>6. Heap(h1) /\ b \in Slot /\ h1.ptr[b] = NULL
      BY <3>2, <3>3, <3>4
    <3>7. Heap(h2) /\ h2.ptr = [h1.ptr EXCEPT ![b] = q] /\ Unused(h2) = Unused(h1) \ {q}
      BY <3>5, <3>6, NewFacts
    <3> HIDE DEF h2
    <3>8. \A s \in Slot : h2.ptr[s] = IF s = b THEN q ELSE h1.ptr[s]
      BY <3>3, <3>7 DEF Heap, HeapType
    <3>9. h2.ptr[DefaultSession] = Session /\ h2.ptr[c] = NULL
      BY <1>1, <3>2, <3>4, <3>8
    <3>10. /\ Heap(h2) /\ c \in Slot /\ DefaultSession \in Slot
           /\ h2.ptr[c] = NULL /\ h2.ptr[DefaultSession] # NULL
           /\ h3 = AddRef(h2, c, h2.ptr[DefaultSession])
      BY <1>4, <3>2, <3>7, <3>9
    <3> HIDE DEF h3
    <3>11. Heap(h3) /\ h3.ptr = [h2.ptr EXCEPT ![c] = h2.ptr[DefaultSession]]
           /\ Unused(h3) = Unused(h2)
      BY <3>10, AddFacts
    <3>12. \A s \in Slot : h3.ptr[s] = IF s = c THEN Session ELSE h2.ptr[s]
      BY <3>7, <3>9, <3>11 DEF Heap, HeapType
    <3>13. /\ h3.ptr[a] = Statement /\ h3.ptr[b] = q /\ h3.ptr[c] = Session
           /\ h3.ptr[<<r, "next_result">>] = NULL
      <4>1. <<r, "next_result">> # a /\ <<r, "next_result">> # b /\ <<r, "next_result">> # c
        BY DEF a, b, c
      <4>. QED  BY <1>4, <3>2, <3>4, <3>8, <3>12, <4>1
    <3>14. Shares(heap'.ptr, r, q)
      BY <2>2, <3>1, <3>13 DEF Shares, a, b, c
    <3>15. \A s \in Slot : (\A n \in RowsField : s # <<r, n>>) => heap'.ptr[s] = heap.ptr[s]
      BY <3>1, <3>4, <3>8, <3>12 DEF RowsField, a, b, c
    <3>16. \A p \in Req : p # q /\ p \in Unused(heap) => p \in Unused(heap')
      BY <3>1, <3>3, <3>7, <3>11, DistinctData
    <3>. QED  BY <3>1, <3>11, <3>14, <3>15, <3>16
  <2>. QED  BY <2>1, <2>2
<1>6. rows \in [RowsObj -> RowsType]
  BY DEF Inv, TypeInv
<1>7. RowsOK(r)' /\ NextOK(r)' /\ rows'[r] \in RowsType
  <2>1. rows'[r] = NewRows(q, 0)
    BY <1>1, <1>6
  <2>. QED  BY <1>1, <1>3, <1>5, <2>1, CreatedOK
<1>8. frees' \in [Req -> Nat] /\ \A f \in FutObj : SameFut(f)
  <2>1. \A f \in FutObj, n \in FutField : heap'.ptr[<<f, n>>] = heap.ptr[<<f, n>>]
    BY <1>5, Constants
  <2>. QED  BY <1>1, <1>5, <2>1, PrivateFreed
<1>9. \A p \in RowsObj : p # r => SameRows(p)
  <2>1. \A p \in RowsObj, n \in RowsField : p # r => heap'.ptr[<<p, n>>] = heap.ptr[<<p, n>>]
    BY <1>5, Constants
  <2>. QED  BY <1>1, <1>6, <2>1 DEF SameRows
<1>10. \A p \in RowsObj : NextKept(p)
  BY <1>1 DEF NextKept
<1>11. \A p \in RowsObj : RowsOK(p)' /\ NextOK(p)'
  BY <1>3, <1>7, <1>9, <1>10, RowsStable, NextStable
<1>12. (\A f \in FutObj : FutOK(f)') /\ FutsDistinct'
  BY <1>1, <1>3, <1>8, FutStable, DistinctStable
<1>13. TypeInv' /\ RefCountExact'
  <2>1. NoCall \in CallType
    BY DEF NoCall, CallType
  <2>2. rows' \in [RowsObj -> RowsType]
    BY <1>1, <1>6, <1>7
  <2>. QED  BY <1>1, <1>5, <1>8, <2>1, <2>2 DEF Inv, TypeInv, RefCountExact, Heap
<1>14. ReqOK'
  <2>1. heap'.ptr[DefaultSession] = heap.ptr[DefaultSession]
    BY <1>5, Constants
  <2>. QED  BY <1>1, <1>5, <2>1, ReqStable DEF Private
<1>. QED  BY <1>3, <1>11, <1>12, <1>13, <1>14 DEF Inv

(* The objects when future f gets its result and nothing else of it, or of *)
(* another future, changes.                                                *)
LEMMA FutsAfterResult ==
  ASSUME Inv, UNCHANGED <<reqs, futs>>, NEW f \in FutObj, futs[f].st # "absent",
         reqs[futs[f].future].st \in {"ok", "garbled"}, frees' = frees,
         heap'.ptr[<<f, "result">>] = futs[f].future,
         \A g \in FutObj, n \in FutField :
            <<g, n>> # <<f, "result">> => heap'.ptr[<<g, n>>] = heap.ptr[<<g, n>>],
         \A x \in Unused(heap) : x # futs[f].future => x \in Unused(heap')
  PROVE  (\A g \in FutObj : FutOK(g)') /\ FutsDistinct'
<1>1. ReqsKept
  BY DEF ReqsKept
<1>2. \A g \in FutObj : g # f => SameFut(g)
  <2>1. \A g \in FutObj, n \in FutField : g # f => heap'.ptr[<<g, n>>] = heap.ptr[<<g, n>>]
    OBVIOUS
  <2>2. \A g \in FutObj : g # f /\ futs[g].st # "absent" => futs[g].future # futs[f].future
    BY DEF Inv, FutsDistinct
  <2>. QED  BY <2>1, <2>2 DEF SameFut
<1>3. /\ heap'.ptr[<<f, "statement">>] = heap.ptr[<<f, "statement">>]
      /\ heap'.ptr[<<f, "session">>] = heap.ptr[<<f, "session">>]
  BY DEF FutField
<1>4. FutOK(f)'
  BY <1>3, FutResultOK
<1>5. FutsDistinct'
  BY DistinctStable
<1>. QED  BY <1>1, <1>2, <1>4, <1>5, FutStable

(* What a blocked FutureRows::get knows of its future. *)
LEMMA GetCallFacts ==
  ASSUME Inv, call.op = "get"
  PROVE  /\ call.f \in FutObj /\ futs[call.f].st # "absent" /\ call.q = futs[call.f].future
         /\ call.q \in Req /\ call.q # NULL /\ reqs[call.q].st # "none"
         /\ reqs[call.q].page = futs[call.f].prev + 1 /\ futs[call.f].prev \in Nat
         /\ heap.ptr[<<call.f, "statement">>] = Statement
         /\ heap.ptr[<<call.f, "session">>] = Session
<1>1. call.f \in FutObj /\ futs[call.f].st # "absent" /\ call.q = futs[call.f].future
  BY DEF Inv, CallOK
<1>2. FutOK(call.f) /\ futs[call.f].prev \in Nat
  BY <1>1 DEF Inv, TypeInv, FutType
<1>. QED  BY <1>1, <1>2, Constants DEF FutOK, Field

(* FutureRows::get returns without a page. *)
LEMMA GetFailsInv ==
  ASSUME Inv, GetFails
  PROVE  Inv'
<1> DEFINE f == call.f
           q == call.q
<1>1. /\ call.op = "get" /\ call' = NoCall /\ UNCHANGED <<position, reqs, frees, rows, futs>>
      /\ heap' = IF Resolved /\ ~Failed THEN GetResult(heap, f) ELSE heap
  BY DEF GetFails
<1>2. /\ f \in FutObj /\ futs[f].st # "absent" /\ q = futs[f].future
      /\ q \in Req /\ reqs[q].st # "none"
  BY <1>1, GetCallFacts
<1>3. ReqsKept /\ CallOK' /\ NoCall \in CallType
  BY <1>1, NoCallOK DEF ReqsKept, NoCall, CallType
<1>4. CASE Resolved /\ ~Failed
  <2>1. reqs[q].st \in {"ok", "garbled"}
    <3>1. reqs[q] \in ReqType
      BY <1>2 DEF Inv, TypeInv
    <3>. QED  BY <1>4, <3>1 DEF Resolved, Failed, ReqType
  <2>2. heap' = GetResult(heap, f)
    BY <1>1, <1>4
  <2> HIDE DEF f, q
  <2>3. /\ Heap(heap') /\ heap'.ptr[<<f, "result">>] = q
        /\ \A s \in Slot : s # <<f, "result">> => heap'.ptr[s] = heap.ptr[s]
        /\ \A x \in Unused(heap) : x # q => x \in Unused(heap')
    BY <1>2, <2>2, GetResultFacts
  <2>4. (\A g \in FutObj : FutOK(g)') /\ FutsDistinct'
    <3>1. \A g \in FutObj, n \in FutField :
            <<g, n>> # <<f, "result">> => heap'.ptr[<<g, n>>] = heap.ptr[<<g, n>>]
      BY <2>3, Constants
    <3>. QED  BY <1>1, <1>2, <2>1, <2>3, <3>1, FutsAfterResult
  <2>5. \A r \in RowsObj : SameRows(r) /\ NextKept(r)
    <3>1. \A r \in RowsObj, n \in RowsField : heap'.ptr[<<r, n>>] = heap.ptr[<<r, n>>]
      BY <1>2, <2>3, Constants
    <3>. QED  BY <1>1, <3>1 DEF SameRows, NextKept
  <2>6. \A r \in RowsObj : RowsOK(r)' /\ NextOK(r)'
    BY <1>3, <2>5, RowsStable, NextStable
  <2>7. TypeInv' /\ RefCountExact'
    BY <1>1, <1>3, <2>3 DEF Inv, TypeInv, RefCountExact, Heap
  <2>8. ReqOK'
    <3>1. heap'.ptr[DefaultSession] = heap.ptr[DefaultSession]
      BY <1>2, <2>3, Constants DEF FutField
    <3>. QED  BY <1>1, <1>2, <2>3, <3>1, ReqStable
  <2>. QED  BY <1>3, <2>4, <2>6, <2>7, <2>8 DEF Inv
<1>5. CASE ~(Resolved /\ ~Failed)
  <2>1. heap' = heap
    BY <1>1, <1>5
  <2>2. TypeInv' /\ RefCountExact' /\ ReqOK'
    BY <1>1, <1>3, <2>1 DEF Inv, TypeInv, RefCountExact, ReqOK, Unused
  <2>. QED  BY <1>1, <1>3, <2>1, <2>2, ObjectsUnchanged DEF Inv
<1>. QED  BY <1>4, <1>5

(* FutureRows::get returns a page. *)
LEMMA GetOKInv ==
  ASSUME Inv, NEW r \in RowsObj, GetOK(r)
  PROVE  Inv'
<1> DEFINE f == call.f
           q == call.q
           h == GetResult(heap, f)
<1>1. /\ call.op = "get" /\ rows[r].st = "absent" /\ reqs[q].st = "ok"
      /\ heap' = Share(h, r, f, "result")
      /\ rows' = [rows EXCEPT ![r] = NewRows(q, futs[f].prev)]
      /\ call' = NoCall /\ UNCHANGED <<position, reqs, frees, futs>>
  BY DEF GetOK, Decoded
<1>2. /\ f \in FutObj /\ futs[f].st # "absent" /\ q = futs[f].future
      /\ q \in Req /\ q # NULL /\ reqs[q].page = futs[f].prev + 1 /\ futs[f].prev \in Nat
      /\ heap.ptr[<<f, "statement">>] = Statement /\ heap.ptr[<<f, "session">>] = Session
  BY <1>1, GetCallFacts
<1>3. ReqsKept /\ CallOK' /\ NoCall \in CallType
  BY <1>1, NoCallOK DEF ReqsKept, NoCall, CallType
<1> HIDE DEF f, q
<1>4. /\ Heap(h) /\ h.ptr[<<f, "result">>] = q
      /\ \A s \in Slot : s # <<f, "result">> => h.ptr[s] = heap.ptr[s]
      /\ \A x \in Unused(heap) : x # q => x \in Unused(h)
  BY <1>2, GetResultFacts
<1> HIDE DEF h
<1>5. /\ <<f, "statement">> \in Slot /\ <<f, "session">> \in Slot /\ <<f, "result">> \in Slot
      /\ f # r /\ \A n \in RowsField : <<r, n>> \in Slot /\ <<r, n>> # <<f, "result">>
  BY <1>2, Constants DEF FutField
<1>6. /\ \A n \in RowsField : h.ptr[<<r, n>>] = NULL
      /\ h.ptr[<<f, "statement">>] = Statement /\ h.ptr[<<f, "session">>] = Session
  <2>1. \A n \in RowsField : heap.ptr[<<r, n>>] = NULL
    BY <1>1 DEF Inv, RowsOK, Field
  <2>. QED  BY <1>2, <1>4, <1>5, <2>1
<1>7. /\ Heap(heap') /\ Unused(heap') = Unused(h) /\ Shares(heap'.ptr, r, q)
      /\ \A s \in Slot : (\A n \in RowsField : s # <<r, n>>) => heap'.ptr[s] = h.ptr[s]
  BY <1>1, <1>2, <1>4, <1>5, <1>6, ShareFacts, SMTT(30)
<1>8. rows \in [RowsObj -> RowsType] /\ rows'[r] = NewRows(q, futs[f].prev)
  BY <1>1 DEF Inv, TypeInv
<1>9. RowsOK(r)' /\ NextOK(r)' /\ rows'[r] \in RowsType
  BY <1>1, <1>2, <1>7, <1>8, CreatedOK
<1>10. \A p \in RowsObj : (p # r => SameRows(p)) /\ NextKept(p)
  <2>1. \A p \in RowsObj, n \in RowsField : p # r => heap'.ptr[<<p, n>>] = heap.ptr[<<p, n>>]
    BY <1>2, <1>4, <1>7, Constants
  <2>. QED  BY <1>1, <1>8, <2>1 DEF SameRows, NextKept
<1>11. \A p \in RowsObj : RowsOK(p)' /\ NextOK(p)'
  BY <1>3, <1>9, <1>10, RowsStable, NextStable
<1>12. (\A g \in FutObj : FutOK(g)') /\ FutsDistinct'
  <2>1. \A g \in FutObj, n \in FutField : heap'.ptr[<<g, n>>] = h.ptr[<<g, n>>]
    BY <1>7, Constants
  <2>2. \A g \in FutObj, n \in FutField :
          <<g, n>> # <<f, "result">> => heap'.ptr[<<g, n>>] = heap.ptr[<<g, n>>]
    BY <1>4, <2>1, Constants
  <2>3. heap'.ptr[<<f, "result">>] = futs[f].future
    BY <1>2, <1>4, <2>1 DEF FutField
  <2>. QED  BY <1>1, <1>2, <1>4, <1>7, <2>2, <2>3, FutsAfterResult
<1>13. TypeInv' /\ RefCountExact'
  <2>1. rows' \in [RowsObj -> RowsType]
    BY <1>1, <1>8, <1>9
  <2>. QED  BY <1>1, <1>3, <1>7, <2>1 DEF Inv, TypeInv, RefCountExact, Heap
<1>14. ReqOK'
  <2>1. heap'.ptr[DefaultSession] = heap.ptr[DefaultSession]
    BY <1>2, <1>4, <1>7, Constants DEF FutField
  <2>. QED  BY <1>1, <1>2, <1>4, <1>7, <2>1, ReqStable
<1>. QED  BY <1>3, <1>11, <1>12, <1>13, <1>14 DEF Inv

(* While nextPage waits: its object, its request and whose request it is.  *)
LEMMA NextCallFacts ==
  ASSUME Inv, call.op \in {"next", "next_future"}
  PROVE  /\ call.r \in RowsObj /\ rows[call.r].st = "live" /\ Field(call.r, "result") # NULL
         /\ heap.ptr[<<call.r, "next_result">>] = NULL
         /\ heap.ptr[<<call.r, "statement">>] = Statement
         /\ heap.ptr[<<call.r, "session">>] = Session
         /\ call.q \in Req /\ call.q # NULL /\ reqs[call.q].st # "none"
         /\ reqs[call.q].page = rows[call.r].page + 1 /\ rows[call.r].page \in Nat
         /\ call.op = "next" => Private(call.q)
         /\ call.op = "next_future" => /\ call.f \in FutObj /\ futs[call.f].st # "absent"
                                       /\ call.q = futs[call.f].future
<1>1. /\ call.r \in RowsObj /\ rows[call.r].st = "live" /\ Field(call.r, "result") # NULL
      /\ heap.ptr[<<call.r, "next_result">>] = NULL
  BY DEF Inv, CallOK, Field
<1>2. RowsOK(call.r) /\ NextOK(call.r) /\ rows[call.r].page \in Nat
  BY <1>1 DEF Inv, TypeInv, RowsType
<1>3. /\ heap.ptr[<<call.r, "statement">>] = Statement
      /\ heap.ptr[<<call.r, "session">>] = Session
  BY <1>1, <1>2 DEF RowsOK, Field
<1>4. CASE call.op = "next"
  <2>1. Private(call.q) /\ reqs[call.q].page = rows[call.r].page + 1
    BY <1>4 DEF Inv, CallOK
  <2>. QED  BY <1>1, <1>2, <1>3, <1>4, <2>1, Constants DEF Private
<1>5. CASE call.op = "next_future"
  <2>1. /\ rows[call.r].future_next_page = <<"future", call.f>>
        /\ call.q = futs[call.f].future
    BY <1>5 DEF Inv, CallOK
  <2>2. call.f \in FutObj /\ futs[call.f].st = "live" /\ futs[call.f].prev = rows[call.r].page
    BY <1>2, <2>1 DEF NextOK
  <2>3. FutOK(call.f)
    BY <2>2 DEF Inv
  <2>. QED  BY <1>1, <1>2, <1>3, <1>5, <2>1, <2>2, <2>3, Constants DEF FutOK
<1>. QED  BY <1>4, <1>5

(* What the heap is once the result of the next page has been stored. *)
LEMMA NextResultFacts ==
  ASSUME Inv, call.op \in {"next", "next_future"}
  PROVE  LET h == NextResult IN
         /\ Heap(h) /\ h.ptr[<<call.r, "next_result">>] = call.q
         /\ call.op = "next_future" => h.ptr[<<call.f, "result">>] = call.q
         /\ \A s \in Slot : /\ s # <<call.r, "next_result">>
                            /\ call.op = "next_future" => s # <<call.f, "result">>
                            => h.ptr[s] = heap.ptr[s]
         /\ \A x \in Unused(heap) : x # call.q => x \in Unused(h)
<1> DEFINE r == call.r
           f == call.f
           q == call.q
           a == <<r, "next_result">>
           h == NextResult
<1>1. /\ a \in Slot /\ Heap(heap) /\ heap.ptr[a] = NULL /\ q # NULL
  BY NextCallFacts, Constants DEF Inv, TypeInv, RefCountExact, Heap, RowsField
<1>2. CASE call.op = "next"
  <2>1. h = NewPeref(heap, a, q)
    BY <1>2 DEF NextResult
  <2>2. q \in Unused(heap)
    BY <1>2, NextCallFacts DEF Private
  <2> HIDE DEF a, q, h
  <2>3. Heap(h) /\ h.ptr = [heap.ptr EXCEPT ![a] = q] /\ Unused(h) = Unused(heap) \ {q}
    BY <1>1, <2>1, <2>2, NewFacts
  <2>4. \A s \in Slot : h.ptr[s] = IF s = a THEN q ELSE heap.ptr[s]
    BY <1>1, <2>3 DEF Heap, HeapType
  <2>. QED  BY <1>1, <1>2, <2>3, <2>4 DEF a, q, h
<1>3. CASE call.op = "next_future"
  <2> DEFINE g == GetResult(heap, f)
             b == <<f, "result">>
  <2>1. f \in FutObj /\ futs[f].st # "absent" /\ q = futs[f].future /\ b \in Slot /\ a # b
    BY <1>3, NextCallFacts, Constants DEF FutField
  <2>2. /\ Heap(g) /\ g.ptr[b] = q
        /\ \A s \in Slot : s # b => g.ptr[s] = heap.ptr[s]
        /\ \A x \in Unused(heap) : x # q => x \in Unused(g)
    BY <2>1, GetResultFacts
  <2>3. h = AddRef(g, a, q)
    BY <1>3 DEF NextResult
  <2> HIDE DEF a, b, q, g, h
  <2>4. Heap(g) /\ a \in Slot /\ b \in Slot /\ g.ptr[a] = NULL /\ g.ptr[b] # NULL
        /\ h = AddRef(g, a, g.ptr[b])
    BY <1>1, <2>1, <2>2, <2>3
  <2>5. Heap(h) /\ h.ptr = [g.ptr EXCEPT ![a] = g.ptr[b]] /\ Unused(h) = Unused(g)
    BY <2>4, AddFacts
  <2>6. \A s \in Slot : h.ptr[s] = IF s = a THEN q ELSE g.ptr[s]
    BY <2>2, <2>5 DEF Heap, HeapType
  <2>. QED  BY <1>1, <1>3, <2>1, <2>2, <2>5, <2>6 DEF a, b, q, h
<1>. QED  BY <1>2, <1>3

(* The futures and the requests when nextPage has its result.              *)
LEMMA NextFuts ==
  ASSUME Inv, call.op \in {"next", "next_future"}, UNCHANGED <<position, reqs, futs>>,
         frees' = NextFrees, reqs[call.q].st \in {"ok", "garbled"},
         \A g \in FutObj, n \in FutField : heap'.ptr[<<g, n>>] = NextResult.ptr[<<g, n>>],
         heap'.ptr[DefaultSession] = heap.ptr[DefaultSession],
         \A x \in Unused(heap) : x # call.q => x \in Unused(heap')
  PROVE  /\ (\A g \in FutObj : FutOK(g)') /\ FutsDistinct'
         /\ frees' \in [Req -> Nat] /\ ReqOK'
<1>1. ReqsKept /\ reqs[call.q].st # "none" /\ call.r \in RowsObj
  BY NextCallFacts DEF ReqsKept
<1>2. \A g \in FutObj, n \in FutField :
        <<g, n>> \in Slot /\ <<g, n>> # <<call.r, "next_result">>
  BY <1>1, Constants
<1>3. CASE call.op = "next"
  <2>1. Private(call.q) /\ frees' = FutureFree(call.q)
    BY <1>3, NextCallFacts DEF NextFrees
  <2>2. \A g \in FutObj, n \in FutField : heap'.ptr[<<g, n>>] = heap.ptr[<<g, n>>]
    BY <1>2, <1>3, NextResultFacts
  <2>3. frees' \in [Req -> Nat] /\ \A f \in FutObj : SameFut(f)
    BY <2>1, <2>2, PrivateFreed
  <2>4. ReqOK'
    BY <1>1, <2>1, ReqStable DEF Private
  <2>. QED  BY <1>1, <2>3, <2>4, FutStable, DistinctStable
<1>4. CASE call.op = "next_future"
  <2>1. call.f \in FutObj /\ futs[call.f].st # "absent" /\ call.q = futs[call.f].future
    BY <1>4, NextCallFacts
  <2>2. frees' = frees
    BY <1>4 DEF NextFrees
  <2>3. heap'.ptr[<<call.f, "result">>] = call.q
    BY <1>4, <2>1, NextResultFacts DEF FutField
  <2>4. \A g \in FutObj, n \in FutField :
          <<g, n>> # <<call.f, "result">> => heap'.ptr[<<g, n>>] = heap.ptr[<<g, n>>]
    BY <1>2, <1>4, NextResultFacts
  <2>5. (\A g \in FutObj : FutOK(g)') /\ FutsDistinct'
    BY <2>1, <2>2, <2>3, <2>4, FutsAfterResult
  <2>6. ReqOK'
    BY <1>1, <2>2, ReqStable
  <2>. QED  BY <2>2, <2>5, <2>6 DEF Inv, TypeInv
<1>. QED  BY <1>3, <1>4

(* Rows::nextPage returns without a page. *)
LEMMA NextPageFailsInv ==
  ASSUME Inv, NextPageFails
  PROVE  Inv'
<1> DEFINE q == call.q
<1>1. /\ call.op \in {"next", "next_future"} /\ call' = NoCall
      /\ UNCHANGED <<position, reqs, rows, futs>>
  BY DEF NextPageFails
<1>2. ReqsKept /\ CallOK' /\ NoCall \in CallType
  BY <1>1, NoCallOK DEF ReqsKept, NoCall, CallType
<1>3. CASE UNCHANGED <<heap, frees>>
  <2>1. TypeInv' /\ RefCountExact' /\ ReqOK'
    BY <1>1, <1>2, <1>3 DEF Inv, TypeInv, RefCountExact, ReqOK, Unused
  <2>. QED  BY <1>1, <1>2, <1>3, <2>1, ObjectsUnchanged DEF Inv
<1>4. CASE Resolved /\ ~Failed /\ heap' = NextResult /\ frees' = NextFrees
  <2> PICK r \in RowsObj : r = call.r
    BY <1>1, NextCallFacts
  <2>1. /\ rows[r].st = "live" /\ Field(r, "result") # NULL
        /\ q \in Req /\ reqs[q].page = rows[r].page + 1
        /\ call.op = "next_future" => call.f \in FutObj
    BY <1>1, NextCallFacts
  <2>2. reqs[q].st \in {"ok", "garbled"}
    <3>1. reqs[q] \in ReqType
      BY <2>1 DEF Inv, TypeInv
    <3>. QED  BY <1>4, <3>1 DEF Resolved, Failed, ReqType
  <2>3. /\ Heap(heap') /\ heap'.ptr[<<r, "next_result">>] = q
        /\ \A s \in Slot : /\ s # <<r, "next_result">>
                           /\ call.op = "next_future" => s # <<call.f, "result">>
                           => heap'.ptr[s] = heap.ptr[s]
        /\ \A x \in Unused(heap) : x # q => x \in Unused(heap')
    BY <1>1, <1>4, NextResultFacts
  <2>4. /\ heap'.ptr[DefaultSession] = heap.ptr[DefaultSession]
        /\ \A p \in RowsObj, n \in RowsField :
             <<p, n>> # <<r, "next_result">> => heap'.ptr[<<p, n>>] = heap.ptr[<<p, n>>]
    BY <2>1, <2>3, Constants DEF FutField, RowsField
  <2>5. /\ (\A g \in FutObj : FutOK(g)') /\ FutsDistinct'
        /\ frees' \in [Req -> Nat] /\ ReqOK'
    BY <1>1, <1>4, <2>2, <2>3, <2>4, NextFuts
  <2> HIDE DEF q
  <2>6. \A p \in RowsObj : (p # r => SameRows(p)) /\ NextKept(p)
    BY <1>1, <2>4 DEF SameRows, NextKept
  <2>7. RowsOK(r)' /\ NextOK(r)'
    <3>1. \A n \in RowsField : n # "next_result" => heap'.ptr[<<r, n>>] = heap.ptr[<<r, n>>]
      BY <2>4
    <3>2. rows'[r] = rows[r] /\ rows[r].st # "absent" /\ NextKept(r)
      BY <1>1, <2>1, <2>6
    <3>. QED  BY <1>1, <2>1, <2>2, <2>3, <3>1, <3>2, NextResultOK
  <2>8. \A p \in RowsObj : RowsOK(p)' /\ NextOK(p)'
    BY <1>2, <2>6, <2>7, RowsStable, NextStable
  <2>9. TypeInv' /\ RefCountExact'
    BY <1>1, <1>2, <2>3, <2>5 DEF Inv, TypeInv, RefCountExact, Heap
  <2>. QED  BY <1>2, <2>5, <2>8, <2>9 DEF Inv
<1>. QED  BY <1>3, <1>4 DEF NextPageFails

(* rows_create, when the next result of r is in heap h.                    *)
LEMMA CreateFacts ==
  ASSUME Inv, NEW h, Heap(h), NEW r \in RowsObj, NEW r2 \in RowsObj,
         rows[r].st # "absent", rows[r2].st = "absent",
         NEW q \in Req, q = h.ptr[<<r, "next_result">>],
         \A n \in RowsField : h.ptr[<<r2, n>>] = NULL,
         h.ptr[<<r, "statement">>] = Statement, h.ptr[<<r, "session">>] = Session,
         reqs' = reqs, reqs[q].st = "ok", reqs[q].page = rows[r].page + 1,
         heap' = Share(h, r2, r, "next_result"), rows'[r2] = NewRows(q, rows[r].page)
  PROVE  /\ Heap(heap') /\ Unused(heap') = Unused(h)
         /\ \A s \in Slot : (\A n \in RowsField : s # <<r2, n>>) => heap'.ptr[s] = h.ptr[s]
         /\ RowsOK(r2)' /\ NextOK(r2)' /\ rows'[r2] \in RowsType /\ r # r2
<1>1. /\ r # r2 /\ q # NULL /\ rows[r].page \in Nat
      /\ <<r, "statement">> \in Slot /\ <<r, "session">> \in Slot
      /\ <<r, "next_result">> \in Slot
  BY Constants DEF RowsField, Inv, TypeInv, RowsType
<1>2. /\ Heap(heap') /\ Unused(heap') = Unused(h) /\ Shares(heap'.ptr, r2, q)
      /\ \A s \in Slot : (\A n \in RowsField : s # <<r2, n>>) => heap'.ptr[s] = h.ptr[s]
  BY <1>1, ShareFacts
<1>3. RowsOK(r2)' /\ NextOK(r2)' /\ rows'[r2] \in RowsType
  BY <1>1, <1>2, CreatedOK
<1>. QED  BY <1>1, <1>2, <1>3

(* Rows::nextPage returns the next page. *)
LEMMA NextPageOKInv ==
  ASSUME Inv, NEW r2 \in RowsObj, NextPageOK(r2)
  PROVE  Inv'
<1> DEFINE h == NextResult
<1>1. /\ call.op \in {"next", "next_future"} /\ call' = NoCall
      /\ frees' = NextFrees /\ UNCHANGED <<position, reqs, futs>>
      /\ rows[r2].st = "absent"
  BY DEF NextPageOK, RowsCreate
<1>2. ReqsKept /\ CallOK' /\ NoCall \in CallType
  BY <1>1, NoCallOK DEF ReqsKept, NoCall, CallType
<1>3. PICK r \in RowsObj : r = call.r
  BY <1>1, NextCallFacts
<1>4. PICK q \in Req : q = call.q
  BY <1>1, NextCallFacts
<1>5. /\ rows[r].st = "live" /\ Field(r, "result") # NULL
      /\ heap.ptr[<<r, "statement">>] = Statement /\ heap.ptr[<<r, "session">>] = Session
      /\ reqs[q].page = rows[r].page + 1
      /\ call.op = "next_future" => call.f \in FutObj
  BY <1>1, <1>3, <1>4, NextCallFacts
<1>6. /\ Heap(h) /\ h.ptr[<<r, "next_result">>] = q
      /\ \A s \in Slot : /\ s # <<r, "next_result">>
                         /\ call.op = "next_future" => s # <<call.f, "result">>
                         => h.ptr[s] = heap.ptr[s]
      /\ \A x \in Unused(heap) : x # q => x \in Unused(h)
  BY <1>1, <1>3, <1>4, NextResultFacts
<1>7. /\ reqs[q].st = "ok" /\ heap' = Share(h, r2, r, "next_result")
      /\ rows' = [rows EXCEPT ![r2] = NewRows(q, rows[r].page)]
  BY <1>3, <1>6 DEF NextPageOK, RowsCreate, Decoded
<1> HIDE DEF h
<1>8. /\ h.ptr[DefaultSession] = heap.ptr[DefaultSession]
      /\ \A p \in RowsObj, n \in RowsField :
           <<p, n>> # <<r, "next_result">> => h.ptr[<<p, n>>] = heap.ptr[<<p, n>>]
  BY <1>5, <1>6, Constants DEF FutField, RowsField
<1>9. rows \in [RowsObj -> RowsType] /\ rows'[r2] = NewRows(q, rows[r].page)
  BY <1>7 DEF Inv, TypeInv
<1>10. /\ \A n \in RowsField : h.ptr[<<r2, n>>] = NULL
       /\ h.ptr[<<r, "statement">>] = Statement /\ h.ptr[<<r, "session">>] = Session
       /\ rows[r].st # "absent"
  <2>1. \A n \in RowsField : heap.ptr[<<r2, n>>] = NULL
    BY <1>1 DEF Inv, RowsOK, Field
  <2>2. r # r2
    BY <1>1, <1>5
  <2>. QED  BY <1>5, <1>8, <2>1, <2>2 DEF RowsField
<1>11. /\ Heap(heap') /\ Unused(heap') = Unused(h)
       /\ \A s \in Slot : (\A n \in RowsField : s # <<r2, n>>) => heap'.ptr[s] = h.ptr[s]
       /\ RowsOK(r2)' /\ NextOK(r2)' /\ rows'[r2] \in RowsType /\ r # r2
  BY <1>1, <1>5, <1>6, <1>7, <1>9, <1>10, CreateFacts
<1>12. /\ heap'.ptr[DefaultSession] = heap.ptr[DefaultSession]
       /\ \A g \in FutObj, n \in FutField : heap'.ptr[<<g, n>>] = h.ptr[<<g, n>>]
       /\ \A p \in RowsObj, n \in RowsField : p # r2 => heap'.ptr[<<p, n>>] = h.ptr[<<p, n>>]
  BY <1>8, <1>11, Constants
<1>13. /\ (\A g \in FutObj : FutOK(g)') /\ FutsDistinct'
       /\ frees' \in [Req -> Nat] /\ ReqOK'
  <2>1. \A x \in Unused(heap) : x # call.q => x \in Unused(heap')
    BY <1>4, <1>6, <1>11
  <2>2. reqs[call.q].st \in {"ok", "garbled"}
    BY <1>4, <1>7
  <2>. QED  BY <1>1, <1>12, <2>1, <2>2, NextFuts DEF h
<1>14. \A p \in RowsObj : (p # r /\ p # r2 => SameRows(p)) /\ NextKept(p)
  <2>1. \A p \in RowsObj, n \in RowsField :
          p # r /\ p # r2 => heap'.ptr[<<p, n>>] = heap.ptr[<<p, n>>]
    BY <1>8, <1>12
  <2>. QED  BY <1>1, <1>7, <1>9, <2>1 DEF SameRows, NextKept
<1>15. RowsOK(r)' /\ NextOK(r)'
  <2>1. \A n \in RowsField : n # "next_result" => heap'.ptr[<<r, n>>] = heap.ptr[<<r, n>>]
    BY <1>8, <1>11, <1>12
  <2>2. /\ rows'[r] = rows[r] /\ rows[r].st # "absent" /\ NextKept(r)
        /\ heap'.ptr[<<r, "next_result">>] = q
    BY <1>5, <1>6, <1>7, <1>9, <1>11, <1>12, <1>14 DEF RowsField
  <2>. QED  BY <1>1, <1>5, <1>7, <2>1, <2>2, NextResultOK
<1>16. \A p \in RowsObj : RowsOK(p)' /\ NextOK(p)'
  BY <1>2, <1>11, <1>14, <1>15, RowsStable, NextStable
<1>17. TypeInv' /\ RefCountExact'
  <2>1. rows' \in [RowsObj -> RowsType]
    BY <1>7, <1>9, <1>11
  <2>. QED  BY <1>1, <1>2, <1>11, <1>13, <2>1 DEF Inv, TypeInv, RefCountExact, Heap
<1>. QED  BY <1>2, <1>13, <1>16, <1>17 DEF Inv

(* nextPage and nextPageAsync when the next result is there already.       *)
LEMMA KnownFacts ==
  ASSUME Inv, NEW r \in RowsObj, rows[r].st = "live",
         Field(r, "next_result") # NULL
  PROVE  /\ Heap(heap) /\ heap.ptr[<<r, "next_result">>] \in Req
         /\ heap.ptr[<<r, "statement">>] = Statement /\ heap.ptr[<<r, "session">>] = Session
         /\ reqs[heap.ptr[<<r, "next_result">>]].page = rows[r].page + 1
         /\ \A p \in RowsObj : rows[p].st = "absent" =>
              \A n \in RowsField : heap.ptr[<<p, n>>] = NULL
<1>1. RowsOK(r)
  BY DEF Inv
<1>2. \A p \in RowsObj : rows[p].st = "absent" => \A n \in RowsField : heap.ptr[<<p, n>>] = NULL
  BY DEF Inv, RowsOK, Field
<1>. QED  BY <1>1, <1>2 DEF RowsOK, Field, Inv, TypeInv, RefCountExact, Heap

(* Rows::nextPage on a page whose next result is known. *)
LEMMA NextPageKnownInv ==
  ASSUME Inv, NEW r \in RowsObj, NEW r2 \in RowsObj, NextPageKnown(r, r2)
  PROVE  Inv'
<1>1. /\ call = NoCall /\ rows[r].st = "live" /\ Field(r, "next_result") # NULL
      /\ rows[r2].st = "absent" /\ UNCHANGED <<position, reqs, frees, futs, call>>
  BY DEF NextPageKnown, Usable, Idle, RowsCreate
<1>2. ReqsKept /\ CallOK'
  BY <1>1, NoCallOK DEF ReqsKept
<1>3. PICK q \in Req : q = heap.ptr[<<r, "next_result">>]
  BY <1>1, KnownFacts
<1>4. /\ reqs[q].st = "ok" /\ heap' = Share(heap, r2, r, "next_result")
      /\ rows' = [rows EXCEPT ![r2] = NewRows(q, rows[r].page)]
  BY <1>3 DEF NextPageKnown, RowsCreate, Decoded
<1>5. rows \in [RowsObj -> RowsType] /\ rows'[r2] = NewRows(q, rows[r].page)
  BY <1>4 DEF Inv, TypeInv
<1>6. /\ Heap(heap') /\ Unused(heap') = Unused(heap)
      /\ \A s \in Slot : (\A n \in RowsField : s # <<r2, n>>) => heap'.ptr[s] = heap.ptr[s]
      /\ RowsOK(r2)' /\ NextOK(r2)' /\ rows'[r2] \in RowsType /\ r # r2
  <2>1. /\ Heap(heap) /\ q = heap.ptr[<<r, "next_result">>]
        /\ heap.ptr[<<r, "statement">>] = Statement /\ heap.ptr[<<r, "session">>] = Session
        /\ reqs[q].page = rows[r].page + 1 /\ rows[r].st # "absent"
        /\ \A n \in RowsField : heap.ptr[<<r2, n>>] = NULL
    BY <1>1, <1>3, KnownFacts
  <2>. QED  BY <1>1, <1>4, <1>5, <2>1, CreateFacts
<1>7. /\ heap'.ptr[DefaultSession] = heap.ptr[DefaultSession]
      /\ \A g \in FutObj, n \in FutField : heap'.ptr[<<g, n>>] = heap.ptr[<<g, n>>]
      /\ \A p \in RowsObj, n \in RowsField : p # r2 => heap'.ptr[<<p, n>>] = heap.ptr[<<p, n>>]
  BY <1>6, Constants
<1>8. \A p \in RowsObj : (p # r2 => SameRows(p)) /\ NextKept(p)
  BY <1>1, <1>4, <1>5, <1>7 DEF SameRows, NextKept
<1>9. \A f \in FutObj : SameFut(f)
  BY <1>1, <1>6, <1>7 DEF SameFut
<1>10. \A p \in RowsObj : RowsOK(p)' /\ NextOK(p)'
  BY <1>2, <1>6, <1>8, RowsStable, NextStable
<1>11. (\A f \in FutObj : FutOK(f)') /\ FutsDistinct'
  BY <1>1, <1>2, <1>9, FutStable, DistinctStable
<1>12. TypeInv' /\ RefCountExact'
  <2>1. rows' \in [RowsObj -> RowsType]
    BY <1>4, <1>5, <1>6
  <2>. QED  BY <1>1, <1>6, <2>1 DEF Inv, TypeInv, RefCountExact, Heap
<1>13. ReqOK'
  BY <1>1, <1>6, <1>7 DEF Inv, ReqOK
<1>. QED  BY <1>2, <1>10, <1>11, <1>12, <1>13 DEF Inv

(* future_next_page is set on an object that is in use.                    *)
LEMMA NextSet ==
  ASSUME Inv, ReqsKept, NEW r \in RowsObj, rows[r].st = "live",
         NEW v \in {"none", "value", "future"} \X (RowsObj \cup FutObj \cup {NULL}),
         rows'[r] = [rows[r] EXCEPT !.future_next_page = v],
         \A n \in RowsField : heap'.ptr[<<r, n>>] = heap.ptr[<<r, n>>]
  PROVE  /\ RowsOK(r)' /\ rows'[r] \in RowsType
         /\ rows'[r].page = rows[r].page /\ rows'[r].future_next_page = v
         /\ Field(r, "result")' = Field(r, "result")
         /\ Field(r, "next_result")' = Field(r, "next_result")
<1>1. RowsOK(r) /\ rows[r] \in RowsType /\ NULL \notin Req
  BY Constants DEF Inv, TypeInv
<1>2. /\ rows'[r] \in RowsType /\ rows'[r].st = "live" /\ rows'[r].page = rows[r].page
      /\ rows'[r].prev = rows[r].prev /\ rows'[r].future_next_page = v
  BY <1>1 DEF RowsType
<1>3. /\ Field(r, "result")' = Field(r, "result")
      /\ Field(r, "next_result")' = Field(r, "next_result")
      /\ Field(r, "statement")' = Field(r, "statement")
      /\ Field(r, "session")' = Field(r, "session")
  BY DEF Field, RowsField
<1>4. (Field(r, "result") # NULL =>
        /\ reqs[Field(r, "result")].st = "ok"
        /\ reqs[Field(r, "result")].page = rows[r].page)'
  BY <1>1, <1>2, <1>3 DEF RowsOK, ReqsKept
<1>5. (Field(r, "next_result") # NULL =>
        /\ reqs[Field(r, "next_result")].st \in {"ok", "garbled"}
        /\ reqs[Field(r, "next_result")].page = rows[r].page + 1)'
  BY <1>1, <1>2, <1>3 DEF RowsOK, ReqsKept
<1>6. RowsOK(r)'
  BY <1>1, <1>2, <1>3, <1>4, <1>5 DEF RowsOK, More
<1>. QED  BY <1>2, <1>3, <1>6

(* Rows::nextPageAsync on a page whose next result is known. *)
LEMMA NextPageAsyncKnownInv ==
  ASSUME Inv, NEW r \in RowsObj, NEW r2 \in RowsObj, NextPageAsyncKnown(r, r2)
  PROVE  Inv'
<1>1. /\ call = NoCall /\ rows[r].st = "live" /\ Field(r, "next_result") # NULL
      /\ UNCHANGED <<position, reqs, frees, futs, call>>
  BY DEF NextPageAsyncKnown, Usable, Idle
<1>2. ReqsKept /\ CallOK'
  BY <1>1, NoCallOK DEF ReqsKept
<1>3. PICK q \in Req : q = heap.ptr[<<r, "next_result">>]
  BY <1>1, KnownFacts
<1>4. rows \in [RowsObj -> RowsType] /\ \A p \in RowsObj : NextKept(p)
  BY <1>1 DEF Inv, TypeInv, NextKept
<1>5. CASE /\ rows[r2].st = "absent" /\ reqs[q].st = "ok"
           /\ heap' = Share(heap, r2, r, "next_result")
           /\ rows' = [rows EXCEPT ![r].future_next_page = <<"value", r2>>,
                                   ![r2] = NewRows(q, rows[r].page)]
  <2>1. /\ r # r2 /\ rows'[r2] = NewRows(q, rows[r].page)
        /\ rows'[r] = [rows[r] EXCEPT !.future_next_page = <<"value", r2>>]
        /\ \A p \in RowsObj : p # r /\ p # r2 => rows'[p] = rows[p]
        /\ DOMAIN rows' = RowsObj
    BY <1>1, <1>4, <1>5
  <2>2. /\ Heap(heap') /\ Unused(heap') = Unused(heap)
        /\ \A s \in Slot : (\A n \in RowsField : s # <<r2, n>>) => heap'.ptr[s] = heap.ptr[s]
        /\ RowsOK(r2)' /\ NextOK(r2)' /\ rows'[r2] \in RowsType
    <3>1. /\ Heap(heap) /\ q = heap.ptr[<<r, "next_result">>]
          /\ heap.ptr[<<r, "statement">>] = Statement /\ heap.ptr[<<r, "session">>] = Session
          /\ reqs[q].page = rows[r].page + 1 /\ rows[r].st # "absent"
          /\ \A n \in RowsField : heap.ptr[<<r2, n>>] = NULL
      BY <1>1, <1>3, <1>5, KnownFacts
    <3>. QED  BY <1>1, <1>5, <2>1, <3>1, CreateFacts
  <2>3. /\ heap'.ptr[DefaultSession] = heap.ptr[DefaultSession]
        /\ \A g \in FutObj, n \in FutField : heap'.ptr[<<g, n>>] = heap.ptr[<<g, n>>]
        /\ \A p \in RowsObj, n \in RowsField :
             p # r2 => heap'.ptr[<<p, n>>] = heap.ptr[<<p, n>>]
    BY <2>2, Constants
  <2>4. RowsOK(r)' /\ NextOK(r)' /\ rows'[r] \in RowsType
    <3>1. <<"value", r2>> \in {"none", "value", "future"} \X (RowsObj \cup FutObj \cup {NULL})
      OBVIOUS
    <3>2. /\ RowsOK(r)' /\ rows'[r] \in RowsType
          /\ rows'[r].future_next_page = <<"value", r2>>
          /\ Field(r, "next_result")' = Field(r, "next_result")
      BY <1>1, <1>2, <2>1, <2>3, <3>1, NextSet
    <3>. QED  BY <1>1, <3>2 DEF NextOK
  <2>5. \A p \in RowsObj : p # r /\ p # r2 => SameRows(p)
    BY <2>1, <2>3 DEF SameRows
  <2>6. \A f \in FutObj : SameFut(f)
    BY <1>1, <2>2, <2>3 DEF SameFut
  <2>7. \A p \in RowsObj : RowsOK(p)' /\ NextOK(p)'
    BY <1>2, <1>4, <2>2, <2>4, <2>5, RowsStable, NextStable
  <2>8. (\A f \in FutObj : FutOK(f)') /\ FutsDistinct'
    BY <1>1, <1>2, <2>6, FutStable, DistinctStable
  <2>9. TypeInv' /\ RefCountExact'
    <3>1. rows' \in [RowsObj -> RowsType]
      BY <1>4, <1>5, <2>1, <2>2, <2>4
    <3>. QED  BY <1>1, <2>2, <3>1 DEF Inv, TypeInv, RefCountExact, Heap
  <2>10. ReqOK'
    BY <1>1, <2>2, <2>3 DEF Inv, ReqOK
  <2>. QED  BY <1>2, <2>7, <2>8, <2>9, <2>10 DEF Inv
<1>6. CASE /\ rows' = [rows EXCEPT ![r].future_next_page = <<"value", NULL>>]
           /\ heap' = heap
  <2>1. /\ rows'[r] = [rows[r] EXCEPT !.future_next_page = <<"value", NULL>>]
        /\ \A p \in RowsObj : p # r => rows'[p] = rows[p]
    BY <1>4, <1>6
  <2>2. RowsOK(r)' /\ NextOK(r)' /\ rows'[r] \in RowsType
    <3>1. <<"value", NULL>> \in {"none", "value", "future"} \X (RowsObj \cup FutObj \cup {NULL})
      OBVIOUS
    <3>2. /\ RowsOK(r)' /\ rows'[r] \in RowsType
          /\ rows'[r].future_next_page = <<"value", NULL>>
          /\ Field(r, "next_result")' = Field(r, "next_result")
      BY <1>1, <1>2, <1>6, <2>1, <3>1, NextSet
    <3>. QED  BY <1>1, <3>2 DEF NextOK
  <2>3. \A p \in RowsObj : p # r => SameRows(p)
    BY <1>6, <2>1 DEF SameRows
  <2>4. \A f \in FutObj : SameFut(f)
    BY <1>1, <1>6 DEF SameFut, Unused
  <2>5. \A p \in RowsObj : RowsOK(p)' /\ NextOK(p)'
    BY <1>2, <1>4, <2>2, <2>3, RowsStable, NextStable
  <2>6. (\A f \in FutObj : FutOK(f)') /\ FutsDistinct'
    BY <1>1, <1>2, <2>4, FutStable, DistinctStable
  <2>7. TypeInv' /\ RefCountExact' /\ ReqOK'
    <3>1. rows' \in [RowsObj -> RowsType]
      BY <1>4, <1>6, <2>1, <2>2
    <3>. QED  BY <1>1, <1>6, <3>1 DEF Inv, TypeInv, RefCountExact, ReqOK, Unused
  <2>. QED  BY <1>2, <2>5, <2>6, <2>7 DEF Inv
<1>. QED  BY <1>3, <1>5, <1>6 DEF NextPageAsyncKnown, Decoded, Field

(* A FutureRows object f is given the new request q.                       *)
LEMMA NewFutOK ==
  ASSUME Inv, NEW f \in FutObj, NEW q \in Req, NEW prev \in Nat, futs[f].st = "absent",
         futs' = [futs EXCEPT ![f] = [st |-> "live", user |-> TRUE, future |-> q,
                                      prev |-> prev]],
         reqs'[q].st = "pending", reqs'[q].page = prev + 1, frees' = frees,
         frees[q] = 0, q \in Unused(heap'),
         \A g \in FutObj : futs[g].st # "absent" => futs[g].future # q,
         heap'.ptr[<<f, "statement">>] = Statement, heap'.ptr[<<f, "session">>] = Session,
         heap'.ptr[<<f, "result">>] = NULL,
         \A g \in FutObj, n \in FutField : g # f => heap'.ptr[<<g, n>>] = heap.ptr[<<g, n>>],
         \A x \in Req : x \in Unused(heap) => x \in Unused(heap'), ReqsKept
  PROVE  /\ (\A g \in FutObj : FutOK(g)') /\ FutsDistinct' /\ futs' \in [FutObj -> FutType]
         /\ futs'[f].st = "live" /\ futs'[f].prev = prev
         /\ \A p \in RowsObj : NextKept(p)
<1>1. futs \in [FutObj -> FutType]
  BY DEF Inv, TypeInv
<1>2. /\ futs'[f].st = "live" /\ futs'[f].future = q /\ futs'[f].prev = prev
      /\ \A g \in FutObj : g # f => futs'[g] = futs[g]
      /\ futs' \in [FutObj -> FutType]
  <2>1. [st |-> "live", user |-> TRUE, future |-> q, prev |-> prev] \in FutType
    BY DEF FutType, State
  <2>. QED  BY <1>1, <2>1
<1>3. \A g \in FutObj : g # f => SameFut(g)
  <2>1. \A g \in FutObj : futs[g].st # "absent" => futs[g].future \in Req
    BY DEF Inv, FutOK
  <2>. QED  BY <1>2, <2>1 DEF SameFut
<1>4. FutOK(f)'
  <2>1. /\ Field(f, "statement")' = Statement /\ Field(f, "session")' = Session
        /\ Field(f, "result")' = NULL
    BY DEF Field
  <2>. QED  BY <1>2, <2>1, Constants DEF FutOK
<1>5. FutsDistinct'
  BY <1>2 DEF Inv, FutsDistinct
<1>6. \A p \in RowsObj : NextKept(p)
  BY <1>2 DEF NextKept, Inv, NextOK
<1>. QED  BY <1>2, <1>3, <1>4, <1>5, <1>6, FutStable

(* Session::executeAsync. *)
LEMMA ExecuteAsyncInv ==
  ASSUME Inv, NEW f \in FutObj, NEW q \in Req, ExecuteAsync(f, q)
  PROVE  Inv'
<1> DEFINE a == <<f, "statement">>
           b == <<f, "session">>
           c == <<f, "result">>
           h1 == NewPeref(heap, a, Statement)
           h2 == AddRef(h1, b, Session)
<1>1. /\ call = NoCall /\ heap.ptr[DefaultSession] = Session
      /\ Statement \in Unused(heap) /\ futs[f].st = "absent"
      /\ q = 1 /\ Submit(q, position) /\ position \in Nat
      /\ heap' = h2
      /\ futs' = [futs EXCEPT ![f] = [st |-> "live", user |-> TRUE, future |-> q, prev |-> 0]]
      /\ UNCHANGED <<position, frees, rows, call>>
      /\ Heap(heap)
  BY Constants DEF ExecuteAsync, Idle, Inv, ReqOK, TypeInv, RefCountExact, Heap, Unused
<1>2. /\ ReqsKept /\ reqs' \in [Req -> ReqType]
      /\ reqs'[q].st = "pending" /\ reqs'[q].page = 0 + 1
      /\ \A p \in Req : reqs'[p].st = "none" => reqs[p].st = "none"
      /\ 1 \in Req => reqs'[1].st # "none"
      /\ q \in Unused(heap) /\ frees[q] = 0
      /\ \A g \in FutObj : futs[g].st # "absent" => futs[g].future # q
  BY <1>1, SubmitFacts
<1>3. /\ a \in Slot /\ b \in Slot /\ c \in Slot /\ DefaultSession \in Slot
      /\ a # b /\ a # c /\ b # c
      /\ a # DefaultSession /\ b # DefaultSession /\ c # DefaultSession
      /\ heap.ptr[a] = NULL /\ heap.ptr[b] = NULL /\ heap.ptr[c] = NULL
      /\ Session # NULL
      /\ \A s \in {a, b, c}, g \in FutObj, n \in FutField : g # f => <<g, n>> # s
      /\ \A s \in {a, b, c}, p \in RowsObj, n \in RowsField : <<p, n>> # s
  BY <1>1, Constants DEF FutField, Inv, FutOK, Field
<1> HIDE DEF a, b, c
<1>4. Heap(h1) /\ h1.ptr = [heap.ptr EXCEPT ![a] = Statement]
      /\ Unused(h1) = Unused(heap) \ {Statement}
  BY <1>1, <1>3, NewFacts
<1> HIDE DEF h1
<1>5. \A s \in Slot : h1.ptr[s] = IF s = a THEN Statement ELSE heap.ptr[s]
  BY <1>1, <1>4 DEF Heap, HeapType
<1>6. /\ Heap(h1) /\ b \in Slot /\ DefaultSession \in Slot
      /\ h1.ptr[b] = NULL /\ h1.ptr[DefaultSession] # NULL
      /\ h2 = AddRef(h1, b, h1.ptr[DefaultSession])
      /\ h1.ptr[DefaultSession] = Session
  BY <1>1, <1>3, <1>4, <1>5
<1> HIDE DEF h2
<1>7. Heap(h2) /\ h2.ptr = [h1.ptr EXCEPT ![b] = h1.ptr[DefaultSession]]
      /\ Unused(h2) = Unused(h1)
  BY <1>6, AddFacts
<1>8. \A s \in Slot : h2.ptr[s] = IF s = b THEN Session ELSE h1.ptr[s]
  BY <1>6, <1>7 DEF Heap, HeapType
<1>9. /\ heap'.ptr[a] = Statement /\ heap'.ptr[b] = Session /\ heap'.ptr[c] = NULL
      /\ heap'.ptr[DefaultSession] = heap.ptr[DefaultSession]
      /\ \A g \in FutObj, n \in FutField : g # f => heap'.ptr[<<g, n>>] = heap.ptr[<<g, n>>]
      /\ \A p \in RowsObj, n \in RowsField : heap'.ptr[<<p, n>>] = heap.ptr[<<p, n>>]
  BY <1>1, <1>3, <1>5, <1>8, Constants
<1>10. \A x \in Req : x \in Unused(heap) => x \in Unused(heap')
  BY <1>1, <1>4, <1>7, DistinctData
<1>11. /\ (\A g \in FutObj : FutOK(g)') /\ FutsDistinct' /\ futs' \in [FutObj -> FutType]
       /\ \A p \in RowsObj : NextKept(p)
  <2>1. /\ heap'.ptr[<<f, "statement">>] = Statement /\ heap'.ptr[<<f, "session">>] = Session
        /\ heap'.ptr[<<f, "result">>] = NULL
    BY <1>9 DEF a, b, c
  <2>2. /\ q \in Unused(heap') /\ frees' = frees /\ futs[f].st = "absent" /\ 0 \in Nat
        /\ futs' = [futs EXCEPT ![f] = [st |-> "live", user |-> TRUE, future |-> q, prev |-> 0]]
    BY <1>1, <1>2, <1>10
  <2>. QED  BY <1>2, <1>9, <1>10, <2>1, <2>2, NewFutOK
<1>12. \A p \in RowsObj : SameRows(p)
  BY <1>1, <1>9 DEF SameRows
<1>13. \A p \in RowsObj : RowsOK(p)' /\ NextOK(p)'
  BY <1>2, <1>11, <1>12, RowsStable, NextStable
<1>14. TypeInv' /\ RefCountExact'
  BY <1>1, <1>2, <1>7, <1>11 DEF Inv, TypeInv, RefCountExact, Heap
<1>15. ReqOK'
  BY <1>1, <1>2, <1>9, <1>10 DEF Inv, ReqOK
<1>16. CallOK'
  BY <1>1, NoCallOK
<1>. QED  BY <1>11, <1>13, <1>14, <1>15, <1>16 DEF Inv

(* Rows::nextPageAsync makes a request and a future. *)
LEMMA NextPageAsyncInv ==
  ASSUME Inv, NEW r \in RowsObj, NEW f \in FutObj, NEW q \in Req, NextPageAsync(r, f, q)
  PROVE  Inv'
<1> DEFINE a == <<f, "statement">>
           b == <<f, "session">>
           c == <<f, "result">>
           d == <<r, "statement">>
           e == <<r, "session">>
           h1 == AddRef(heap, a, heap.ptr[d])
           h2 == AddRef(h1, b, heap.ptr[e])
<1>1. /\ call = NoCall /\ rows[r].st = "live" /\ Field(r, "result") # NULL
      /\ futs[f].st = "absent"
      /\ SetPagingState(r) /\ Submit(q, position')
      /\ heap' = h2
      /\ futs' = [futs EXCEPT ![f] = [st |-> "live", user |-> TRUE, future |-> q,
                                      prev |-> rows[r].page]]
      /\ rows' = [rows EXCEPT ![r].future_next_page = <<"future", f>>]
      /\ UNCHANGED <<frees, call>>
      /\ Heap(heap)
  BY DEF NextPageAsync, Usable, Idle, Inv, TypeInv, RefCountExact, Heap, Field
<1>2. position' = rows[r].page + 1 /\ position' \in Nat /\ rows[r].page \in Nat
      /\ rows \in [RowsObj -> RowsType]
  BY <1>1, PagingFacts DEF Inv, TypeInv, RowsType
<1>3. /\ ReqsKept /\ reqs' \in [Req -> ReqType]
      /\ reqs'[q].st = "pending" /\ reqs'[q].page = rows[r].page + 1
      /\ \A p \in Req : reqs'[p].st = "none" => reqs[p].st = "none"
      /\ 1 \in Req => reqs'[1].st # "none"
      /\ q \in Unused(heap) /\ frees[q] = 0
      /\ \A g \in FutObj : futs[g].st # "absent" => futs[g].future # q
  BY <1>1, <1>2, SubmitFacts
<1>4. /\ a \in Slot /\ b \in Slot /\ c \in Slot /\ d \in Slot /\ e \in Slot
      /\ a # b /\ a # c /\ b # c /\ a # d /\ a # e /\ b # d /\ b # e
      /\ a # DefaultSession /\ b # DefaultSession
      /\ heap.ptr[a] = NULL /\ heap.ptr[b] = NULL /\ heap.ptr[c] = NULL
      /\ Session # NULL /\ Statement # NULL
      /\ \A s \in {a, b}, g \in FutObj, n \in FutField : g # f => <<g, n>> # s
      /\ \A s \in {a, b}, p \in RowsObj, n \in RowsField : <<p, n>> # s
  <2>1. heap.ptr[a] = NULL /\ heap.ptr[b] = NULL /\ heap.ptr[c] = NULL
    BY <1>1 DEF FutField, Inv, FutOK, Field
  <2>2. /\ a \in Slot /\ b \in Slot /\ c \in Slot /\ d \in Slot /\ e \in Slot
        /\ a # DefaultSession /\ b # DefaultSession /\ Session # NULL /\ Statement # NULL
    BY Constants DEF FutField, RowsField
  <2>3. r # f /\ \A p \in RowsObj : p # f
    BY Constants
  <2>. QED  BY <2>1, <2>2, <2>3
<1>5. heap.ptr[d] = Statement /\ heap.ptr[e] = Session
  BY <1>1 DEF Inv, RowsOK, Field
<1> HIDE DEF a, b, c, d, e
<1>6. Heap(h1) /\ h1.ptr = [heap.ptr EXCEPT ![a] = heap.ptr[d]] /\ Unused(h1) = Unused(heap)
  <2>1. Heap(heap) /\ a \in Slot /\ d \in Slot /\ heap.ptr[a] = NULL /\ heap.ptr[d] # NULL
    BY <1>1, <1>4, <1>5
  <2>. QED  BY <2>1, AddFacts
<1> HIDE DEF h1
<1>7. \A s \in Slot : h1.ptr[s] = IF s = a THEN Statement ELSE heap.ptr[s]
  BY <1>1, <1>5, <1>6 DEF Heap, HeapType
<1>8. /\ Heap(h1) /\ b \in Slot /\ e \in Slot
      /\ h1.ptr[b] = NULL /\ h1.ptr[e] # NULL /\ h1.ptr[e] = Session
      /\ h2 = AddRef(h1, b, h1.ptr[e])
  BY <1>4, <1>5, <1>6, <1>7
<1> HIDE DEF h2
<1>9. Heap(h2) /\ h2.ptr = [h1.ptr EXCEPT ![b] = h1.ptr[e]] /\ Unused(h2) = Unused(h1)
  BY <1>8, AddFacts
<1>10. \A s \in Slot : h2.ptr[s] = IF s = b THEN Session ELSE h1.ptr[s]
  BY <1>8, <1>9 DEF Heap, HeapType
<1>11. /\ heap'.ptr[a] = Statement /\ heap'.ptr[b] = Session /\ heap'.ptr[c] = NULL
       /\ heap'.ptr[DefaultSession] = heap.ptr[DefaultSession]
       /\ \A g \in FutObj, n \in FutField : g # f => heap'.ptr[<<g, n>>] = heap.ptr[<<g, n>>]
       /\ \A p \in RowsObj, n \in RowsField : heap'.ptr[<<p, n>>] = heap.ptr[<<p, n>>]
  BY <1>1, <1>4, <1>7, <1>10, Constants
<1>12. Unused(heap') = Unused(heap)
  BY <1>1, <1>6, <1>9
<1>13. /\ (\A g \in FutObj : FutOK(g)') /\ FutsDistinct' /\ futs' \in [FutObj -> FutType]
       /\ futs'[f].st = "live" /\ futs'[f].prev = rows[r].page
       /\ \A p \in RowsObj : NextKept(p)
  BY <1>1, <1>2, <1>3, <1>11, <1>12, NewFutOK DEF a, b, c
<1>14. /\ rows'[r] = [rows[r] EXCEPT !.future_next_page = <<"future", f>>]
       /\ \A p \in RowsObj : p # r => rows'[p] = rows[p]
  BY <1>1, <1>2
<1>15. RowsOK(r)' /\ NextOK(r)' /\ rows'[r] \in RowsType
  <2>1. <<"future", f>> \in {"none", "value", "future"} \X (RowsObj \cup FutObj \cup {NULL})
    OBVIOUS
  <2>2. /\ RowsOK(r)' /\ rows'[r] \in RowsType
        /\ rows'[r].page = rows[r].page /\ rows'[r].future_next_page = <<"future", f>>
        /\ Field(r, "result")' = Field(r, "result")
    BY <1>1, <1>3, <1>11, <1>14, <2>1, NextSet
  <2>. QED  BY <1>1, <1>13, <2>2 DEF NextOK
<1>16. \A p \in RowsObj : p # r => SameRows(p)
  BY <1>11, <1>14 DEF SameRows
<1>17. \A p \in RowsObj : RowsOK(p)' /\ NextOK(p)'
  BY <1>3, <1>13, <1>15, <1>16, RowsStable, NextStable
<1>18. TypeInv' /\ RefCountExact'
  <2>1. rows' \in [RowsObj -> RowsType]
    BY <1>1, <1>2, <1>14, <1>15
  <2>. QED  BY <1>1, <1>2, <1>3, <1>9, <1>13, <2>1 DEF Inv, TypeInv, RefCountExact, Heap
<1>19. ReqOK'
  BY <1>1, <1>3, <1>11, <1>12 DEF Inv, ReqOK
<1>20. CallOK'
  BY <1>1, NoCallOK
<1>. QED  BY <1>13, <1>17, <1>18, <1>19, <1>20 DEF Inv

-----------------------------------------------------------------------------
(* Every step keeps the invariant. *)
LEMMA NextInv ==
  ASSUME Inv, [Next]_vars
  PROVE  Inv'
<1>1. CASE UNCHANGED vars
  <2>1. UNCHANGED <<heap, position, reqs, frees, rows, futs, call>>
    BY <1>1 DEF vars
  <2>2. TypeInv' /\ RefCountExact' /\ ReqOK' /\ ReqsKept
    BY <2>1 DEF Inv, TypeInv, RefCountExact, ReqOK, Unused, ReqsKept
  <2>3. CallOK'
    BY <2>1 DEF Inv, CallOK, Private, Unused, Field
  <2>. QED  BY <2>1, <2>2, <2>3, ObjectsUnchanged DEF Inv
<1>2. CASE \E q \in Req, timed \in BOOLEAN : Execute(q, timed)
  BY <1>2, ExecuteInv
<1>3. CASE \E q \in Req, timed \in BOOLEAN, r \in RowsObj : NextPage(r, q, timed)
  BY <1>3, NextPageInv
<1>4. CASE \E f \in FutObj, timed \in BOOLEAN : Get(f, timed)
  BY <1>4, GetInv
<1>5. CASE \E f \in FutObj, q \in Req : ExecuteAsync(f, q)
  BY <1>5, ExecuteAsyncInv
<1>6. CASE \E f \in FutObj, q \in Req, r \in RowsObj : NextPageAsync(r, f, q)
  BY <1>6, NextPageAsyncInv
<1>7. CASE Return
  BY <1>7, ExecuteOKInv, GetOKInv, NextPageOKInv, ExecuteFailsInv, GetFailsInv,
     NextPageFailsInv DEF Return
<1>8. CASE \E r \in RowsObj : NextPageAsyncAgain(r)
  BY <1>8, NextPageAsyncAgainInv
<1>9. CASE \E r \in RowsObj : NextPageAsyncLast(r)
  BY <1>1, <1>9 DEF NextPageAsyncLast
<1>10. CASE \E r \in RowsObj : FreeRows(r)
  BY <1>10, FreeRowsInv
<1>11. CASE \E r \in RowsObj, r2 \in RowsObj : NextPageKnown(r, r2)
  BY <1>11, NextPageKnownInv
<1>12. CASE \E r \in RowsObj, r2 \in RowsObj : NextPageAsyncKnown(r, r2)
  BY <1>12, NextPageAsyncKnownInv
<1>13. CASE \E f \in FutObj : FreeFut(f)
  BY <1>13, FreeFutInv
<1>14. CASE \E q \in Req, o \in Outcome : Resolve(q, o)
  BY <1>14, ResolveInv
<1>15. CASE Drop
  BY <1>15, DropInv
<1>16. CASE Terminated
  BY <1>1, <1>16 DEF Terminated
<1>. QED  BY <1>1, <1>2, <1>3, <1>4, <1>5, <1>6, <1>7, <1>8, <1>9, <1>10, <1>11, <1>12,
            <1>13, <1>14, <1>15, <1>16 DEF Next, Step

(* The invariant holds in every reachable state. *)
LEMMA InvHolds == Spec => []Inv
<1>1. Init => Inv
  BY InitInv
<1>2. Inv /\ [Next]_vars => Inv'
  BY NextInv
<1>. QED  BY <1>1, <1>2, PTL DEF Spec

(* The counts of session, statement and results are the number of objects  *)
(* that point to them, along every path of execute, executeAsync, get,     *)
(* nextPage, nextPageAsync and the free handlers, for any number of pages. *)
THEOREM PagingCountsExact == Spec => []RefCountExact
<1>1. Inv => RefCountExact
  BY DEF Inv
<1>. QED  BY <1>1, InvHolds, PTL

(* No page is skipped or delivered twice, however nextPage, nextPageAsync  *)
(* and get are mixed on the objects of a query that share one statement.   *)
THEOREM PagesInOrder == Spec => []PageOrder
<1>1. Inv => PageOrder
  BY DEF Inv, RowsOK, FutOK, PageOrder
<1>. QED  BY <1>1, InvHolds, PTL

(* Rows::isLastPage answers TRUE exactly on the last page, whatever was    *)
(* asked of the object, and nextPage never meets a FutureValue alone.      *)
THEOREM LastPageCorrect == Spec => []LastPageExact
<1>1. Inv => LastPageExact
  <2> SUFFICES ASSUME Inv, NEW r \in RowsObj
               PROVE  /\ rows[r].st = "live" => (IsLastPage(r) <=> ~More(rows[r].page))
                      /\ rows[r].future_next_page[1] = "value" => Field(r, "next_result") # NULL
    BY DEF LastPageExact
  <2>1. RowsOK(r) /\ NextOK(r) /\ rows[r].future_next_page[1] \in {"none", "value", "future"}
    BY DEF Inv, TypeInv, RowsType
  <2>. QED  BY <2>1 DEF RowsOK, NextOK, IsLastPage
<1>. QED  BY <1>1, InvHolds, PTL

(* cass_future_free is called at most once on a request's future, by       *)
(* execute, by nextPage or by the FutureRows, and never while a call waits.*)
THEOREM FuturesFreedAtMostOnce == Spec => []FuturesFreedOnce
<1>1. Inv => FuturesFreedOnce
  <2> SUFFICES ASSUME Inv PROVE FuturesFreedOnce
    OBVIOUS
  <2>1. \A q \in Req : frees[q] <= 1
    BY DEF Inv, ReqOK
  <2>2. CASE call.op = "get"
    BY <2>1, <2>2, GetCallFacts DEF Inv, FutOK, FuturesFreedOnce
  <2>3. CASE call.op = "execute"
    BY <2>1, <2>3 DEF Inv, CallOK, Private, FuturesFreedOnce
  <2>4. CASE call.op \in {"next", "next_future"}
    BY <2>1, <2>4, NextCallFacts DEF Inv, Private, FutOK, FuturesFreedOnce
  <2>5. CASE call.op = "none"
    BY <2>1, <2>5 DEF FuturesFreedOnce
  <2>6. call.op \in {"none", "execute", "get", "next", "next_future"}
    BY DEF Inv, TypeInv, CallType
  <2>. QED  BY <2>2, <2>3, <2>4, <2>5, <2>6
<1>. QED  BY <1>1, InvHolds, PTL

-----------------------------------------------------------------------------
(* FuturesAccounted speaks of the requests that were made, are not freed   *)
(* and that neither a call nor a FutureRows has.                           *)
Owned(q) == \E f \in FutObj : futs[f].st # "absent" /\ futs[f].future = q

Forgotten(q) == reqs[q].st # "none" /\ frees[q] = 0 /\ call.q # q /\ ~Owned(q)

LEMMA AccountedMeans ==
  FuturesAccounted <=>
    \A q \in Req : Forgotten(q) => reqs[q].page > 1 /\ heap.status[q] = "unused"
BY DEF FuturesAccounted, Forgotten, Owned

(* A step that frees nothing, forgets nothing and puts no handle to use.   *)
LEMMA AccountedStable ==
  ASSUME FuturesAccounted, frees' = frees,
         \A q \in Req : call.q = q => call'.q = q,
         \A q \in Req : Forgotten(q)' => reqs[q].st # "none" /\ reqs'[q].page = reqs[q].page,
         \A f \in FutObj : futs[f].st # "absent" =>
                             futs'[f].st # "absent" /\ futs'[f].future = futs[f].future,
         \A q \in Req : heap.status[q] = "unused" => heap'.status[q] = "unused"
  PROVE  FuturesAccounted'
<1>1. ASSUME NEW q \in Req, Forgotten(q)'
      PROVE  reqs'[q].page > 1 /\ heap'.status[q] = "unused"
  <2>1. frees[q] = 0 /\ call.q # q
    BY <1>1 DEF Forgotten
  <2>2. Owned(q) => Owned(q)'
    BY DEF Owned
  <2>3. Forgotten(q) /\ reqs'[q].page = reqs[q].page
    BY <1>1, <2>1, <2>2 DEF Forgotten
  <2>4. reqs[q].page > 1 /\ heap.status[q] = "unused"
    BY <2>3, AccountedMeans
  <2>. QED  BY <2>3, <2>4
<1>2. \A q \in Req : Forgotten(q)' => reqs'[q].page > 1 /\ heap'.status[q] = "unused"
  BY <1>1
<1>. QED  BY <1>2 DEF FuturesAccounted, Forgotten, Owned

(* The return of a call that has freed its future, leaves it to a          *)
(* FutureRows or has not taken its result.                                 *)
LEMMA AccountedReturn ==
  ASSUME FuturesAccounted, UNCHANGED <<reqs, futs>>, NEW q, q = call.q,
         \A p \in Req : p # q => /\ frees'[p] = frees[p]
                                 /\ heap.status[p] = "unused" => heap'.status[p] = "unused",
         \/ frees'[q] # 0
         \/ Owned(q)
         \/ reqs[q].page > 1 /\ heap'.status[q] = "unused"
  PROVE  FuturesAccounted'
<1>1. ASSUME NEW p \in Req, Forgotten(p)'
      PROVE  reqs'[p].page > 1 /\ heap'.status[p] = "unused"
  <2>1. ~Owned(p) /\ reqs[p].st # "none" /\ frees'[p] = 0
    BY <1>1 DEF Forgotten, Owned
  <2>2. CASE p = q
    BY <2>1, <2>2
  <2>3. CASE p # q
    <3>1. Forgotten(p)
      BY <2>1, <2>3 DEF Forgotten
    <3>2. reqs[p].page > 1 /\ heap.status[p] = "unused"
      BY <3>1, AccountedMeans
    <3>. QED  BY <2>3, <3>2
  <2>. QED  BY <2>2, <2>3
<1>2. \A p \in Req : Forgotten(p)' => reqs'[p].page > 1 /\ heap'.status[p] = "unused"
  BY <1>1
<1>. QED  BY <1>2 DEF FuturesAccounted, Forgotten, Owned

(* Only php_driver_new_peref puts a handle to use.                         *)
LEMMA ShareStatus ==
  ASSUME NEW h, NEW r, NEW o, NEW res
  PROVE  Share(h, r, o, res).status = h.status
BY DEF Share, ShareAll, AddRef

LEMMA GetStatus ==
  ASSUME Inv, NEW f \in FutObj, NEW p \in Req, p # futs[f].future
  PROVE  GetResult(heap, f).status[p] = heap.status[p]
<1>1. heap.status \in [Data -> {"unused", "live", "freed"}] /\ p \in Data
  BY Constants DEF Inv, TypeInv, HeapType
<1>. QED  BY <1>1 DEF GetResult, NewPeref

LEMMA NextStatus ==
  ASSUME Inv, call.op \in {"next", "next_future"}, NEW p \in Req, p # call.q
  PROVE  NextResult.status[p] = heap.status[p]
<1>1. heap.status \in [Data -> {"unused", "live", "freed"}] /\ p \in Data
  BY Constants DEF Inv, TypeInv, HeapType
<1>2. CASE call.op = "next"
  BY <1>1, <1>2 DEF NextResult, NewPeref
<1>3. CASE call.op = "next_future"
  <2>1. call.f \in FutObj /\ call.q = futs[call.f].future
    BY <1>3, NextCallFacts
  <2>2. GetResult(heap, call.f).status[p] = heap.status[p]
    BY <2>1, GetStatus
  <2>. QED  BY <1>3, <2>2 DEF NextResult, AddRef
<1>. QED  BY <1>2, <1>3

(* A new request, which the call or a new FutureRows has.                  *)
LEMMA AccountedSubmit ==
  ASSUME Inv, FuturesAccounted, call = NoCall, frees' = frees,
         NEW q \in Req, NEW page, Submit(q, page),
         call'.q = q \/ Owned(q)',
         \A f \in FutObj : futs[f].st # "absent" => futs'[f] = futs[f],
         \A p \in Req : heap.status[p] = "unused" => heap'.status[p] = "unused"
  PROVE  FuturesAccounted'
<1>1. \A p \in Req : p # q => reqs'[p] = reqs[p]
  BY DEF Submit, Inv, TypeInv
<1>2. \A p \in Req : Forgotten(p)' => reqs[p].st # "none" /\ reqs'[p].page = reqs[p].page
  BY <1>1 DEF Forgotten
<1>3. \A p \in Req : call.q # p
  BY Constants DEF NoCall
<1>. QED  BY <1>2, <1>3, AccountedStable

(* The future and the references that a FutureRows gives back.             *)
LEMMA AccountedFreeFut ==
  ASSUME Inv, FuturesAccounted, NEW f \in FutObj, FreeFut(f)
  PROVE  FuturesAccounted'
<1> DEFINE h1 == DelPeref(heap, <<f, "statement">>)
           h2 == DelPeref(h1, <<f, "session">>)
           h3 == DelPeref(h2, <<f, "result">>)
           q == futs[f].future
<1>1. /\ call = NoCall /\ futs[f].st = "live"
      /\ heap' = (IF free_installed THEN h3 ELSE heap)
      /\ frees' = (IF free_installed THEN FutureFree(q) ELSE frees)
      /\ futs' = [futs EXCEPT ![f] = IF free_installed THEN NoFut ELSE [@ EXCEPT !.st = "leaked"]]
      /\ UNCHANGED <<position, reqs, rows, call>>
  BY DEF FreeFut, Released, Emptied
<1>2. /\ futs \in [FutObj -> FutType] /\ futs[f] \in FutType /\ Heap(heap)
      /\ frees \in [Req -> Nat] /\ q \in Req /\ frees[q] = 0
  BY <1>1 DEF Inv, TypeInv, Heap, RefCountExact, FutOK
<1>3. CASE ~free_installed
  <2>1. \A g \in FutObj : futs[g].st # "absent" =>
                            futs'[g].st # "absent" /\ futs'[g].future = futs[g].future
    BY <1>1, <1>2, <1>3 DEF FutType
  <2>2. frees' = frees /\ heap' = heap
    BY <1>1, <1>3
  <2>3. \A p \in Req : Forgotten(p)' => reqs[p].st # "none" /\ reqs'[p].page = reqs[p].page
    BY <1>1 DEF Forgotten
  <2>. QED  BY <1>1, <2>1, <2>2, <2>3, AccountedStable
<1>4. CASE free_installed
  <2> HIDE DEF q
  <2>1. Heap(h1) /\ Unused(h1) = Unused(heap)
    BY <1>2, Constants, DelFacts DEF FutField
  <2> HIDE DEF h1
  <2>2. Heap(h2) /\ Unused(h2) = Unused(h1)
    BY <2>1, Constants, DelFacts DEF FutField
  <2> HIDE DEF h2
  <2>3. Unused(h3) = Unused(h2)
    BY <2>2, Constants, DelFacts DEF FutField
  <2> HIDE DEF h3
  <2>4. \A p \in Req : heap.status[p] = "unused" => heap'.status[p] = "unused"
    BY <1>1, <1>4, <2>1, <2>2, <2>3, Constants DEF Unused
  <2>5. frees'[q] = 1 /\ \A p \in Req : p # q => frees'[p] = frees[p]
    BY <1>1, <1>2, <1>4 DEF FutureFree
  <2>6. \A g \in FutObj : g # f => futs'[g] = futs[g]
    BY <1>1, <1>2
  <2>7. ASSUME NEW p \in Req, Forgotten(p)'
        PROVE  reqs'[p].page > 1 /\ heap'.status[p] = "unused"
    <3>1. p # q /\ frees[p] = 0
      BY <2>5, <2>7 DEF Forgotten
    <3>2. ~Owned(p)
      BY <2>6, <2>7, <3>1 DEF Forgotten, Owned, q
    <3>3. Forgotten(p)
      BY <1>1, <2>7, <3>1, <3>2 DEF Forgotten
    <3>4. reqs[p].page > 1 /\ heap.status[p] = "unused"
      BY <3>3, AccountedMeans
    <3>. QED  BY <1>1, <2>4, <3>4
  <2>8. \A p \in Req : Forgotten(p)' => reqs'[p].page > 1 /\ heap'.status[p] = "unused"
    BY <2>7
  <2>. QED  BY <2>8 DEF FuturesAccounted, Forgotten, Owned
<1>. QED  BY <1>3, <1>4

(* The references that a Rows object gives back.                           *)
LEMMA FreeRowsStatus ==
  ASSUME Inv, NEW r \in RowsObj, FreeRows(r), NEW p \in Req, heap.status[p] = "unused"
  PROVE  heap'.status[p] = "unused"
<1> DEFINE h1 == DelPeref(heap, <<r, "result">>)
           h2 == DelPeref(h1, <<r, "statement">>)
           h3 == DelPeref(h2, <<r, "session">>)
           h4 == DelPeref(h3, <<r, "next_result">>)
<1>1. heap' = (IF free_installed THEN h4 ELSE heap) /\ Heap(heap)
  BY DEF FreeRows, Released, Inv, TypeInv, Heap, RefCountExact
<1>2. Heap(h1) /\ Unused(h1) = Unused(heap)
  BY <1>1, Constants, DelFacts DEF RowsField
<1> HIDE DEF h1
<1>3. Heap(h2) /\ Unused(h2) = Unused(h1)
  BY <1>2, Constants, DelFacts DEF RowsField
<1> HIDE DEF h2
<1>4. Heap(h3) /\ Unused(h3) = Unused(h2)
  BY <1>3, Constants, DelFacts DEF RowsField
<1> HIDE DEF h3
<1>5. Unused(h4) = Unused(h3)
  BY <1>4, Constants, DelFacts DEF RowsField
<1> HIDE DEF h4
<1>. QED  BY <1>1, <1>2, <1>3, <1>4, <1>5, Constants DEF Unused

(* The calls that return.                                                  *)
LEMMA AccountedReturns ==
  ASSUME Inv, FuturesAccounted, Return
  PROVE  FuturesAccounted'
<1>1. CASE ExecuteFails \/ \E r \in RowsObj : ExecuteOK(r)
  <2>1. /\ call.op = "execute" /\ frees' = FutureFree(call.q) /\ UNCHANGED <<reqs, futs>>
    BY <1>1 DEF ExecuteFails, ExecuteOK
  <2>2. call.q \in Req /\ frees \in [Req -> Nat] /\ frees[call.q] = 0
    BY <2>1 DEF Inv, CallOK, Private, TypeInv
  <2>3. frees'[call.q] = 1 /\ \A p \in Req : p # call.q => frees'[p] = frees[p]
    BY <2>1, <2>2 DEF FutureFree
  <2>4. heap.status \in [Data -> {"unused", "live", "freed"}] /\ heap.status = heap.status
    BY DEF Inv, TypeInv, HeapType
  <2>5. \/ heap' = [heap EXCEPT !.status[Statement] = "freed"]
        \/ \E r \in RowsObj :
             heap' = AddRef(NewPeref(NewPeref(heap, <<r, "statement">>, Statement),
                                     <<r, "result">>, call.q), <<r, "session">>, Session)
    BY <1>1 DEF ExecuteFails, ExecuteOK
  <2>6. ASSUME NEW p \in Req, p # call.q
        PROVE  heap'.status[p] = heap.status[p]
    <3>1. p \in Data /\ p # Statement
      BY Constants, DistinctData
    <3>2. CASE heap' = [heap EXCEPT !.status[Statement] = "freed"]
      <4>1. heap'.status = [heap.status EXCEPT ![Statement] = "freed"]
        BY <3>2 DEF Inv, TypeInv, HeapType
      <4>. QED  BY <2>4, <3>1, <4>1
    <3>3. CASE heap' # [heap EXCEPT !.status[Statement] = "freed"]
      <4>1. heap'.status = [[heap.status EXCEPT ![Statement] = "live"] EXCEPT ![call.q] = "live"]
        <5>1. PICK r \in RowsObj :
                heap' = AddRef(NewPeref(NewPeref(heap, <<r, "statement">>, Statement),
                                        <<r, "result">>, call.q), <<r, "session">>, Session)
          BY <2>5, <3>3
        <5>. QED  BY <5>1 DEF AddRef, NewPeref
      <4>. QED  BY <2>4, <2>6, <3>1, <4>1
    <3>. QED  BY <3>2, <3>3
  <2>. QED  BY <2>1, <2>3, <2>6, AccountedReturn
<1>2. CASE GetFails \/ \E r \in RowsObj : GetOK(r)
  <2>1. /\ call.op = "get" /\ frees' = frees /\ UNCHANGED <<reqs, futs>>
    BY <1>2 DEF GetFails, GetOK
  <2>2. call.f \in FutObj /\ futs[call.f].st # "absent" /\ call.q = futs[call.f].future
    BY <2>1, GetCallFacts
  <2>3. Owned(call.q)
    BY <2>2 DEF Owned
  <2>4. heap'.status = heap.status \/ heap'.status = GetResult(heap, call.f).status
    BY <1>2, ShareStatus DEF GetFails, GetOK
  <2>5. \A p \in Req : p # call.q => heap'.status[p] = heap.status[p]
    BY <2>2, <2>4, GetStatus
  <2>. QED  BY <2>1, <2>3, <2>5, AccountedReturn
<1>3. CASE NextPageFails \/ \E r \in RowsObj : NextPageOK(r)
  <2>0. ASSUME NEW r, RowsCreate(NextResult, call.r, r)
        PROVE  heap'.status = NextResult.status
    BY <2>0, ShareStatus DEF RowsCreate
  <2>1. /\ call.op \in {"next", "next_future"} /\ UNCHANGED <<reqs, futs>>
        /\ \/ heap' = heap /\ frees' = frees
           \/ heap'.status = NextResult.status /\ frees' = NextFrees
    BY <1>3, <2>0 DEF NextPageFails, NextPageOK
  <2>2. /\ call.q \in Req /\ frees \in [Req -> Nat]
        /\ reqs[call.q].page = rows[call.r].page + 1
        /\ call.r \in RowsObj /\ rows[call.r].st = "live"
    BY <2>1, NextCallFacts DEF Inv, TypeInv
  <2>3. rows[call.r].page = rows[call.r].prev + 1 /\ rows[call.r].prev \in Nat
    BY <2>2 DEF Inv, RowsOK, TypeInv, RowsType
  <2>4. reqs[call.q].page > 1
    BY <2>2, <2>3
  <2>5. \A p \in Req : p # call.q =>
          /\ frees'[p] = frees[p]
          /\ heap.status[p] = "unused" => heap'.status[p] = "unused"
    BY <2>1, <2>2, NextStatus DEF NextFrees, FutureFree
  <2>6. CASE call.op = "next_future"
    <3>1. call.f \in FutObj /\ futs[call.f].st # "absent" /\ call.q = futs[call.f].future
      BY <2>6, NextCallFacts
    <3>2. Owned(call.q)
      BY <3>1 DEF Owned
    <3>. QED  BY <2>1, <2>5, <3>2, AccountedReturn
  <2>7. CASE call.op = "next"
    <3>1. heap.status[call.q] = "unused" /\ frees[call.q] = 0
      BY <2>7, NextCallFacts DEF Private, Unused
    <3>2. frees'[call.q] # 0 \/ heap'.status[call.q] = "unused"
      BY <2>1, <2>2, <2>7, <3>1 DEF NextFrees, FutureFree
    <3>. QED  BY <2>1, <2>4, <2>5, <3>2, AccountedReturn
  <2>. QED  BY <2>1, <2>6, <2>7
<1>. QED  BY <1>1, <1>2, <1>3 DEF Return

(* Every step keeps the futures accounted for, given the invariant.        *)
LEMMA AccountedNext ==
  ASSUME Inv, FuturesAccounted, [Next]_vars
  PROVE  FuturesAccounted'
<1>1. CASE UNCHANGED vars
  BY <1>1 DEF vars, FuturesAccounted
<1>2. ASSUME call = NoCall \/ call' = call, frees' = frees, reqs' = reqs,
             \A f \in FutObj : futs[f].st # "absent" =>
                                 futs'[f].st # "absent" /\ futs'[f].future = futs[f].future,
             \A q \in Req : heap.status[q] = "unused" => heap'.status[q] = "unused"
      PROVE  FuturesAccounted'
  <2>1. \A q \in Req : call.q = q => call'.q = q
    BY <1>2, Constants DEF NoCall
  <2>2. \A q \in Req : Forgotten(q)' => reqs[q].st # "none" /\ reqs'[q].page = reqs[q].page
    BY <1>2 DEF Forgotten
  <2>. QED  BY <1>2, <2>1, <2>2, AccountedStable
<1>3. CASE \E q \in Req, timed \in BOOLEAN : Execute(q, timed)
  <2> PICK q \in Req, timed \in BOOLEAN : Execute(q, timed)
    BY <1>3
  <2>1. /\ call = NoCall /\ Submit(q, position) /\ call'.q = q
        /\ UNCHANGED <<heap, frees, futs>>
    BY DEF Execute, Idle, NoCall
  <2>. QED  BY <2>1, AccountedSubmit
<1>4. CASE \E q \in Req, timed \in BOOLEAN, r \in RowsObj : NextPage(r, q, timed)
  <2> PICK q \in Req, timed \in BOOLEAN, r \in RowsObj : NextPage(r, q, timed)
    BY <1>4
  <2>1. call = NoCall /\ UNCHANGED <<heap, frees, futs>>
    BY DEF NextPage, Usable, Idle
  <2>2. reqs' = reqs \/ (Submit(q, position') /\ call'.q = q)
    BY DEF NextPage
  <2>. QED  BY <1>2, <2>1, <2>2, AccountedSubmit
<1>5. CASE \E f \in FutObj, timed \in BOOLEAN : Get(f, timed)
  BY <1>2, <1>5 DEF Get, Idle
<1>6. CASE \E f \in FutObj, q \in Req : ExecuteAsync(f, q)
  <2> PICK f \in FutObj, q \in Req : ExecuteAsync(f, q)
    BY <1>6
  <2>1. /\ call = NoCall /\ Submit(q, position) /\ frees' = frees /\ futs[f].st = "absent"
        /\ heap' = AddRef(NewPeref(heap, <<f, "statement">>, Statement),
                          <<f, "session">>, Session)
        /\ futs' = [futs EXCEPT ![f] = [st |-> "live", user |-> TRUE, future |-> q, prev |-> 0]]
    BY DEF ExecuteAsync, Idle
  <2>2. Owned(q)' /\ \A g \in FutObj : futs[g].st # "absent" => futs'[g] = futs[g]
    BY <2>1 DEF Owned, Inv, TypeInv
  <2>3. heap'.status = [heap.status EXCEPT ![Statement] = "live"]
    BY <2>1 DEF AddRef, NewPeref
  <2>4. \A p \in Req : heap'.status[p] = heap.status[p]
    BY <2>3, Constants, DistinctData DEF Inv, TypeInv, HeapType
  <2>. QED  BY <2>1, <2>2, <2>4, AccountedSubmit
<1>7. CASE \E f \in FutObj, q \in Req, r \in RowsObj : NextPageAsync(r, f, q)
  <2> PICK f \in FutObj, q \in Req, r \in RowsObj : NextPageAsync(r, f, q)
    BY <1>7
  <2>1. /\ call = NoCall /\ Submit(q, position') /\ frees' = frees /\ futs[f].st = "absent"
        /\ heap'.status = heap.status
        /\ futs' = [futs EXCEPT ![f] = [st |-> "live", user |-> TRUE, future |-> q,
                                        prev |-> rows[r].page]]
    BY DEF NextPageAsync, Usable, Idle, AddRef
  <2>2. Owned(q)' /\ \A g \in FutObj : futs[g].st # "absent" => futs'[g] = futs[g]
    BY <2>1 DEF Owned, Inv, TypeInv
  <2>. QED  BY <2>1, <2>2, AccountedSubmit
<1>8. CASE Return
  BY <1>8, AccountedReturns
<1>9. CASE \/ \E r \in RowsObj : NextPageAsyncAgain(r)
           \/ Drop
  <2>1. /\ call = NoCall /\ frees' = frees /\ reqs' = reqs
        /\ futs' = futs \/ \E x, b : b \in BOOLEAN /\ futs' = [futs EXCEPT ![x].user = b]
        /\ heap' = heap \/ heap' = DelPeref(heap, DefaultSession)
    BY <1>9 DEF NextPageAsyncAgain, Drop, Usable, Idle
  <2>2. futs \in [FutObj -> FutType] /\ Heap(heap)
    BY DEF Inv, TypeInv, Heap, RefCountExact
  <2>3. \A f \in FutObj : futs'[f].st = futs[f].st /\ futs'[f].future = futs[f].future
    BY <2>1, <2>2, FutUser
  <2>4. \A q \in Req : heap.status[q] = "unused" => heap'.status[q] = "unused"
    <3>1. Unused(DelPeref(heap, DefaultSession)) = Unused(heap)
      BY <2>2, Constants, DelFacts
    <3>2. Unused(heap') = Unused(heap)
      BY <2>1, <3>1
    <3>. QED  BY <3>2, Constants DEF Unused
  <2>. QED  BY <1>2, <2>1, <2>3, <2>4
<1>10. CASE \E r \in RowsObj : FreeRows(r)
  BY <1>2, <1>10, FreeRowsStatus DEF FreeRows
<1>11. CASE \E r, r2 \in RowsObj : NextPageKnown(r, r2) \/ NextPageAsyncKnown(r, r2)
  BY <1>2, <1>11, ShareStatus DEF NextPageKnown, NextPageAsyncKnown, RowsCreate, Usable, Idle
<1>12. CASE \E f \in FutObj : FreeFut(f)
  BY <1>12, AccountedFreeFut
<1>13. CASE \E q \in Req, o \in Outcome : Resolve(q, o)
  <2> PICK q \in Req, o \in Outcome : Resolve(q, o)
    BY <1>13
  <2>1. /\ reqs[q].st = "pending" /\ reqs' = [reqs EXCEPT ![q].st = o]
        /\ UNCHANGED <<heap, frees, futs, call>> /\ reqs \in [Req -> ReqType]
    BY DEF Resolve, Inv, TypeInv
  <2>2. \A p \in Req : reqs'[p].page = reqs[p].page /\ (p # q => reqs'[p] = reqs[p])
    BY <2>1 DEF ReqType
  <2>3. \A p \in Req : Forgotten(p)' => reqs[p].st # "none" /\ reqs'[p].page = reqs[p].page
    BY <2>1, <2>2 DEF Forgotten
  <2>. QED  BY <2>1, <2>3, AccountedStable
<1>14. CASE Terminated \/ \E r \in RowsObj : NextPageAsyncLast(r)
  BY <1>1, <1>14 DEF Terminated, NextPageAsyncLast
<1>. QED  BY <1>1, <1>3, <1>4, <1>5, <1>6, <1>7, <1>8, <1>9, <1>10, <1>11, <1>12, <1>13, <1>14
          DEF Next, Step

(* No CassFuture is forgotten but those of the nextPage calls that timed   *)
(* out or failed, from which no result was taken: for any number of pages, *)
(* requests and objects, in both builds.                                   *)
THEOREM FuturesAlwaysAccounted == Spec => []FuturesAccounted
<1>1. Init => FuturesAccounted
  BY DEF Init, FuturesAccounted
<1>2. Inv /\ FuturesAccounted /\ [Next]_vars => FuturesAccounted'
  BY AccountedNext
<1>. QED  BY <1>1, <1>2, InvHolds, PTL DEF Spec
=============================================================================
