----------------------------- MODULE PagedRows -----------------------------
(***************************************************************************)
(* One paged query: Session::execute or executeAsync, then any mixture of  *)
(* FutureRows::get, Rows::nextPage and Rows::nextPageAsync on the objects  *)
(* they return, with timeouts, errors and objects dropped in any order.    *)
(*                                                                         *)
(* All pages of a query share one CassStatement, whose paging state each   *)
(* request overwrites, and the CassSession.  A request (Req) is a          *)
(* CassFuture together with the CassResult it yields.  The server has the  *)
(* pages 1..NPages.  The C/C++ driver is taken to copy the paging state    *)
(* when cass_session_execute is called.                                    *)
(***************************************************************************)
EXTENDS RefCount

CONSTANTS RowsObj,        \* Rows objects
          FutObj,         \* FutureRows objects
          MaxReq,         \* bound: requests that are ever made
          NPages,         \* pages of the query
          Session, Statement,
          Outcome         \* how requests end; a "garbled" result arrives but
                          \* php_driver_get_result cannot decode it

ASSUME NPagesAssumption == NPages \in Nat \ {0}
ASSUME MaxReqAssumption == MaxReq \in Nat
ASSUME OutcomeAssumption == Outcome \subseteq {"ok", "error", "garbled"}

Req == 1..MaxReq

Data == Req \cup {Session, Statement}

ASSUME FiniteObjects == IsFiniteSet(RowsObj) /\ IsFiniteSet(FutObj)
ASSUME DistinctObjects == RowsObj \cap FutObj = {} /\ NULL \notin RowsObj \cup FutObj
ASSUME DistinctData == /\ Session # Statement /\ Session \notin Req /\ Statement \notin Req
                       /\ NULL \notin Data

RowsField == {"statement", "session", "result", "next_result"}
FutField  == {"statement", "session", "result"}

(* The php_driver_ref* fields: those of Rows, FutureRows and the session.  *)
DefaultSession == <<NULL, "session">>
Slot == (RowsObj \X RowsField) \cup (FutObj \X FutField) \cup {DefaultSession}

VARIABLES
  heap,        \* reference counts of session, statement and results
  position,    \* paging state held by the statement: the page it asks for
  reqs,        \* request -> [st, page]
  frees,       \* request -> number of cass_future_free calls
  rows,        \* Rows objects
  futs,        \* FutureRows objects
  call,        \* the method the PHP thread is blocked in
  free_installed \* does object creation install the free handlers?
               \* (php_driver.h: the PHP 5 macro does, the PHP 8 one not)

vars == <<heap, position, reqs, frees, rows, futs, call, free_installed>>

(* page and prev are the page an object holds and the page it was asked    *)
(* from; future_next_page is a FutureRows or a FutureValue around a Rows.  *)
NoRows == [st |-> "absent", user |-> FALSE, page |-> 0, prev |-> 0,
           future_next_page |-> <<"none", NULL>>]

NoFut == [st |-> "absent", user |-> FALSE, future |-> NULL, prev |-> 0]

NoCall == [op |-> "none", r |-> NULL, f |-> NULL, q |-> NULL, timed |-> FALSE]

Init ==
  /\ heap = NewPeref(EmptyHeap(Slot, Data), DefaultSession, Session)
  /\ position = 1
  /\ reqs = [q \in Req |-> [st |-> "none", page |-> 0]]
  /\ frees = [q \in Req |-> 0]
  /\ rows = [r \in RowsObj |-> NoRows]
  /\ futs = [f \in FutObj |-> NoFut]
  /\ call = NoCall
  /\ free_installed \in BOOLEAN

-----------------------------------------------------------------------------
More(page) == page < NPages

Field(o, name) == heap.ptr[<<o, name>>]

(* The objects that PHP will free at once: nothing refers to them.         *)
RowsHeld(r) ==
  rows[r].user \/ \E p \in RowsObj : rows[p].st # "absent"
                                     /\ rows[p].future_next_page = <<"value", r>>
FutHeld(f) ==
  futs[f].user \/ \E p \in RowsObj : rows[p].st # "absent"
                                     /\ rows[p].future_next_page = <<"future", f>>

NoGarbage == /\ \A r \in RowsObj : rows[r].st = "live" => RowsHeld(r)
             /\ \A f \in FutObj : futs[f].st = "live" => FutHeld(f)

Idle == call = NoCall /\ NoGarbage

(* A call is only made while an object is left for what it may return.     *)
Spare == \E r \in RowsObj : rows[r].st = "absent"

(* cass_session_execute: a new request for the page the statement asks for.*)
Submit(q, page) ==
  /\ \A p \in Req : reqs[p].st = "none" <=> p >= q
  /\ reqs' = [reqs EXCEPT ![q] = [st |-> "pending", page |-> page]]

(* php_driver_future_wait_timed and php_driver_future_is_error.            *)
WaitFails == call.timed /\ reqs[call.q].st = "pending"

Resolved == reqs[call.q].st \notin {"none", "pending"}
Failed == reqs[call.q].st = "error"

FutureFree(q) == [frees EXCEPT ![q] = @ + 1]

(* The tail of rows_create and of FutureRows::get: a Rows object that has a *)
(* next page shares statement, session and result with object o, whose     *)
(* field `res' holds the result.                                           *)
ShareAll(h, r, o, res) ==
  AddRef(AddRef(AddRef(h, <<r, "statement">>, h.ptr[<<o, "statement">>]),
                <<r, "session">>, h.ptr[<<o, "session">>]),
         <<r, "result">>, h.ptr[<<o, res>>])

Share(h, r, o, res) ==
  IF More(reqs[h.ptr[<<o, res>>]].page) THEN ShareAll(h, r, o, res) ELSE h

(* The new Rows object, decoded from request q; a result that cannot be    *)
(* decoded throws and leaves no object.                                    *)
Decoded(q) == reqs[q].st = "ok"

NewRows(q, prev) == [NoRows EXCEPT !.st = "live", !.user = TRUE,
                                   !.page = reqs[q].page, !.prev = prev]

-----------------------------------------------------------------------------
(* Session::execute with a simple or prepared statement, up to its wait.   *)
Execute(q, timed) ==
  /\ Idle /\ Spare /\ heap.ptr[DefaultSession] # NULL
  /\ heap.status[Statement] = "unused"
  /\ q = 1 /\ Submit(q, position)
  /\ call' = [NoCall EXCEPT !.op = "execute", !.q = q, !.timed = timed]
  /\ UNCHANGED <<heap, position, frees, rows, futs>>

(* Timeout, error, undecodable result: future and statement are freed.     *)
ExecuteFails ==
  /\ call.op = "execute"
  /\ WaitFails \/ (Resolved /\ ~Decoded(call.q))
  /\ frees' = FutureFree(call.q)
  /\ heap' = [heap EXCEPT !.status[Statement] = "freed"]
  /\ call' = NoCall
  /\ UNCHANGED <<position, reqs, rows, futs>>

(* The result and the statement are kept only for a page that has a next.  *)
ExecuteOK(r) ==
  LET q == call.q IN
  /\ call.op = "execute" /\ Resolved /\ Decoded(q)
  /\ rows[r].st = "absent"
  /\ frees' = FutureFree(q)
  /\ rows' = [rows EXCEPT ![r] = NewRows(q, 0)]
  /\ heap' = IF More(reqs[q].page)
               THEN AddRef(NewPeref(NewPeref(heap, <<r, "statement">>, Statement),
                                    <<r, "result">>, q),
                           <<r, "session">>, Session)
               ELSE [heap EXCEPT !.status[Statement] = "freed"]
  /\ call' = NoCall
  /\ UNCHANGED <<position, reqs, futs>>

ExecuteAsync(f, q) ==
  /\ Idle /\ heap.ptr[DefaultSession] # NULL
  /\ heap.status[Statement] = "unused" /\ futs[f].st = "absent"
  /\ q = 1 /\ Submit(q, position)
  /\ heap' = AddRef(NewPeref(heap, <<f, "statement">>, Statement), <<f, "session">>, Session)
  /\ futs' = [futs EXCEPT ![f] = [st |-> "live", user |-> TRUE, future |-> q, prev |-> 0]]
  /\ UNCHANGED <<position, frees, rows, call>>

-----------------------------------------------------------------------------
(* php_driver_future_rows_get_result: waits only while there is no result  *)
(* yet, and creates its php_driver_ref once.                               *)
GetResult(h, f) ==
  IF h.ptr[<<f, "result">>] = NULL THEN NewPeref(h, <<f, "result">>, futs[f].future) ELSE h

(* FutureRows::get, and Rows::nextPage when a future is there: one wait.   *)
Get(f, timed) ==
  /\ Idle /\ Spare /\ futs[f].st = "live" /\ futs[f].user
  /\ call' = [NoCall EXCEPT !.op = "get", !.f = f, !.q = futs[f].future, !.timed = timed]
  /\ UNCHANGED <<heap, position, reqs, frees, rows, futs>>

GetOK(r) ==
  LET f == call.f
      h == GetResult(heap, f) IN
  /\ call.op = "get" /\ Resolved /\ Decoded(call.q)
  /\ rows[r].st = "absent"
  /\ heap' = Share(h, r, f, "result")
  /\ rows' = [rows EXCEPT ![r] = NewRows(call.q, futs[f].prev)]
  /\ call' = NoCall
  /\ UNCHANGED <<position, reqs, frees, futs>>

(* The exception leaves the future as it was, the result included if only  *)
(* the decoding failed.                                                    *)
GetFails ==
  /\ call.op = "get"
  /\ WaitFails \/ (Resolved /\ ~Decoded(call.q))
  /\ heap' = IF Resolved /\ ~Failed THEN GetResult(heap, call.f) ELSE heap
  /\ call' = NoCall
  /\ UNCHANGED <<position, reqs, frees, rows, futs>>

-----------------------------------------------------------------------------
(* cass_statement_set_paging_state(statement, self->result): the statement *)
(* now asks for the page after the one of the result.  The variant keeps   *)
(* what another Rows object of the query left there.                       *)
SetPagingState_Stale(r) == position' = IF position = 1 THEN 2 ELSE position

SetPagingState(r) == position' = reqs[Field(r, "result")].page + 1

Usable(r) == Idle /\ rows[r].st = "live" /\ rows[r].user

(* Rows::isLastPage.  (next_rows is set only together with next_result,    *)
(* which needs result or future_next_page.)                                *)
IsLastPage_ByNext(r) == Field(r, "next_result") = NULL

IsLastPage(r) == Field(r, "result") = NULL /\ rows[r].future_next_page[1] = "none"

(* Rows::nextPage: the next result may be there, or a future for it, or    *)
(* nothing is left, or a request has to be made.                           *)
NextPage(r, q, timed) ==
  /\ Usable(r) /\ Spare
  /\ Field(r, "next_result") = NULL
  /\ \/ /\ rows[r].future_next_page[1] = "future"
        /\ LET f == rows[r].future_next_page[2] IN
           call' = [op |-> "next_future", r |-> r, f |-> f,
                    q |-> futs[f].future, timed |-> timed]
        /\ UNCHANGED <<position, reqs>>
     \/ /\ rows[r].future_next_page[1] = "none"
        /\ Field(r, "result") # NULL
        /\ SetPagingState(r)
        /\ Submit(q, position')
        /\ call' = [op |-> "next", r |-> r, f |-> NULL, q |-> q, timed |-> timed]
  /\ UNCHANGED <<heap, frees, rows, futs>>

(* rows_create on Rows object r, into r2, with the next result in place.   *)
RowsCreate(h, r, r2) ==
  LET q == h.ptr[<<r, "next_result">>] IN
  /\ Decoded(q) /\ rows[r2].st = "absent"
  /\ heap' = Share(h, r2, r, "next_result")
  /\ rows' = [rows EXCEPT ![r2] = NewRows(q, rows[r].page)]

NextPageKnown(r, r2) ==
  /\ Usable(r)
  /\ Field(r, "next_result") # NULL
  /\ RowsCreate(heap, r, r2)
  /\ UNCHANGED <<position, reqs, frees, futs, call>>

(* The next result, from the request nextPage made or from the future's,   *)
(* is stored before it is decoded.                                         *)
NextResult ==
  IF call.op = "next"
    THEN NewPeref(heap, <<call.r, "next_result">>, call.q)
    ELSE AddRef(GetResult(heap, call.f), <<call.r, "next_result">>, call.q)

(* nextPage frees the future of its own request, never that of a           *)
(* FutureRows.  The variants free that one as well, or none.               *)
NextFrees_Any == FutureFree(call.q)

NextFrees_None == frees

NextFrees == IF call.op = "next" THEN FutureFree(call.q) ELSE frees

NextPageOK(r2) ==
  /\ call.op \in {"next", "next_future"} /\ Resolved /\ Decoded(call.q)
  /\ RowsCreate(NextResult, call.r, r2)
  /\ frees' = NextFrees
  /\ call' = NoCall
  /\ UNCHANGED <<position, reqs, futs>>

(* A timeout or an error returns at once: the future of a request made by  *)
(* nextPage is not freed.                                                  *)
NextPageFails ==
  /\ call.op \in {"next", "next_future"}
  /\ \/ /\ WaitFails \/ Failed
        /\ UNCHANGED <<heap, frees>>
     \/ /\ Resolved /\ ~Failed /\ ~Decoded(call.q)
        /\ heap' = NextResult
        /\ frees' = NextFrees
  /\ call' = NoCall
  /\ UNCHANGED <<position, reqs, rows, futs>>

(* Rows::nextPageAsync: the stored future again, a FutureValue around a    *)
(* known next page, or a new request.  On a last page it returns an empty  *)
(* FutureValue that it does not store.                                     *)
NextPageAsyncAgain(r) ==
  LET next == rows[r].future_next_page IN
  /\ Usable(r)
  /\ \/ /\ next[1] = "future"
        /\ futs' = [futs EXCEPT ![next[2]].user = TRUE]
        /\ UNCHANGED rows
     \/ /\ next[1] = "value" /\ next[2] # NULL
        /\ rows' = [rows EXCEPT ![next[2]].user = TRUE]
        /\ UNCHANGED futs
  /\ UNCHANGED <<heap, position, reqs, frees, call>>

NextPageAsyncKnown(r, r2) ==
  LET q == Field(r, "next_result") IN
  /\ Usable(r)
  /\ rows[r].future_next_page[1] = "none" /\ q # NULL
  /\ \/ /\ Decoded(q) /\ rows[r2].st = "absent"
        /\ heap' = Share(heap, r2, r, "next_result")
        /\ rows' = [rows EXCEPT ![r].future_next_page = <<"value", r2>>,
                                ![r2] = NewRows(q, rows[r].page)]
     \/ /\ ~Decoded(q) /\ r2 = r
        /\ rows' = [rows EXCEPT ![r].future_next_page = <<"value", NULL>>]
        /\ UNCHANGED heap
  /\ UNCHANGED <<position, reqs, frees, futs, call>>

NextPageAsyncLast(r) ==
  /\ Usable(r) /\ rows[r].future_next_page[1] = "none"
  /\ Field(r, "next_result") = NULL /\ Field(r, "result") = NULL
  /\ UNCHANGED vars

NextPageAsync(r, f, q) ==
  /\ Usable(r)
  /\ rows[r].future_next_page[1] = "none" /\ Field(r, "next_result") = NULL
  /\ Field(r, "result") # NULL /\ futs[f].st = "absent"
  /\ SetPagingState(r)
  /\ Submit(q, position')
  /\ heap' = AddRef(AddRef(heap, <<f, "statement">>, Field(r, "statement")),
                    <<f, "session">>, Field(r, "session"))
  /\ futs' = [futs EXCEPT ![f] = [st |-> "live", user |-> TRUE, future |-> q,
                                  prev |-> rows[r].page]]
  /\ rows' = [rows EXCEPT ![r].future_next_page = <<"future", f>>]
  /\ UNCHANGED <<frees, call>>

-----------------------------------------------------------------------------
Resolve(q, o) ==
  /\ reqs[q].st = "pending"
  /\ reqs' = [reqs EXCEPT ![q].st = o]
  /\ UNCHANGED <<heap, position, frees, rows, futs, call>>

(* PHP code drops its references to an object; the engine frees an object  *)
(* as soon as nothing refers to it.  Without a free handler the memory     *)
(* goes, but the references it held are never given back.                  *)
Released(h) == IF free_installed THEN h ELSE heap

Emptied(record, empty) ==
  IF free_installed THEN empty ELSE [record EXCEPT !.st = "leaked"]

Drop ==
  /\ Idle
  /\ \/ \E r \in RowsObj : /\ rows[r].user
                           /\ rows' = [rows EXCEPT ![r].user = FALSE]
                           /\ UNCHANGED <<futs, heap>>
     \/ \E f \in FutObj : /\ futs[f].user
                          /\ futs' = [futs EXCEPT ![f].user = FALSE]
                          /\ UNCHANGED <<rows, heap>>
     \/ /\ free_installed /\ heap.ptr[DefaultSession] # NULL
        /\ heap' = DelPeref(heap, DefaultSession)
        /\ UNCHANGED <<rows, futs>>
  /\ UNCHANGED <<position, reqs, frees, call>>

FreeRows(r) ==
  /\ call = NoCall /\ rows[r].st = "live" /\ ~RowsHeld(r)
  /\ heap' = Released(DelPeref(DelPeref(DelPeref(DelPeref(heap, <<r, "result">>),
                 <<r, "statement">>), <<r, "session">>), <<r, "next_result">>))
  /\ rows' = [rows EXCEPT ![r] = Emptied(@, NoRows)]
  /\ UNCHANGED <<position, reqs, frees, futs, call>>

FreeFut(f) ==
  /\ call = NoCall /\ futs[f].st = "live" /\ ~FutHeld(f)
  /\ heap' = Released(DelPeref(DelPeref(DelPeref(heap, <<f, "statement">>),
                                        <<f, "session">>), <<f, "result">>))
  /\ frees' = IF free_installed THEN FutureFree(futs[f].future) ELSE frees
  /\ futs' = [futs EXCEPT ![f] = Emptied(@, NoFut)]
  /\ UNCHANGED <<position, reqs, rows, call>>

(* PHP code has dropped every object and every request was answered.       *)
Ended ==
  /\ Idle /\ (free_installed => heap.ptr[DefaultSession] = NULL)
  /\ \A r \in RowsObj : ~rows[r].user
  /\ \A f \in FutObj : ~futs[f].user
  /\ \A q \in Req : reqs[q].st # "pending"

Terminated == Ended /\ UNCHANGED vars

Return == \/ \E r \in RowsObj : ExecuteOK(r) \/ GetOK(r) \/ NextPageOK(r)
          \/ ExecuteFails \/ GetFails \/ NextPageFails

Step ==
  \/ \E q \in Req, timed \in BOOLEAN :
        \/ Execute(q, timed)
        \/ \E r \in RowsObj : NextPage(r, q, timed)
  \/ \E f \in FutObj, timed \in BOOLEAN : Get(f, timed)
  \/ \E f \in FutObj, q \in Req : \/ ExecuteAsync(f, q)
                                  \/ \E r \in RowsObj : NextPageAsync(r, f, q)
  \/ Return
  \/ \E r \in RowsObj : \/ NextPageAsyncAgain(r)
                        \/ NextPageAsyncLast(r)
                        \/ FreeRows(r)
                        \/ \E r2 \in RowsObj : \/ NextPageKnown(r, r2)
                                               \/ NextPageAsyncKnown(r, r2)
  \/ \E f \in FutObj : FreeFut(f)
  \/ \E q \in Req, o \in Outcome : Resolve(q, o)
  \/ Drop
  \/ Terminated

(* The build does not change while it runs.                                *)
Next == Step /\ UNCHANGED free_installed

Spec == Init /\ [][Next]_vars

-----------------------------------------------------------------------------
(* The counts of the session, the statement and every result are the       *)
(* number of objects that point to them, in whatever order pages, futures  *)
(* and the session are used and dropped.                                   *)
RefCountExact == HeapOK(heap, Slot, Data)

(* The page obtained from page p, by nextPage or through a future, is page *)
(* p + 1: no page is skipped or delivered twice although all requests go   *)
(* through the one statement, failed and abandoned ones included.          *)
PageOrder ==
  /\ \A r \in RowsObj : rows[r].st = "live" => rows[r].page = rows[r].prev + 1
  /\ \A f \in FutObj : futs[f].st = "live" =>
                         reqs[futs[f].future].page = futs[f].prev + 1

(* Rows::isLastPage answers TRUE on the last page and only there, whatever *)
(* has been asked of the object before; and nextPage finds a FutureValue   *)
(* in future_next_page only when next_result is set too, so that its       *)
(* "Unexpected future instance" exception cannot occur.                    *)
LastPageExact ==
  \A r \in RowsObj :
    /\ rows[r].st = "live" => (IsLastPage(r) <=> ~More(rows[r].page))
    /\ rows[r].future_next_page[1] = "value" => Field(r, "next_result") # NULL

(* No CassFuture is freed twice, and none is waited on after it was freed. *)
FuturesFreedOnce ==
  /\ \A q \in Req : frees[q] <= 1
  /\ call.op # "none" => frees[call.q] = 0

(* No CassFuture is forgotten: one that has not been freed is being waited *)
(* for or belongs to a FutureRows, dropped ones of the PHP 8 build         *)
(* included.  The exception is the request of a nextPage that timed out or *)
(* failed (Rows.c returns without freeing it), from which no result has    *)
(* been taken; the query itself and any decoded page are never among them. *)
FuturesAccounted ==
  \A q \in Req : reqs[q].st # "none" /\ frees[q] = 0 =>
    \/ call.q = q
    \/ \E f \in FutObj : futs[f].st # "absent" /\ futs[f].future = q
    \/ reqs[q].page > 1 /\ heap.status[q] = "unused"
=============================================================================
