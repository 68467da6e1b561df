------------------------- MODULE PersistentSession -------------------------
(***************************************************************************)
(* How sessions are created, shared and given back: Cluster::connect,      *)
(* Cluster::connectAsync, FutureSession::get, Session::close, the free     *)
(* handlers of both classes, and the entries of EG(persistent_list) that   *)
(* let a php worker reuse a session in later requests.                     *)
(*                                                                         *)
(* A CassSession and the CassFuture of its connection attempt are created  *)
(* together, so one member of Sess stands for both: heap is about the      *)
(* session, `future' and `frees' about the future.  The slots of the heap *)
(* are the php_driver_ref* fields of the DefaultSession objects (DSess),   *)
(* of the FutureSession objects (FSess) and of the psession entries of the *)
(* persistent list, one per hash key (Key).                                *)
(*                                                                         *)
(* One PHP thread runs the methods; while it is blocked in a wait (`call') *)
(* only the I/O thread of the C/C++ driver, which resolves futures, moves. *)
(***************************************************************************)
EXTENDS RefCount

CONSTANTS Key, Sess, DSess, FSess,
          Outcome,        \* how connection attempts may end
          Builds          \* the values of free_installed considered

Slot == Key \cup DSess \cup FSess

ASSUME FiniteConstants == /\ IsFiniteSet(Key) /\ IsFiniteSet(Sess)
                          /\ IsFiniteSet(DSess) /\ IsFiniteSet(FSess)
ASSUME DisjointSlots == /\ Key \cap DSess = {} /\ Key \cap FSess = {}
                        /\ DSess \cap FSess = {}
ASSUME NullIsNothing == NULL \notin Slot \cup Sess
ASSUME OutcomeAssumption == Outcome \subseteq {"ok", "error"}
ASSUME BuildsAssumption == Builds \subseteq BOOLEAN

VARIABLES
  heap,                  \* reference counts of the sessions
  future,                \* the connect future of a session
  frees,                 \* how often cass_future_free was called on it
  closed,                \* has cass_session_close been called on it?
  ds,                    \* the DefaultSession objects
  fs,                    \* the FutureSession objects
  persistent_sessions,   \* PHP_DRIVER_G(persistent_sessions)
  call,                  \* the method the PHP thread is blocked in
  running,               \* FALSE once the worker process shuts down
  reported,              \* history: connect failures thrown by a persistent cluster
  free_installed         \* does object creation install the free handlers?  Not in
                         \* the build for PHP 7 and 8 (php_driver.h)

vars == <<heap, future, frees, closed, ds, fs, persistent_sessions, call,
          running, reported, free_installed>>

NoSession == [st |-> "absent", persist |-> FALSE, key |-> NULL]

NoFuture == [st |-> "absent", persist |-> FALSE, key |-> NULL, future |-> NULL,
             exception |-> FALSE, default_session |-> NULL]

NoCall == [op |-> "none", d |-> NULL, f |-> NULL, future |-> NULL, timed |-> FALSE]

Init ==
  /\ heap = EmptyHeap(Slot, Sess)
  /\ future = [s \in Sess |-> "none"]
  /\ frees = [s \in Sess |-> 0]
  /\ closed = [s \in Sess |-> FALSE]
  /\ ds = [d \in DSess |-> NoSession]
  /\ fs = [f \in FSess |-> NoFuture]
  /\ persistent_sessions = 0
  /\ call = NoCall
  /\ running = TRUE
  /\ reported = {}
  /\ free_installed \in Builds

Idle == running /\ call = NoCall

-----------------------------------------------------------------------------
(* cass_future_free(s).                                                    *)
FutureFree(s) == [frees EXCEPT ![s] = @ + 1]

(* The state of a future as a wait or an error check sees it.  Reading a   *)
(* future after cass_future_free is undefined: any answer may come back.   *)
Reads(s) ==
  IF s = NULL \/ frees[s] > 0 THEN {"pending", "ok", "error"} ELSE {future[s]}

(* php_driver_future_wait_timed: FAILURE needs a timeout argument and a    *)
(* future that is not ready yet (an invalid timeout is noticed only then). *)
WaitFails == call.timed /\ "pending" \in Reads(call.future)

(* A wait that succeeds, and an error code of CASS_OK after it.  The       *)
(* variant looks at the error code without waiting.                        *)
Succeeds_Unwaited == Reads(call.future) \cap {"ok", "pending"} # {}

Succeeds == "ok" \in Reads(call.future)

(* HASH_FIND on EG(persistent_list), with the test of the entry's type.    *)
(* The variant never recognises an entry as a session.                     *)
Listed_WrongType(k) == FALSE

Listed(k) == heap.ptr[k] # NULL

(* Who frees a connect future: the object or method that created it, or,   *)
(* for a persistent cluster, the list entry.  The variant forgets that.    *)
OwnsFuture_Always(persist) == TRUE

OwnsFuture(persist) == ~persist

(* What is left of the heap and of the object table after PHP releases the *)
(* last reference to DefaultSession object d.  Without a free handler the  *)
(* memory goes but the reference it held is never given back.              *)
FreeSession(h, d) == IF free_installed THEN DelPeref(h, d) ELSE h

ForgetSession(d) ==
  [ds EXCEPT ![d] = IF free_installed THEN NoSession ELSE [@ EXCEPT !.st = "leaked"]]

(* php_driver_session_dtor, run by HASH_DEL and by the destruction of the  *)
(* list: free the future, drop the reference, decrement the counter.  The  *)
(* variants miss the reference, the future and the test for an entry.      *)
DtorHeap_Missed(k) == heap

DtorHeap(k) == DelPeref(heap, k)

DtorFreed_Forgets(k) == frees

DtorFreed(k) ==
  IF Listed(k) THEN FutureFree(heap.ptr[k]) ELSE frees

DtorCounter_Unguarded(k) == persistent_sessions - 1

DtorCounter(k) == persistent_sessions - (IF Listed(k) THEN 1 ELSE 0)

-----------------------------------------------------------------------------
(* The part connect and connectAsync share: slot o gets the listed session *)
(* of key k, or a new one, which a persistent cluster adds to the list.    *)
Reuse(o, k, p, s) ==
  /\ p /\ Listed(k) /\ s = heap.ptr[k]
  /\ heap' = AddRef(heap, o, s)
  /\ UNCHANGED <<future, persistent_sessions>>

OpenNew(o, k, p, s) ==
  /\ ~(p /\ Listed(k))
  /\ heap.status[s] = "unused"
  /\ heap' = IF p THEN AddRef(NewPeref(heap, o, s), k, s) ELSE NewPeref(heap, o, s)
  /\ future' = [future EXCEPT ![s] = "pending"]
  /\ persistent_sessions' = persistent_sessions + (IF p THEN 1 ELSE 0)

Acquire(o, k, p, s) == Reuse(o, k, p, s) \/ OpenNew(o, k, p, s)

-----------------------------------------------------------------------------
(* Cluster::connect, up to the wait.                                       *)
Connect(d, k, p, timed, s) ==
  /\ Idle /\ ds[d].st = "absent"
  /\ Acquire(d, k, p, s)
  /\ ds' = [ds EXCEPT ![d] = [st |-> "building", persist |-> p, key |-> k]]
  /\ call' = [op |-> "connect", d |-> d, f |-> NULL, future |-> s, timed |-> timed]
  /\ UNCHANGED <<frees, closed, fs, running, reported, free_installed>>

(* connect throws TimeoutException: the list keeps a persistent attempt.   *)
(* The variant cancels the attempt, which others may be waiting for.       *)
ConnectTimeout_Cancels ==
  /\ call.op = "connect" /\ WaitFails
  /\ future' = [future EXCEPT ![call.future] = "none"]
  /\ heap' = FreeSession(heap, call.d)
  /\ ds' = ForgetSession(call.d)
  /\ call' = NoCall
  /\ UNCHANGED <<frees, closed, fs, persistent_sessions, running, reported,
                 free_installed>>

ConnectTimeout ==
  LET d == call.d IN
  /\ call.op = "connect" /\ WaitFails
  /\ frees' = IF OwnsFuture(ds[d].persist) THEN FutureFree(call.future) ELSE frees
  /\ heap' = FreeSession(heap, d)
  /\ ds' = ForgetSession(d)
  /\ call' = NoCall
  /\ UNCHANGED <<future, closed, fs, persistent_sessions, running, reported,
                 free_installed>>

(* connect throws the connection error and evicts a persistent attempt.    *)
ConnectError ==
  LET d == call.d
      k == ds[d].key IN
  /\ call.op = "connect" /\ "error" \in Reads(call.future)
  /\ IF ds[d].persist
       THEN /\ heap' = FreeSession(DtorHeap(k), d)
            /\ frees' = DtorFreed(k)
            /\ persistent_sessions' = DtorCounter(k)
            /\ reported' = reported \cup {call.future}
       ELSE /\ heap' = FreeSession(heap, d)
            /\ frees' = FutureFree(call.future)
            /\ UNCHANGED <<persistent_sessions, reported>>
  /\ ds' = ForgetSession(d)
  /\ call' = NoCall
  /\ UNCHANGED <<future, closed, fs, running, free_installed>>

ConnectOK ==
  /\ call.op = "connect" /\ Succeeds
  /\ ds' = [ds EXCEPT ![call.d].st = "user"]
  /\ call' = NoCall
  /\ UNCHANGED <<heap, future, frees, closed, fs, persistent_sessions,
                 running, reported, free_installed>>

-----------------------------------------------------------------------------
(* Cluster::connectAsync.                                                  *)
ConnectAsync(f, k, p, s) ==
  /\ Idle /\ fs[f].st = "absent"
  /\ Acquire(f, k, p, s)
  /\ fs' = [fs EXCEPT ![f] = [st |-> "live", persist |-> p, key |-> k, future |-> s,
                              exception |-> FALSE, default_session |-> NULL]]
  /\ UNCHANGED <<frees, closed, ds, call, running, reported, free_installed>>

(* Nothing stored by an earlier get: neither an exception nor a session.   *)
(* The variant only looks for the session.                                 *)
Unsettled_NoException(f) == fs[f].default_session = NULL

Unsettled(f) == ~fs[f].exception /\ fs[f].default_session = NULL

(* FutureSession::get.  A stored exception is thrown again with no other   *)
(* effect; a session returned before is returned again.                    *)
GetAgain(f) ==
  /\ Idle /\ fs[f].st = "live"
  /\ ~fs[f].exception /\ fs[f].default_session # NULL
  /\ ds' = [ds EXCEPT ![fs[f].default_session].st = "user"]
  /\ UNCHANGED <<heap, future, frees, closed, fs, persistent_sessions, call,
                 running, reported, free_installed>>

Get(f, d, timed) ==
  /\ Idle /\ fs[f].st = "live" /\ Unsettled(f)
  /\ ds[d].st = "absent"
  /\ heap' = AddRef(heap, d, heap.ptr[f])
  /\ ds' = [ds EXCEPT ![d] = [st |-> "building", persist |-> fs[f].persist,
                              key |-> fs[f].key]]
  /\ call' = [op |-> "get", d |-> d, f |-> f, future |-> fs[f].future, timed |-> timed]
  /\ UNCHANGED <<future, frees, closed, fs, persistent_sessions, running,
                 reported, free_installed>>

GetTimeout ==
  /\ call.op = "get" /\ WaitFails
  /\ heap' = FreeSession(heap, call.d)
  /\ ds' = ForgetSession(call.d)
  /\ call' = NoCall
  /\ UNCHANGED <<future, frees, closed, fs, persistent_sessions, running,
                 reported, free_installed>>

(* A persistent future keeps the error for later calls of get, evicts what *)
(* the list has under its key and forgets the CassFuture if there was one. *)
GetError ==
  LET d == call.d
      f == call.f
      k == fs[f].key IN
  /\ call.op = "get" /\ "error" \in Reads(call.future)
  /\ IF fs[f].persist
       THEN /\ heap' = FreeSession(DtorHeap(k), d)
            /\ frees' = DtorFreed(k)
            /\ persistent_sessions' = DtorCounter(k)
            /\ fs' = [fs EXCEPT ![f].exception = TRUE,
                                ![f].future = IF Listed(k) THEN NULL ELSE @]
            /\ reported' = reported \cup {call.future}
       ELSE /\ heap' = FreeSession(heap, d)
            /\ UNCHANGED <<frees, persistent_sessions, fs, reported>>
  /\ ds' = ForgetSession(d)
  /\ call' = NoCall
  /\ UNCHANGED <<future, closed, running, free_installed>>

GetOK ==
  /\ call.op = "get" /\ Succeeds
  /\ ds' = [ds EXCEPT ![call.d].st = "user"]
  /\ fs' = [fs EXCEPT ![call.f].default_session = call.d]
  /\ call' = NoCall
  /\ UNCHANGED <<heap, future, frees, closed, persistent_sessions, running,
                 reported, free_installed>>

-----------------------------------------------------------------------------
(* Session::close and closeAsync: no-ops on a persistent session.  close   *)
(* waits for a future of its own, which it frees whatever the outcome.     *)
(* The variant closes any session.                                         *)
Close_Any(d) ==
  /\ Idle /\ ds[d].st = "user"
  /\ closed' = [closed EXCEPT ![heap.ptr[d]] = TRUE]
  /\ UNCHANGED <<heap, future, frees, ds, fs, persistent_sessions, call,
                 running, reported, free_installed>>

Close(d) ==
  /\ Idle /\ ds[d].st = "user" /\ ~ds[d].persist
  /\ closed' = [closed EXCEPT ![heap.ptr[d]] = TRUE]
  /\ UNCHANGED <<heap, future, frees, ds, fs, persistent_sessions, call,
                 running, reported, free_installed>>

(* PHP code drops its last reference to a DefaultSession; the object stays *)
(* if a FutureSession still holds it as its default_session.               *)
DropSession(d) ==
  /\ Idle /\ ds[d].st = "user"
  /\ IF \E f \in FSess : fs[f].default_session = d
       THEN /\ ds' = [ds EXCEPT ![d].st = "cached"]
            /\ UNCHANGED heap
       ELSE /\ ds' = ForgetSession(d)
            /\ heap' = FreeSession(heap, d)
  /\ UNCHANGED <<future, frees, closed, fs, persistent_sessions, call,
                 running, reported, free_installed>>

(* PHP code drops a FutureSession: php_driver_future_session_free, which   *)
(* releases the default_session too, or nothing without the free handler.  *)
DropFuture(f) ==
  LET d == fs[f].default_session
      last == d # NULL /\ ds[d].st = "cached" IN
  /\ Idle /\ fs[f].st = "live"
  /\ IF free_installed
       THEN /\ fs' = [fs EXCEPT ![f] = NoFuture]
            /\ frees' = IF OwnsFuture(fs[f].persist) /\ fs[f].future # NULL
                         THEN FutureFree(fs[f].future) ELSE frees
            /\ heap' = IF last THEN FreeSession(DelPeref(heap, f), d)
                       ELSE DelPeref(heap, f)
            /\ ds' = IF last THEN ForgetSession(d) ELSE ds
       ELSE /\ fs' = [fs EXCEPT ![f].st = "leaked"]
            /\ UNCHANGED <<frees, heap, ds>>
  /\ UNCHANGED <<future, closed, persistent_sessions, call, running, reported,
                 free_installed>>

(* The I/O thread resolves a connection attempt.                           *)
Resolve(s, o) ==
  /\ future[s] = "pending"
  /\ future' = [future EXCEPT ![s] = o]
  /\ UNCHANGED <<heap, frees, closed, ds, fs, persistent_sessions, call,
                 running, reported, free_installed>>

(* The worker ends after its last request; the engine then destroys the    *)
(* persistent list, entry by entry.                                        *)
Shutdown ==
  /\ Idle
  /\ \A d \in DSess : ds[d].st # "user"
  /\ \A f \in FSess : fs[f].st # "live"
  /\ running' = FALSE
  /\ UNCHANGED <<heap, future, frees, closed, ds, fs, persistent_sessions,
                 call, reported, free_installed>>

DestroyEntry(k) ==
  /\ ~running /\ Listed(k)
  /\ heap' = DtorHeap(k)
  /\ frees' = DtorFreed(k)
  /\ persistent_sessions' = DtorCounter(k)
  /\ UNCHANGED <<future, closed, ds, fs, call, running, reported,
                 free_installed>>

Terminated ==
  /\ ~running /\ \A k \in Key : ~Listed(k)
  /\ UNCHANGED vars

Return == \/ ConnectTimeout \/ ConnectError \/ ConnectOK
          \/ GetTimeout \/ GetError \/ GetOK

Next ==
  \/ \E k \in Key, p \in BOOLEAN, s \in Sess :
        \/ \E d \in DSess, timed \in BOOLEAN : Connect(d, k, p, timed, s)
        \/ \E f \in FSess : ConnectAsync(f, k, p, s)
  \/ Return
  \/ \E f \in FSess : \/ \E d \in DSess, timed \in BOOLEAN : Get(f, d, timed)
                      \/ GetAgain(f)
                      \/ DropFuture(f)
  \/ \E d \in DSess : Close(d) \/ DropSession(d)
  \/ \E s \in Sess, o \in Outcome : Resolve(s, o)
  \/ Shutdown
  \/ \E k \in Key : DestroyEntry(k)
  \/ Terminated

(* The I/O thread resolves every attempt (the driver bounds each with its  *)
(* connect timeout), and a wait returns once its future is ready.          *)
Fairness ==
  /\ \A s \in Sess : WF_vars(\E o \in Outcome : Resolve(s, o))
  /\ WF_vars(Return)

Spec == Init /\ [][Next]_vars

FairSpec == Spec /\ Fairness

-----------------------------------------------------------------------------
(* The shapes of all variables.  persistent_sessions is shown by phpinfo() *)
(* and must not become negative.                                           *)
TypeOK ==
  /\ HeapType(heap, Slot, Sess)
  /\ future \in [Sess -> {"none", "pending", "ok", "error"}]
  /\ frees \in [Sess -> Nat]
  /\ closed \in [Sess -> BOOLEAN]
  /\ ds \in [DSess -> [st : {"absent", "building", "user", "cached", "leaked"},
                       persist : BOOLEAN, key : Key \cup {NULL}]]
  /\ fs \in [FSess -> [st : {"absent", "live", "leaked"}, persist : BOOLEAN,
                       key : Key \cup {NULL}, future : Sess \cup {NULL},
                       exception : BOOLEAN, default_session : DSess \cup {NULL}]]
  /\ persistent_sessions \in Nat
  /\ call \in [op : {"none", "connect", "get"}, d : DSess \cup {NULL},
               f : FSess \cup {NULL}, future : Sess \cup {NULL}, timed : BOOLEAN]
  /\ running \in BOOLEAN
  /\ reported \subseteq Sess \cup {NULL}
  /\ free_installed \in BOOLEAN

(* A session's reference count is the number of objects and list entries   *)
(* that point to it, and cass_session_free runs exactly when the last goes *)
(* (ref.c, through every path of connect, connectAsync, get and the free   *)
(* handlers, the failing ones included).                                   *)
RefCountExact == HeapOK(heap, Slot, Sess)

(* No DefaultSession, FutureSession or list entry points to a CassSession  *)
(* that has been freed: a session survives the others that shared it.      *)
NoDanglingSession ==
  \A o \in Slot : heap.ptr[o] # NULL => heap.status[heap.ptr[o]] = "live"

(* cass_future_free is called at most once on a connect future, although   *)
(* the list entry, connect and the FutureSession all keep a pointer to it. *)
NoDoubleFree == \A s \in Sess : frees[s] <= 1

ListedKeys(ptr) == {k \in Key : ptr[k] # NULL}

(* The number phpinfo() shows is the number of sessions in the list.       *)
CounterExact == persistent_sessions = Cardinality(ListedKeys(heap.ptr))

(* Once connect or get has thrown a connection error, the failed session   *)
(* is no longer in the list: the next connect makes a new attempt.         *)
FailureNotListed == \A s \in reported, k \in Key : heap.ptr[k] # s

(* Session::close never reaches a session that is in the list or that was  *)
(* handed out by a persistent cluster, whoever shares it.                  *)
PooledNeverClosed ==
  /\ \A k \in Key : Listed(k) => ~closed[heap.ptr[k]]
  /\ \A d \in DSess : ds[d].persist => ~closed[heap.ptr[d]]

(* FutureSession::get sets self->future to NULL when it evicts a failed    *)
(* attempt; no later call waits on that NULL.                              *)
NeverWaitsOnNull == call.op # "none" => call.future # NULL

(* An entry of the list is never overwritten by another session: HASH_UPDATE *)
(* only adds keys, because connect and connectAsync look first.            *)
EntryNeverReplaced ==
  [][\A k \in Key : heap.ptr[k] # NULL => heap'.ptr[k] \in {NULL, heap.ptr[k]}]_vars

(* An eviction frees the future of the attempt and ends its sharing.       *)
Evicted(s) == frees[s] > 0

(* Sessions of the same key that PHP code holds at the same time share one *)
(* CassSession, the one in the list, until it is evicted; and a session    *)
(* PHP code got from connect or get is connected, whichever timeouts and   *)
(* shared attempts came before, unless get read its future after another   *)
(* call had evicted the attempt.                                           *)
SharedSession ==
  \A d \in DSess : ds[d].st = "user" =>
    LET s == heap.ptr[d]
    IN  \/ ds[d].persist /\ Evicted(s)
        \/ /\ future[s] = "ok"
           /\ ds[d].persist => s = heap.ptr[ds[d].key]

(* The connect future of a persistent attempt lives exactly as long as the *)
(* list has the attempt.  The entry frees it once, when a failure evicts   *)
(* it or the list is destroyed, whoever still shares the session: nothing  *)
(* connect finds in the list has been freed, and no such future is left at *)
(* the worker's end, although objects of the PHP 8 build never let go.     *)
FutureFollowsEntry ==
  LET Follows(s, k) == frees[s] = IF heap.ptr[k] = s THEN 0 ELSE 1
  IN  /\ \A d \in DSess : ds[d].persist => Follows(heap.ptr[d], ds[d].key)
      /\ \A f \in FSess : fs[f].persist => Follows(heap.ptr[f], fs[f].key)

Ended == ~running /\ \A k \in Key : ~Listed(k)

(* What features/README.md says of persistent sessions: "Once a worker     *)
(* process has reached its end of life, sessions will get cleaned up       *)
(* automatically".  After the worker's last request and the destruction of *)
(* the list, no CassSession that a persistent cluster opened is left.      *)
WorkerEndCleansUp ==
  Ended => /\ \A d \in DSess : ds[d].persist => heap.status[heap.ptr[d]] = "freed"
           /\ \A f \in FSess : fs[f].persist => heap.status[heap.ptr[f]] = "freed"

(* Every connect and every get returns: a wait without timeout ends when   *)
(* the I/O thread resolves the attempt, even one that others timed out on. *)
CallReturns == call.op # "none" ~> call.op = "none"
=============================================================================
