# A TLA+ model of the PHP driver for Apache Cassandra

The repository is a PHP extension (`ext/`) around the DataStax C/C++ driver. A
PHP script builds a cluster, connects, executes statements and reads rows; the
extension maps PHP objects to handles of the C/C++ driver and keeps some of them
alive across requests in the engine's persistent list. This directory holds
TLA+ modules about the handles the extension owns, the values it converts and the
requests it puts together, the configurations that check them with TLC, and proofs
checked by TLAPS.

## The system

### Who runs

* One **PHP thread** per worker runs the methods. It blocks in
  `php_driver_future_wait_timed` (`ext/util/future.c`) and nowhere else.
* The **I/O thread** of the C/C++ driver resolves futures at any moment, also
  while the PHP thread is blocked and after it has given up waiting.
* A worker may **fork**, and several processes log and generate UUIDs.
* The **Zend engine** frees an object when its last reference goes and destroys
  the entries of `EG(persistent_list)` when the worker ends.

The methods of the PHP thread are not interrupted by each other; what makes the
code hard is that a handle is shared by objects with unrelated lifetimes, that
the I/O thread answers at any time, and that a wait may end by timeout, by an
error or by success and every one of the three has its own clean-up path.

### Components

| Component (sources) | State | Operations | What makes it correct | Module |
|---|---|---|---|---|
| Reference counts (`util/ref.c`) | `php_driver_ref.count` per handle | new, add, del | a count is the number of pointers; a handle is destroyed when the last goes, and only then | `RefCount` |
| Persistent sessions (`DefaultCluster.c`, `FutureSession.c`, `DefaultSession.c`, `php_driver.c`) | list entries, their future, the counter, session references | `connect`, `connectAsync`, `get`, `close`, free handlers, list destructor | shared sessions are connected, not closed, not freed in use; failed attempts are evicted once; the counter is right | `PersistentSession` |
| Persistent clusters (`Cluster/Builder.c`, `DefaultCluster.c`) | list entries, CassCluster handles, the counter | `build`, the `with` methods, free handler, list destructor | equal configurations share a cluster; a session has the settings asked for; settings go together | `PersistentCluster`, `ClusterBuilder` |
| Queries and paging (`DefaultSession.c`, `FutureRows.c`, `Rows.c`, `util/result.c`) | statement's paging state, results, futures, links between pages | `execute`, `executeAsync`, `get`, `nextPage`, `nextPageAsync`, `isLastPage` | pages in order, none skipped; no future freed twice or forgotten | `PagedRows` |
| Iterating over rows (`Rows.c`) | internal pointer of the array of rows | `rewind`, `valid`, `next`, `first` | an object's loop sees each row once | `Containers` |
| Statements, batches, prepared statements, execution options (`DefaultSession.c`, `ExecutionOptions.c`, `BatchStatement.c`, `FuturePreparedStatement.c`) | options, session defaults, entries of a batch | `execute`'s option handling, `add`, `prepare`, `prepareAsync` | the request that is sent is the one asked for; an option wins over a default | `Requests` |
| Collections (`Set.c`, `Map.c`, `Collection.c`, `Tuple.c`, `UserTypeValue.c`, `util/hash.c`) | tables and arrays, iterator pointers | add, remove, set, loop, compare | a loop survives changes and misses nothing; equality is that of the contents | `Containers` |
| Hash table (`util/uthash.h`, `util/hash.c`) | buckets, chains, cached hashes | find, add, delete, expand | it is a set of values | `HashTable`, `ValueSet` |
| Binding and decoding (`util/collections.c`, `util/result.c`) | handles of the driver | conversion, validation | what is bound is what is decoded; handles are freed on failure | `Types`, `TypedValues` |
| Numbers (`Bigint.c`, `Smallint.c`, `Tinyint.c`, `Varint.c`, `Decimal.c`, `Float.c`, `util/math.c`) | values | arithmetic, parsing, encoding | exact or an exception; text and bytes read back | `Positional`, `Numbers`, `Values` |
| Dates, blobs, addresses (`Date.c`, `Time.c`, `Timestamp.c`, `Duration.c`, `Blob.c`, `Inet.c`, `util/inet.c`) | values | conversions, the address parser | no silent wrap-around; an address is what was written | `Scalars`, `InetParser`, `Values` |
| Types (`Type/*.c`, `util/types.c`) | type trees | create, compare, parse, validate | a parsed name is the name written; a value fits its type | `ClassNames`, `Types`, `TypedValues` |
| Schema metadata (`Default*.c`) | references on a schema snapshot, caches | lookups | no object outlives its snapshot; keys agree | `Schema` |
| Log and UUIDs (`php_driver.c`, `util/uuid_gen.c`) | `log_location` behind a lock; the generator and its pid | callback, INI change, fork, generate | no reader sees a half-made change; no two processes share a generator | `Process` |
| Retry policies, timestamp generators, SSL options, exceptions | one handle, or none | constructors | - | not modelled |

`PROJECT.json` lists the same components with their files, the definitions of
the modules with the lines they model, and the places of the code where tests
hardly reach (`hazards`) with the properties about them.

### Interactions

`Builder::build` puts a `CassCluster` in the list under `hash_key`; the
`DefaultCluster` borrows it, uncounted. `connect` extends that key by the keyspace
and looks for a `psession` (session reference plus connect future) in the same
list. The session reference is counted, the future is not: the list entry frees
it when it is evicted, while `FutureSession` objects keep plain copies of the
pointer. `DefaultSession::execute` creates a statement, a future and a result,
and hands counted references to the `Rows` or `FutureRows` it returns. All pages
of a query share the one statement, into which `nextPage` writes the position it
wants.

## The modules

### RefCount

`new_peref`, `add_ref` and `del_peref` as operators on a heap: which handle every
slot (a `php_driver_ref*` field) points to, the count, and whether the handle is
unused, live or freed. `HeapOK` says that the counts are exact. The operators are
pure so that one action can move several references, as the methods do.

### PersistentSession

| TLA+ | code |
|---|---|
| `heap` | the references on each `CassSession`: slots are the `session` fields of `DefaultSession` (`DSess`), `FutureSession` (`FSess`) and `php_driver_psession` (`Key`) |
| `future`, `frees` | state of a session's connect future; calls of `cass_future_free` on it |
| `ds`, `fs` | the PHP objects and the fields the methods use |
| `call` | the method the PHP thread is blocked in, with the future it passed to the wait |
| `persistent_sessions` | `PHP_DRIVER_G(persistent_sessions)` |
| `free_installed` | which build it is, chosen at the start among `Builds` |
| `closed`, `running`, `reported` | calls of `cass_session_close`; the worker is alive; failures thrown by persistent clusters |

`Connect` and `Get` are the methods up to the wait; `ConnectTimeout`, `ConnectError`,
`ConnectOK` and the same three for `get` are the ways out, each with the whole
clean-up of that path, the release of the half-built object by the engine included.
`ConnectAsync`, `GetAgain`, `Close`, `DropSession`, `DropFuture`, `Shutdown` and
`DestroyEntry` do not block. `Resolve` is the I/O thread.

`free_installed` is the build. The macro `PHP5TO7_ZEND_OBJECT_INIT_EX` of the
PHP 5 branch of `php_driver.h` (lines 335-346) registers the free handler of a
class; the branch for PHP 7 and later (179-184) does not, and of the classes modelled
here only `DefaultCluster` (`DefaultCluster.c:325`) installs its own. `config.m4`
asks for PHP 8.3, so `FALSE` is the extension as it is built and `TRUE` the
extension as its free handlers are written. What must hold is checked in both; what the
build as it is breaks, that no session outlives the worker, is a violated run.

Reading a future after `cass_future_free` is undefined: `Reads` then offers every
answer. On the success path of a non-persistent `connect` the code frees no future
(`DefaultCluster.c:130-132`), and neither does the model.

### PersistentCluster

`build` (`BuildCached`, `BuildNew`, `BuildFails`), `Connect` as far as the cluster is
concerned, the free handler and the list destructor. A configuration is everything
a builder can be told; `HashKey` maps it to a representative of the configurations
that print the same `hash_key`. `le_matches` is the outcome of the test at
`Builder.c:68`, which compares the *zval* type of an entry (`IS_RESOURCE`) with a
resource id: the ids are given out while PHP loads its extensions, so it holds or
fails for the whole life of the process. Settings of a freed `CassCluster` may be
anything (`Settings`).

### PagedRows

| TLA+ | code |
|---|---|
| `heap` | references on the session, the statement and every result; slots are the fields of `Rows` and `FutureRows` and the script's session |
| `position` | paging state stored in the `CassStatement` |
| `reqs`, `frees` | requests (a `CassFuture` and its `CassResult`), the page each asks for; calls of `cass_future_free` |
| `rows`, `futs` | the objects: who holds them, `future_next_page`, and (history) the page they contain and the page they came from |
| `call` | the blocked method |

A request ends as `"ok"`, `"error"`, or `"garbled"`: it arrives but
`php_driver_get_result` cannot decode it, which has clean-up paths of its own. The
C/C++ driver is taken to copy the paging state when `cass_session_execute` is
called; the extension relies on that.

### Containers

The six classes a script can loop over, two objects of one class at a time. An entry
is a number, given in the order of creation; since `uthash` and PHP arrays append,
that number also gives the order of the list, and `hh.next` is the next larger one.

| TLA+ | code |
|---|---|
| `entries`, `key`, `val` | the `uthash` table of `Set` and `Map`; the PHP array `values` of the others (an index, or a field number, is the key) |
| `iter_curr`, `iter_temp` | the same fields of `Set` and `Map` |
| `pos` | the internal pointer of the array of a `Collection` or a page of rows; the field `pos` of `Tuple` and `UserTypeValue` |
| `array` | which array an object uses: asking twice for a page gives two `Rows` objects around one array |
| `seen`, `lasting`, `jumped` | history: what a loop was given, what has been there since its rewind, whether a `Collection` loop's current element was removed |

Removing the element at the internal pointer of a PHP array moves the pointer to the
next one, which the following `next` then passes over: a loop over a `Collection` that
removes its current element skips one. `Set` and `Map` loops, which keep their own two
pointers, do not. Elements and keys are scalars or immutable value objects: in PHP 8
no container installs the `hash_value` handler that `util/hash.c` calls for objects.
`Map` and `Collection` also install no `compare` there, and `StandardCompare` is the
engine's, for objects whose property table was never built (`var_dump` builds it).
`Rows::first` changes nothing and is not an action; it reads at the internal pointer,
so that after `next` it does not return the first row the documentation promises.

### HashTable and ValueSet

`uthash` as `Set` uses it: `list` is the table's list in insertion order, `buckets` the
chains, `mult` and `expand` the bookkeeping of `HASH_EXPAND_BUCKETS` (`expand_mult`,
`ineff_expands`, `noexpand`), `hashv` the hash cached in every entry. `InitialBuckets` and
`Threshold` stand for 32 and 10. The hash and the comparison are those a class has in
the PHP 8 build, read from its `define` function (`Bigint_define` and so on). `Date`,
`Uuid`, `Blob` and `Inet` install no `hash_value`, and using one as a key ends the process
(`Crash`). `Smallint`, `Tinyint`, `Time`, `Timestamp` and `Timeuuid` declare their handlers as the
engine's `zend_object_handlers`, so that the `hash_value` the set reads lies behind the table
(`"beyond"`): whatever is called there is no hash function, and the model stops there too. `Varint`, `Decimal`, `Float` and `Duration` have a hash but no
`compare`, and the engine then takes any two objects for equal whose property tables
were never built (`Dump` builds one). `ChangeKey` is `Decimal::add` rescaling an object that
is already in a set. `ValueSet` is the promise: a set with add, delete and lookup.
`ImplementsSet` is the refinement, `INSTANCE ValueSet` with the values of the list for the
set, for the classes that have their handlers. An expansion takes each chain from its head
into the new ones (`TakenFromHead`).

### Positional, Numbers, Scalars, InetParser and Values

Pure operators for every constructor, method and conversion. The widths of `Tinyint`,
`Smallint`, `int` and `Bigint` are `TinyBits`, `SmallBits`, `IntBits` and `LongBits`. A method
returns a value with an exception (or `"SIGFPE"`), a set of these where the C code is
undefined. A decimal text is its sign, digits and exponent; `php_driver_parse_decimal`,
`php_driver_format_decimal`, `export_twos_complement` and `import_twos_complement` work on
digits and bytes as the code does (among them the `E` that `math.c:356` copies with the digits
when a text has both a dot and an exponent, so that no such text is a number). `Bigint::sqrt`
computes in a double, whose mantissa has `DoubleBits` (`ToDouble`, `SqrtToLong`); what digits in a base are is in `Positional`, with powers and
the number that digits spell as recursive functions. Dates and times run on a clock of
`DaySeconds`, `NsPerSecond` and `Milli`. `InetParser` has one operator per state of
`php_driver_parse_ip_address`; an address has `V6Length` or `V4Length` bytes (16 and 4 in the
driver's header). `Values` is the program: it constructs an object (`self`) and a second one of
the same class (`num`, the operand of the methods with one), calls, writes, reads back, and
gives an address to the parser token by token. What it gives to constructors is drawn from the
constants `VarintMags`, `IntParts`, `FracParts`, `Exponents`, `Fractions`, `Seconds`,
`Microseconds`, `Params` and `Blobs`, which `InputsAssumption` says are numbers, digits and bytes.

### ClassNames, Types and TypedValues

`ClassNames` is the tokenizer and the state machine of `php_driver_parse_class_name`, node by
node, and what `php_driver_create_type` makes of the tree. `Types` has the comparison of
types, validation, the `create` methods, binding (`php_driver_collection_append`,
`php_driver_tuple_set`, `php_driver_user_type_set` and the functions that walk a container)
and decoding (`php_driver_value`). Bound data are kept as a tree with the encoding each
leaf was written in, and `lost` counts the handles the code forgets. `TypedValues` builds a
type, by the methods of `Type` or by parsing, makes a value of it, binds it for a column
of the same or an equal type, and decodes.

### Schema

`Session::schema` takes a snapshot, and every metadata object adds a reference (a slot of
`RefCount`'s heap) and keeps a raw pointer, `meta`, into it. `ByName`, `Every` and `Cached` are the
three shapes the lookups have; there is one operator per method. What a getter returns is told
apart by the version of the schema it is read from (`Read`) and by nothing else. `Alter` lets the cluster
change its schema between two snapshots. `FreeInstalled` lists the classes whose `define`
function sets `free_obj`; objects of the other classes are `leaked` when dropped, with their
reference. An object that is not allocated is `NoObject`, and a snapshot not yet taken has
version 0. `CatalogAssumption` states what the driver's metadata promise.

### ClusterBuilder and Requests

`ClusterBuilder` has one operator per `with` method (from builder and arguments to builder
and acceptance) and the calls `build` makes on the driver. `Requests` goes on to the cluster, the
session (by `connect` or by `connectAsync` and `get`, which copy different defaults), prepared
statements, batches and the request handed to the driver. A PHP value is a record of its
type and contents; a string is a sequence of parts, cut at its NULs where it is bound; a C `int`
has `IntRange` values. Arguments are bound by position or by name, as their keys in the PHP array
say. Which of them a prepared statement accepts is up to the driver: `Markers` gives the names and
types of its markers. Undefined behaviour ends a behaviour
(`outcome = "undefined"`). Its initial states and steps are `RequestsInit` and `RequestsNext`, so
that one module can prove about it, `PersistentCluster` and `Process`; `Null` declares the `NULL` the
first two use.

### Process

`log_lock`, `log_location` and the strings ever allocated; `OnUpdateLog` in four steps (lock,
free, store, unlock), `php_driver_log` in five per I/O thread. `registered` is chosen at the
start: the module entry says `NO_MODULE_GLOBALS`, so the engine never calls `GINIT`, which would
register the callback. `Fork` copies `uuid_gen` and `uuid_gen_pid` to a child with a free pid,
`Exit` frees a pid, and `get_uuid_gen` compares pids.

## The runs

| Run | Instance | Shows |
|---|---|---|
| `sessions` | 2 keys, 2 sessions, 2 + 2 objects, with and without free handlers, fairness | counts exact, no double free, counter exact, pooled sessions never closed, no wait on NULL, sessions handed out connected and shared unless evicted, a reported failure never listed, a connect future freed exactly when its entry goes, no entry replaced, every `connect` and `get` returns |
| `paging` | 3 pages, 3 requests, 3 Rows, 2 FutureRows, with and without free handlers | counts exact, pages in order, `isLastPage` right and "Unexpected future instance" impossible, futures freed once, none forgotten but those of requests of `nextPage` that failed |
| `clusters` | 3 configurations with 2 keys, 4 handles, 3 objects, either answer of the type test | counter exact, no double free; sharing and settings right when the test recognises entries |
| `containers` | 2 objects of each class, 3 keys, 2 values, 2 fields, 3 rows, 4 entries | a loop never follows a freed entry, is given everything that stays, in order and once; when comparison is right; list indexes not reused |
| `values` | widths of 2, 3, 4 and 5 bits, a mantissa of 3, every class | arithmetic exact or an exception, constructors store what they are given, text, bytes and fields read back, addresses parsed as written; each up to the exceptions its comment names |
| `hashtable` | 4 values that collide, 4 entries, 2 buckets, chains of 2, 15 classes | the table's own consistency check (`HASH_FSCK`), and the refinement of `ValueSet` |
| `types` | nesting of 2, 2 fields, texts of 8 tokens | the parser attaches names where they were written; what is bound is decoded; handles are accounted for |
| `schema` | 2 versions, 2 snapshots, 4 objects of any classes, 6 where the keys of one table or view are asked for | no object points into a freed snapshot; the cached keys agree |
| `requests` | 2 `with` calls with 19 arguments, 2 batch entries, 9 lists of arguments, by position and by name, 2 markers, every valid and invalid option | consistent settings; the request sent is the one asked for, each argument included |
| `process` | 2 I/O threads, 2 changes, 3 processes, 2 pids, 2 UUIDs | a whole log location is read; UUIDs differ between processes of different pids |
| `sessions_end` | as `sessions`, without free handlers | *violated*: after the worker's end a session is still open |
| `requests_defaults` | as `requests` | *violated*: a session from `connectAsync` ignores the default consistency |

The two violated properties are what the documentation promises; `findings` in `PROJECT.json`
quotes the sentences and names the lines of code.

### Bounds

* Keys: two are needed for one key's eviction to be able to disturb another.
* Sessions: two let a failed attempt and its replacement, or two keys' attempts, exist
  together, with two objects of each kind sharing either; sessions are not reused after they
  are freed, so this is also the length of the history.
* Objects: two of a class share or race, and objects are reused after they are
  freed, so behaviours are longer than their number suggests.
* Pages and requests: three pages give a first, a middle and a last page; `MaxReq`
  bounds the requests: three reach the last page, or repeat one before
  it; with four the instance is too large.
* Entries: four let a loop over three elements meet one removal and one addition, at
  every place; `MaxNext` is one more, so that every loop can reach its end.
* Clusters: `c1` and `c2` differ in a printed setting, `c1` and `hidden` only in one
  that is not printed: all the ways in which two configurations can be related.
* Widths: 2 to 5 bits keep the order tiny < small < int < long, so that every
  conversion between widths can lose a bit. `VarintMags` adds magnitudes around one and
  two bytes, where the encoding changes its length.
* `DoubleBits` = 3 is less than `LongBits` by two, so that a `Bigint` just below a square is
  rounded up to it and its root comes out one too large, as 2^60 - 1 gives 2^30 with 53 and 64.
* `IntRange` is 2^18 instead of 2^32: above every constant the builder compares with.
* Hash values: 0, 4, 8 and -1 share buckets before and after an expansion; four entries
  expand a table of two buckets twice.
* `MaxTokens` = 8 closes two nested parentheses with a comma between; `MaxDepth` = 2 nests
  every container in every other.
* `MaxObjects` = 6: a keyspace, its table and the four columns of its three keys, so that
  partition, clustering and primary key are all cached and their order is compared (a schema
  object is dropped before and gives up its place). Beyond four objects (`SmallHeap`) the
  run goes on only where at most two are no columns and the schema has not changed
  (`Bounded`): the lifetimes of objects of any classes in two snapshots are covered by four
  (three where the snapshots are of the same version, which no definition tells apart).
* `MCArguments` has positions and names, in and out of the markers' order, of types the
  markers accept and refuse, texts with a NUL, numbers at both ends of an int and beyond.
* `MaxWith` = 2: a call and the
  one that should override it. `MaxAdd` = 2: an entry that binds and one that fails.
* `MaxUpdates`, `MaxUuids` = 2 and two pids for three processes: a pid is used again.

Symmetry is used for objects, handles and threads, which no definition tells apart, and
in no run that checks liveness (`sessions`). `schema` and `requests` leave the last answer out of the
fingerprint (`VIEW`), which no action reads.

### Fairness

`FairSpec` of `PersistentSession` asks for two things: a pending future is resolved at some
time (the C/C++ driver bounds connection attempts with its own timeout), and a
blocked method whose future is ready goes on (`cass_future_wait` returns). Nothing
is assumed about the script: it may stop calling at any time.

## What is proved

`RefCount_proofs`: `NewPeref`, `AddRef` and `DelPeref` keep the type and the exactness of
a heap, for any finite set of slots. `NewPeref` needs an empty slot and an unused
handle, `AddRef` an empty slot and a live handle, `DelPeref` nothing.

`PersistentSession_proofs`, for all finite sets of keys, sessions and objects, any
outcomes and both builds:

| Theorem | Statement |
|---|---|
| `TypeCorrect` | `Spec => []TypeOK`; in particular the unsigned counter is never decremented below zero |
| `RefCountsExact` | `Spec => []RefCountExact` |
| `NothingDangles` | `Spec => []NoDanglingSession`: nothing points to a freed session |
| `CounterCorrect` | `Spec => []CounterExact` |
| `NoNullWait` | `Spec => []NeverWaitsOnNull` |
| `EntriesKept` | `Spec => EntryNeverReplaced` |
| `FreedAtMostOnce` | `Spec => []NoDoubleFree` |
| `PooledStaysOpen` | `Spec => []PooledNeverClosed` |
| `FailureEvicted` | `Spec => []FailureNotListed` |
| `SessionsShared` | `Spec => []SharedSession` |
| `FuturesFollowEntries` | `Spec => []FutureFollowsEntry` |

The assumptions are the named ones of `PersistentSession`: finite sets, disjoint kinds of
slots, `NULL` distinct from all of them, outcomes among `"ok"` and `"error"`.

The first six follow from one inductive invariant
`Inv == TypeOK /\ RefCountExact /\ CounterExact /\ SlotsInUse /\ CallInv /\ FutureInv /\ DefaultInv`.
The first three are not inductive by themselves:

* a reference may only be stored into an empty slot, so `SlotsInUse` ties the state
  of each object to its slot;
* the ways out of a blocked call release `call.d`, so `CallInv` says that this is the
  one object under construction, and that its key is a key;
* `get` adds a reference to the future's session and passes on its future, so
  `FutureInv` says that a future without a stored exception still has one;
* dropping a `FutureSession` may release its `default_session`, so `DefaultInv` says that
  this object still exists and that no other future holds it.

There is one lemma per action. Shared parts have their own: `AcquireOK` (the common
half of `connect` and `connectAsync`), `DtorOK` (the list destructor), `ForgetOK` and
`FailInv` (the failing ways out), `ListedAdd` and `ListedRemove` (cardinality of the list).

The other six are about two owners of one future and need two more layers on top of `Inv`:

* `PoolInv`: a listed session is open, its future not freed, and listed once (`ListOK`); a
  future that an object will free belongs to that object alone (`OwnerOK`); a session is
  shared by objects of persistent clusters or by none (`KindOK`), so the object's way of
  freeing and the list's never meet; what a persistent object points to is listed under its
  key or was evicted (`PersistOK`); a reported failure was evicted (`ReportedOK`). From it
  come `FreedAtMostOnce`, `PooledStaysOpen`, `FailureEvicted` and `FuturesFollowEntries`: while a
  key lists the attempt its future is not freed, and an attempt that objects still point to
  without its being listed was evicted, which freed its future, once.
* `HandleInv`: the uncounted `CassFuture` pointers that a `FutureSession` and the blocked call
  have copied are those of the sessions they hold (`FuturesOK`, `CallFutureOK`), and a session
  PHP code was given is connected or was evicted (`ConnectedOK`). From it comes
  `SessionsShared`.

`Containers_proofs`, for any sets of objects, keys and values and any bounds:

| Theorem | Statement |
|---|---|
| `NextEntryAlwaysLive` | `Spec => []NextEntryLive` |
| `LoopsInOrder` | `Spec => []LoopOrder` |
| `LoopsComplete` | `Spec => []LoopComplete` |
| `IndexesNeverReused` | `Spec => []IndexesFresh` |
| `ComparisonExact` | `Spec => []EqualExact` |

The first has a small invariant of its own, `TempInv`: entries are natural numbers, an
object's array is one of the arrays, and a class that is not `Set` or `Map` never sets
`iter_temp` (its `remove` does not look at it). Its heart is `FollowingIn`, that the next entry
in a list is a member of it, which rests on the least-element principle of
`WellFoundedInduction`. The others follow from `CInv`: the types (`BaseInv`), what entries are
called (`KeysOK`), `IndexesFresh`, and one loop invariant for each way of looping. All three say
that what was seen is increasing and lies before the loop's place, and that every lasting
element was seen or is still ahead of that place; the place is `iter_temp` for a `Set` or `Map`
(`HashedLoop`), the array's internal pointer for a `Collection` or `Rows` (`ArrayLoop`), the field
`pos` for `Tuple` and `UserTypeValue` (`FieldsLoop`). `ComparisonExact` needs no history but
counting: the code compares the sizes of two sets and then looks up the elements of one,
which is equality because a subset of equal cardinality is the whole set (`SetCount`), and it
compares fields by their rank in the array, which determines them (`RankOfField`, `RankTells`).

`HashTable_proofs`, for any keys, any hash function, any capacity, threshold and number of
buckets:

| Theorem | Statement |
|---|---|
| `TableWellFormed` | `Spec => []HASH_FSCK` |
| `TableImplementsSet` | `Spec => ImplementsSet`, that is, `ValueSet`'s `Init /\ [][Next]` under the refinement mapping |

`TableInv` says that the list has no repetitions and that the buckets are well formed: every
chain holds, once, exactly the entries of the list whose recorded hash belongs there.
The step that matters is `HASH_EXPAND_BUCKETS`: the entries of a new chain all come from one
old chain because `(h % 2n) % n = h % n` (`ModHalf`, `BucketHalf`). The refinement adds, for the
classes with their own handlers, that a recorded hash is still the hash of its key and that
no key is listed twice (`OwnInv`); then the lookup in one chain decides membership in the
whole set, and each action maps to the step of `ValueSet` of the same name or to a stutter.

`Driver_proofs` is about `PersistentCluster`, `Requests` and `Process`. For all configurations, hash
keys, handles and objects:

| Theorem | Statement |
|---|---|
| `ClusterCounterCorrect` | `Spec => []CounterExact` |
| `ClustersFreedOnce` | `Spec => []NoDoubleFree` |
| `ClustersShared` | `Spec => []SharedIfRecognised` |
| `SessionsOfTheirKey` | `Spec => []SessionOfKey` |

The inductive invariant `CInv` adds three facts. `OneOwner`: a cluster belongs to one list
entry or to one non-persistent object, never to both, so the two places that free a
cluster cannot meet. `AsConfigured`: a live cluster has the settings of its owner.
`NoObjectAtEnd`: the list is destroyed after the last object is gone.

For any width of an int, any arguments of the `with` methods, any option arrays, any arguments of
batch entries, and any number of calls:

| Theorem | Statement |
|---|---|
| `SettingsConsistent` | `RequestsSpec => []ConsistentSettings` |
| `RequestsAsAsked` | `RequestsSpec => []RequestAsAsked` |

They assume what a PHP value is: a string has parts, the items of an array have keys that are
numbers or strings, and no number or name is `NULL` (`ValueAssumption`). `CallsOK` is about the 30 methods: each one keeps
the settings together (`BuilderOK`), a default changes only by its own method, and only
`withConnectionsPerHost`, by throwing, can leave more core than maximal connections. The
invariant `RInv` follows the defaults from the builder to the cluster to the session
(`DefaultsAsked`): each of the three holds the accepted default, else the documented one, except
a session from `connectAsync`, which has lost them. `RequestsAsAsked` then is about
one call: a statement whose arguments can all be bound carries each of them under its own
position or name, exactly, unless it is a number no int holds or a text with a NUL (`BoundIs`,
`StatementFaithful`), the
first failing entry decides a batch (`BatchSent`, which needs that there is a first one), and an
option is chosen before the session's default (`ConsistencyChosen`, `PageSizeChosen`).

For any number of threads, locations, processes and pids:

| Theorem | Statement |
|---|---|
| `LogLocationAlwaysWhole` | `ProcessSpec => []LogLocationWhole` |
| `UuidsAlwaysDistinct` | `ProcessSpec => []UuidsDistinct` |

The first needs that readers and writer exclude each other (`LockInv`), that
`log_location` names a live string except between the free and the store, when the writer
holds the lock (`LocationInv`), and that what a thread has measured is still there while
it holds the lock (`ThreadInv`). The second needs that generator seeds are numbered and
that every UUID of a seed was given out under the one pid recorded for it
(`GeneratorType`, `SeedOfOnePid`).

`PagedRows_proofs`, for any number of pages and requests, any finite sets of `Rows` and
`FutureRows` objects, and both builds:

| Theorem | Statement |
|---|---|
| `PagingCountsExact` | `Spec => []RefCountExact` |
| `PagesInOrder` | `Spec => []PageOrder` |
| `LastPageCorrect` | `Spec => []LastPageExact` |
| `FuturesFreedAtMostOnce` | `Spec => []FuturesFreedOnce` |
| `FuturesAlwaysAccounted` | `Spec => []FuturesAccounted` |

It assumes that the two kinds of objects are finite and disjoint, that `NULL` is none of
them and that handles differ (`FiniteObjects`, `DistinctObjects`, `DistinctData`). The inductive
invariant `Inv` says what the fields of an object point to (`RowsOK`, `FutOK`), that
`future_next_page` is a future asked for from this very page (`NextOK`), that two `FutureRows`
never share a request (`FutsDistinct`), that the request of a blocked call belongs to no
object yet or to the future it waits on (`CallOK`), and that a request not made was never
freed (`ReqOK`). `FutsDistinct` and `CallOK` are what makes freeing safe: each request has one
place that frees it. `FuturesAlwaysAccounted` is inductive on top of `Inv`. A request that is
made, not freed, and that neither the blocked call nor a `FutureRows` has (`Forgotten`) can only
come from the two returns of `nextPage` at `Rows.c:266-272`, and none of them has a decoded page. One
lemma per way a step can touch futures says that it forgets no other: submitting one,
returning from a call, and the free handlers, which in the PHP 8 build do not run and leave the
future with an object that no one can reach.

`Schema_proofs`, for any catalogs, any numbers of objects and snapshots, and any set of columns
that cannot be read:

| Theorem | Statement |
|---|---|
| `SnapshotsStayAlive` | `Spec => []SchemaAlive` |
| `CachedKeysAgree` | `Spec => []KeysAgree` |

It assumes what the driver promises of a snapshot (`CatalogAssumption`: finitely many names, the
views of a table and the base table of a view are among them) and that `NULL` is no snapshot.
`Inv` is a predicate `Good` of the snapshots, the heap, the objects and what the program holds, so
that it can be stated of the intermediate states of a loop too. It says that an object has a
reference exactly while it is allocated (`Sound`), that held objects are allocated, that an
object with keys or functions is described in its snapshot (`Known`), that what an object has
cached is allocated and of the same snapshot (`KidsGood`), and that a cached key consists of the
readable columns of the key in its snapshot, in their order (`KeysGood`, with `Kept`). The last is
what makes keys built at different times agree: what is kept of two lists in a row is what is
kept of each (`KeptConcat`), and there is only one such list (`KeptUnique`). `FreedGood` is the
argument for `Drop`: the objects that go are those no other object has cached.

`Values_proofs`, for all widths of the integer types in their order, any units of time, any
inputs, and addresses of any even length with a dotted quad of at least two and fewer bytes:

| Theorem | Statement |
|---|---|
| `CallsOnValues` | `Spec => []VInvR`, the invariant of the next three |
| `ArithmeticIsExact` | `Spec => []ArithmeticExact` |
| `ConstructorsAreExact` | `Spec => []ConstructExact` |
| `ReadBackAsWritten` | `Spec => []RoundTrip` |
| `AddressesAsWritten` | `Spec => []AddressAsWritten` |

The properties are about the last call, so `VInvR` has two parts: `self` and `num` hold values of
their class (`VInv`: an integer that fits its width, a time within a day, the parts of a duration
with one sign), and the last call was made on such values and returned what the class's
operator returns for them (`Recorded`). The rest is arithmetic of the operators: that wrapping to
a width is the identity on what fits, and that the late range checks of `Smallint.c` and
`Tinyint.c` are passed by an exact result only (`NarrowExact`, `NarrowInitExact`); that a double is
near enough to a number for the cut-off root of it to be the number's or one more, and the
number's while a bit is to spare (`NearestRoot`, `CutOff`, `DoubleRoot`);
that the digits of a number spell it in any base (`SpelledDigits`); and, from that, that the
two's complement and the decimal text are read back. `RoundTrip` is an equivalence: the decimals
and varints it exempts are not read back (`UnreadableText`, `WireWrong`).

The parser's invariant is `Sound`: the tokens it has consumed are the bytes it has written
(`Stored`), `compress` is the number of bytes before the only `::` (`Marked`), and the state
tells the last tokens of the text (`Place`). The last is needed because `AFTERDEC`, at the first
dot, takes the field it has just stored back and reads it again as a byte: the parser then stands
two tokens behind the text. That accepted texts are stored as they spell is `Inflated` moving
the bytes after `::` to the end; that the texts of `php_driver_format_address` are not rejected
needs two more invariants that follow the parser through them (`OnWayV6`, `OnWayV4`).

The loops of `Schema` (`CreateAll`, `DelPerefs`), the powers and digits of `Positional` and the
bytes of a text are recursive functions. That such a function exists, and that its values have
the property each step keeps (`Grown` in `Schema_proofs`, `AllNat` in `Values_proofs`), is shown by
taking the least index where it would fail (`FirstIn`); the induction theorems of the library,
which take a predicate, cannot be used.

### Only model-checked

* `CallReturns` of `PersistentSession`: liveness under fairness is beyond this prover.
* `ParsedAsWritten`, `BoundAsDecoded` and `HandlesAccounted` of `TypedValues`: types and the data
  bound for them are trees and the operators on them `RECURSIVE`; the SMT backend is lost in such a
  module, and what they compute for every tree would need induction over data.

## What the code does that its readers may not expect

The models follow the code; these are the places where it differs from what the
documentation, a test or the surrounding code suggests. The first group is about
handles, the second about values, the third about requests.

* Free handlers: `PHP5TO7_ZEND_OBJECT_INIT_EX` of the PHP 8 branch (`php_driver.h:179`) does not
  set `handlers.free_obj`, and `DefaultSession.c`, the five `Future*.c`, `Rows.c`,
  `PreparedStatement.c`, `BatchStatement.c`, `ExecutionOptions.c`, `Cluster/Builder.c`,
  `DefaultKeyspace.c`, `DefaultTable.c`, `DefaultMaterializedView.c`, `DefaultIndex.c` and several of
  the value and type classes do not either. References held
  by dropped objects stay counted, although `features/README.md:42` says "Once a worker process
  has reached its end of life, sessions will get cleaned up automatically" (run `sessions_end`).
* `FutureSession.c:54` waits on the future of the list entry, uncounted; when another object
  evicted the entry, `php_driver_session_dtor` has freed it.
* `Rows::nextPage` (`Rows.c:266`) returns after a timeout or an error without freeing the future it
  created; `CHANGELOG.md:82` lists a leak when paging as fixed. Nor are the results, statements
  and sessions of dropped `Rows` and `FutureRows` given back, for want of free handlers.
* `Builder::build` (`Builder.c:68`) compares the zval type of an entry with a resource id, so that
  it does not recognise its entries and replaces them, where `features/README.md:27` says they
  are shared. The hash key (`Builder.c:47`) omits SSL options, timestamp generator and
  retry policy.
* Handles of containers nested in a bound value are never freed (`util/collections.c`), nor a
  map's key when its value cannot be decoded (`util/result.c`), nor the iterator of
  `DefaultIndex`.
* `GINIT` and `GSHUTDOWN` are never called (`php_driver.c:77`), so the log callback is not
  registered: `LogLocationWhole` says something only of an extension in which it is
  (`registered`). A process that is given the pid its parent's generator was made for repeats
  UUIDs.
* `Map`, `Collection`, `Varint`, `Decimal`, `Float`, `Uuid`, `Date`, `Blob`, `Inet` and `Duration` install no
  `compare` in PHP 8, so `==` holds for any two objects (`tests/unit/Cassandra/MapTest.php:288`
  asserts otherwise); `Smallint`, `Tinyint`, `Time`, `Timestamp` and `Timeuuid` install no hash.
  Tuples and user type values compare their fields in the order they were set in.
* `Smallint` and `Tinyint` cut a number to 32 bits before they check its range; the
  smallest value divided by -1 returns itself, or traps for `Bigint`; `Bigint` takes the double
  2^63; `Float` built from a `Float` is undefined.
* `Decimal("1E5")` has a negative scale, whose text aborts; "0E-7" is written and not read, and
  so is every text with a dot and an exponent, as "9.5E-8": `math.c:356` copies `point - dot` bytes
  after the dot, one too many, and `mpz_set_str` refuses the `E`. `Decimal::toInt` of "1.0" is 0.
  `export_twos_complement` sends -384 as one byte, -128.
* `Bigint::sqrt` computes in a double (`Bigint.c:324`), so that the root of 2^60 - 1 is 2^30.
* Adding or subtracting decimals of different scales multiplies the operand of the smaller scale
  in place and leaves its scale (`align_decimals`, `Decimal.c:204`): the sum is right, but 1.5 has
  become 15.0. `ArithmeticExact` says which operand changes; `hashtable` shows what it does to a set.
* The class-name parser follows null pointers for some texts it accepts; custom types all
  compare equal; the order of types is not transitive; lists accept null from `create`; int
  values are bound as 32 bits, strings and names up to the first NUL byte
  (`DefaultSession.c:60`).
* Keys cached after an exception are short.
* The default timeout of a cluster never reaches a session (`DefaultCluster.c:57`), and
  `connectAsync` loses every default. Timeouts wrap in an `unsigned int`.
* `withConnectionsPerHost` keeps its first argument when it refuses the second.
* The test of a `retry_policy` option joins its conditions with `&&` (`ExecutionOptions.c:107`).
  Batches ignore serial consistency, page size and token. `BatchStatement::add` takes
  arguments that are no array. An argument of an unsupported class makes `execute` return
  null without an exception.
* `FuturePreparedStatement::get` instantiates the interface `Statement`.
* `Rows::first` reads at the internal pointer, wherever an earlier loop left it.

## Not modelled

* The C/C++ driver: connection pools, retries, the wire protocol. It appears as
  `Resolve` and as the handles.
* Names and values of what the getters of schema metadata and table options return
  (`DefaultTable::options` ends at the first field that names the keyspace or the table,
  `Table.c:34`).
* Argument parsing, wording of exceptions and of type names, `var_dump` output.
* Zend threads (ZTS): module globals are per thread and the model has one PHP thread.
* Retry policies and timestamp generators hold one handle each, made by a constructor;
  exceptions, factory functions and class registration have no state.
* SSL options read certificate files into the driver: file I/O.
* `Session::metrics`, which copies counters of the driver, `FutureClose` and `FutureValue`, which
  hand over what they were given.
* Rounding of floating-point results, which is the hardware's.

## Plan

1. **Abstract specifications**: a session pool (key to session or nothing) that
   `PersistentSession` implements, and a paged query that `PagedRows` implements; a composition
   of clusters and sessions over one list.
2. **Waiting**: the conversion of seconds to microseconds in `util/future.c`.
