-------------------------- MODULE PersistentCluster -------------------------
(***************************************************************************)
(* Cluster\Builder::build, the DefaultCluster objects it returns, and the  *)
(* CassCluster entries of EG(persistent_list).  Nothing counts references  *)
(* to a CassCluster: a persistent DefaultCluster borrows the one in the    *)
(* list, a non-persistent one owns its own.                                *)
(*                                                                         *)
(* A configuration is everything a Builder can be told.  The list is keyed *)
(* by what build prints into hash_key, which stands for the configurations *)
(* that print the same: HashKey[c] is one representative of them.          *)
(***************************************************************************)
EXTENDS Integers, FiniteSets, Null

CONSTANTS Config, HashKey,
          Handle,      \* CassCluster structures that may be created
          Obj          \* DefaultCluster objects

ASSUME FiniteConfig == IsFiniteSet(Config)
ASSUME HashKeyAssumption == HashKey \in [Config -> Config]
ASSUME NullIsNothing == NULL \notin Handle \cup Config

Key == Config

VARIABLES
  plist,                 \* the list: key -> CassCluster
  status,                \* of every CassCluster: unused, live or freed
  config,                \* what it was configured with
  frees,                 \* calls of cass_cluster_free on it
  obj,                   \* the DefaultCluster objects
  persistent_clusters,   \* PHP_DRIVER_G(persistent_clusters)
  pool,                  \* configuration of the persistent session of a key
  connected,             \* history: what the last connect asked for and obtained
  le_matches,            \* does the zval type of a list entry (IS_RESOURCE) happen
                         \* to equal the resource id php_le_php_driver_cluster()?
  running

vars == <<plist, status, config, frees, obj, persistent_clusters, pool,
          connected, le_matches, running>>

NoObj == [st |-> "absent", persist |-> FALSE, cluster |-> NULL, asked |-> NULL]

NoConnect == [asked |-> NULL, obtained |-> NULL, persist |-> FALSE]

Init ==
  /\ plist = [k \in Key |-> NULL]
  /\ status = [h \in Handle |-> "unused"]
  /\ config = [h \in Handle |-> NULL]
  /\ frees = [h \in Handle |-> 0]
  /\ obj = [o \in Obj |-> NoObj]
  /\ persistent_clusters = 0
  /\ pool = [k \in Key |-> NULL]
  /\ connected = NoConnect
  /\ le_matches \in BOOLEAN
  /\ running = TRUE

-----------------------------------------------------------------------------
Listed(k) == plist[k] # NULL

(* The hash_key that build prints, and that connect extends with the       *)
(* keyspace.                                                               *)
KeyOf(c) == HashKey[c]

(* The lookup of build: it compares the type of the zval in the list, not  *)
(* of the resource, with the id of the resource type.  The variant misses. *)
Hit_Never(k, p) == FALSE

Hit(k, p) == p /\ Listed(k) /\ le_matches

(* php_driver_cluster_dtor of the entry that HASH_UPDATE replaces, if any, *)
(* and the counter it decrements.  The variant forgets the destructor.     *)
Replaced(k) == IF Listed(k) THEN {plist[k]} ELSE {}

CounterAfter_NoDtor(k) == persistent_clusters + 1

CounterAfter(k) == persistent_clusters - Cardinality(Replaced(k)) + 1

New(o, c, p, h) == [obj EXCEPT ![o] = [st |-> "live", persist |-> p,
                                       cluster |-> h, asked |-> c]]

BuildCached(o, c, p) ==
  LET k == KeyOf(c) IN
  /\ running /\ obj[o].st = "absent" /\ Hit(k, p)
  /\ obj' = New(o, c, p, plist[k])
  /\ UNCHANGED <<plist, status, config, frees, persistent_clusters, pool, connected, le_matches, running>>

(* A new CassCluster; a persistent one goes into the list, where it may    *)
(* replace another, which is then freed.                                   *)
BuildNew(o, c, p, h) ==
  LET k == KeyOf(c) IN
  /\ running /\ obj[o].st = "absent" /\ ~Hit(k, p) /\ status[h] = "unused"
  /\ obj' = New(o, c, p, h)
  /\ config' = [config EXCEPT ![h] = c]
  /\ IF p
       THEN /\ plist' = [plist EXCEPT ![k] = h]
            /\ status' = [x \in Handle |-> IF x = h THEN "live" ELSE
                                           IF x \in Replaced(k) THEN "freed" ELSE status[x]]
            /\ frees' = [x \in Handle |-> frees[x] + (IF x \in Replaced(k) THEN 1 ELSE 0)]
            /\ persistent_clusters' = CounterAfter(k)
       ELSE /\ status' = [status EXCEPT ![h] = "live"]
            /\ UNCHANGED <<plist, frees, persistent_clusters>>
  /\ UNCHANGED <<pool, connected, le_matches, running>>

(* A setting the C/C++ driver rejects: build throws after cass_cluster_new *)
(* and the half-built object is freed, with its CassCluster only if it is  *)
(* not persistent.                                                         *)
BuildFails(c, p, h) ==
  /\ running /\ ~Hit(KeyOf(c), p) /\ status[h] = "unused"
  /\ config' = [config EXCEPT ![h] = c]
  /\ IF p THEN /\ status' = [status EXCEPT ![h] = "live"]
               /\ UNCHANGED frees
          ELSE /\ status' = [status EXCEPT ![h] = "freed"]
               /\ frees' = [frees EXCEPT ![h] = @ + 1]
  /\ UNCHANGED <<plist, obj, persistent_clusters, pool, connected, le_matches, running>>

(* What cass_session_connect reads from a CassCluster; a freed one may     *)
(* hold anything.                                                          *)
Settings(h) == IF status[h] = "freed" THEN Config ELSE {config[h]}

(* Cluster::connect: a persistent cluster takes the session its key has in *)
(* the list; otherwise the CassCluster configures a new one.               *)
Connect(o, c) ==
  LET k == KeyOf(obj[o].asked)
      pooled == obj[o].persist /\ pool[k] # NULL IN
  /\ running /\ obj[o].st = "live"
  /\ c \in IF pooled THEN {pool[k]} ELSE Settings(obj[o].cluster)
  /\ connected' = [asked |-> obj[o].asked, obtained |-> c, persist |-> obj[o].persist]
  /\ pool' = IF obj[o].persist THEN [pool EXCEPT ![k] = c] ELSE pool
  /\ UNCHANGED <<plist, status, config, frees, obj, persistent_clusters, le_matches, running>>

(* php_driver_default_cluster_free_obj.  The variant frees a borrowed      *)
(* CassCluster as well.                                                    *)
Owns_Always(o) == TRUE

Owns(o) == ~obj[o].persist

DropCluster(o) ==
  LET h == obj[o].cluster IN
  /\ running /\ obj[o].st = "live"
  /\ obj' = [obj EXCEPT ![o] = NoObj]
  /\ IF Owns(o) THEN /\ status' = [status EXCEPT ![h] = "freed"]
                     /\ frees' = [frees EXCEPT ![h] = @ + 1]
                ELSE UNCHANGED <<status, frees>>
  /\ UNCHANGED <<plist, config, persistent_clusters, pool, connected, le_matches, running>>

Shutdown ==
  /\ running /\ \A o \in Obj : obj[o].st = "absent"
  /\ running' = FALSE
  /\ UNCHANGED <<plist, status, config, frees, obj, persistent_clusters, pool, connected, le_matches>>

DestroyEntry(k) ==
  LET h == plist[k] IN
  /\ ~running /\ Listed(k)
  /\ plist' = [plist EXCEPT ![k] = NULL]
  /\ status' = [status EXCEPT ![h] = "freed"]
  /\ frees' = [frees EXCEPT ![h] = @ + 1]
  /\ persistent_clusters' = persistent_clusters - 1
  /\ UNCHANGED <<config, obj, pool, connected, le_matches, running>>

Terminated == ~running /\ (\A k \in Key : ~Listed(k)) /\ UNCHANGED vars

Next ==
  \/ \E c \in Config, p \in BOOLEAN :
        \/ \E o \in Obj : \/ BuildCached(o, c, p)
                          \/ \E h \in Handle : BuildNew(o, c, p, h)
        \/ \E h \in Handle : BuildFails(c, p, h)
  \/ \E o \in Obj : DropCluster(o) \/ \E c \in Config : Connect(o, c)
  \/ Shutdown
  \/ \E k \in Key : DestroyEntry(k)
  \/ Terminated

Spec == Init /\ [][Next]_vars

-----------------------------------------------------------------------------
(* The number phpinfo() shows is the number of clusters in the list, even  *)
(* when HASH_UPDATE replaces entries.                                      *)
CounterExact == persistent_clusters = Cardinality({k \in Key : Listed(k)})

(* No CassCluster is freed twice, by objects, by replacement in the list   *)
(* or at the end of the worker.                                            *)
NoDoubleFree == \A h \in Handle : frees[h] <= 1

(* "All cluster and sessions using the same initial configuration will be  *)
(* shared": the persistent clusters PHP code holds with one key are the    *)
(* one in the list, so none of them has lost its CassCluster.              *)
ClusterShared ==
  \A o \in Obj : obj[o].st = "live" /\ obj[o].persist =>
                   /\ obj[o].cluster = plist[KeyOf(obj[o].asked)]
                   /\ status[obj[o].cluster] = "live"

(* The type test of build is what sharing rests on: whenever it recognises *)
(* the entries of the list, clusters are shared and none is freed in use.  *)
SharedIfRecognised == le_matches => ClusterShared

(* Whenever the type test holds, connect on a cluster yields a session     *)
(* configured by a builder with the same hash_key, and on a non-persistent *)
(* cluster by its own builder.                                             *)
SessionOfKey ==
  le_matches /\ connected # NoConnect =>
    /\ KeyOf(connected.obtained) = KeyOf(connected.asked)
    /\ ~connected.persist => connected.obtained = connected.asked

=============================================================================
