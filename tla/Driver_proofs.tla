--------------------------- MODULE Driver_proofs ----------------------------
(***************************************************************************)
(* What is promised around the driver: of the CassClusters that            *)
(* PersistentCluster shares, for any finite set of configurations, any     *)
(* hash keys, any number of CassClusters and objects, and either outcome   *)
(* of the type test of build; of what is asked of the builder of a cluster *)
(* and of its sessions (Requests), for any arguments, options and lists of *)
(* them, and any number of calls; and of what the extension keeps per      *)
(* process (Process), for any number of I/O threads, log locations,        *)
(* changes of the setting, processes, pids and UUIDs.                      *)
(***************************************************************************)
EXTENDS PersistentCluster, Requests, Process, FiniteSetTheorems, SequenceTheorems,
        WellFoundedInduction, TLAPS

-----------------------------------------------------------------------------
(* The CassClusters that are shared.                                       *)

TypeOK ==
  /\ plist \in [Key -> Handle \cup {NULL}]
  /\ status \in [Handle -> {"unused", "live", "freed"}]
  /\ config \in [Handle -> Config \cup {NULL}]
  /\ frees \in [Handle -> Nat]
  /\ obj \in [Obj -> [st : {"absent", "live"}, persist : BOOLEAN,
                      cluster : Handle \cup {NULL}, asked : Config \cup {NULL}]]
  /\ pool \in [Key -> Config \cup {NULL}]
  /\ \A o \in Obj : obj[o].st = "live" => obj[o].cluster \in Handle /\ obj[o].asked \in Config

(* Every CassCluster that may still be freed has one owner: the entry of a *)
(* key in the list or one non-persistent object, and it is live.           *)
OneOwner ==
  /\ \A h \in Handle : frees[h] = IF status[h] = "freed" THEN 1 ELSE 0
  /\ \A k \in Key : Listed(k) => status[plist[k]] = "live"
  /\ \A j, k \in Key : Listed(k) /\ plist[j] = plist[k] => j = k
  /\ \A o \in Obj : obj[o].st = "live" /\ ~obj[o].persist =>
       /\ status[obj[o].cluster] = "live"
       /\ \A k \in Key : plist[k] # obj[o].cluster
       /\ \A p \in Obj : obj[p].st = "live" /\ ~obj[p].persist
                         /\ obj[p].cluster = obj[o].cluster => p = o

(* A configured CassCluster was configured by a builder of its key.        *)
AsConfigured ==
  /\ \A k \in Key : Listed(k) => config[plist[k]] \in Config /\ KeyOf(config[plist[k]]) = k
  /\ \A o \in Obj : obj[o].st = "live" /\ ~obj[o].persist => config[obj[o].cluster] = obj[o].asked
  /\ le_matches => \A k \in Key : pool[k] # NULL => KeyOf(pool[k]) = k

NoObjectAtEnd == ~running => \A o \in Obj : obj[o].st = "absent"

CInv ==
  TypeOK /\ OneOwner /\ CounterExact /\ AsConfigured /\ NoObjectAtEnd
  /\ SharedIfRecognised /\ SessionOfKey

ListedKeys == {k \in Key : plist[k] # NULL}

(* The list is finite. *)
LEMMA ListedFinite == IsFiniteSet(ListedKeys) /\ Cardinality(ListedKeys) \in Nat
BY FiniteConfig, FS_Subset, FS_CardinalityType DEF ListedKeys, Key

(* The hash key of a configuration is a key. *)
LEMMA KeyOfKey == \A c \in Config : KeyOf(c) \in Key
BY HashKeyAssumption DEF KeyOf, Key

(* The invariant holds of the empty list. *)
LEMMA ClusterInit == Init => CInv
<1> SUFFICES ASSUME Init PROVE CInv
  OBVIOUS
<1>1. TypeOK
  BY DEF Init, TypeOK, NoObj
<1>2. OneOwner
  BY DEF Init, OneOwner, NoObj, Listed
<1>3. CounterExact
  <2>1. {k \in Key : Listed(k)} = {}
    BY DEF Init, Listed
  <2> QED
    BY <2>1, FS_EmptySet DEF Init, CounterExact
<1>4. AsConfigured /\ NoObjectAtEnd /\ SharedIfRecognised /\ SessionOfKey
  BY DEF Init, AsConfigured, NoObjectAtEnd, NoObj, Listed, SharedIfRecognised, ClusterShared,
         SessionOfKey
<1> QED
  BY <1>1, <1>2, <1>3, <1>4 DEF CInv

(* The counter, when the list has changed at one key at most.              *)
LEMMA CounterStep ==
  ASSUME CounterExact, NEW k \in Key, plist' = [plist EXCEPT ![k] = plist'[k]],
         plist \in [Key -> Handle \cup {NULL}],
         persistent_clusters' = persistent_clusters - (IF plist[k] = NULL THEN 0 ELSE 1)
                                                    + (IF plist'[k] = NULL THEN 0 ELSE 1)
  PROVE  CounterExact'
<1>1. {j \in Key : Listed(j)} = ListedKeys /\ {j \in Key : Listed(j)}' = ListedKeys'
  BY DEF Listed, ListedKeys
<1>0. /\ persistent_clusters = Cardinality(ListedKeys) /\ persistent_clusters \in Nat
      /\ CounterExact' <=> persistent_clusters' = Cardinality(ListedKeys')
  BY <1>1, ListedFinite DEF CounterExact
<1>2. \A j \in Key : j # k => plist'[j] = plist[j]
  OBVIOUS
<1>3. CASE plist[k] = NULL /\ plist'[k] # NULL
  <2>1. ListedKeys' = ListedKeys \cup {k} /\ k \notin ListedKeys
    BY <1>2, <1>3 DEF ListedKeys
  <2>2. Cardinality(ListedKeys') = Cardinality(ListedKeys) + 1
    BY <2>1, ListedFinite, FS_AddElement
  <2> QED
    BY <1>0, <1>3, <2>2
<1>4. CASE plist[k] # NULL /\ plist'[k] = NULL
  <2>1. ListedKeys' = ListedKeys \ {k} /\ k \in ListedKeys
    BY <1>2, <1>4 DEF ListedKeys
  <2>2. Cardinality(ListedKeys') = Cardinality(ListedKeys) - 1
    BY <2>1, ListedFinite, FS_RemoveElement
  <2> QED
    BY <1>0, <1>4, <2>2
<1>5. CASE (plist[k] = NULL) <=> (plist'[k] = NULL)
  <2>1. ListedKeys' = ListedKeys
    BY <1>2, <1>5 DEF ListedKeys
  <2> QED
    BY <1>0, <1>5, <2>1
<1> QED
  BY <1>3, <1>4, <1>5

-----------------------------------------------------------------------------
(* build finds its entry. *)
LEMMA BuildCachedInv ==
  ASSUME CInv, NEW o \in Obj, NEW c \in Config, NEW p \in BOOLEAN, BuildCached(o, c, p)
  PROVE  CInv'
<1> DEFINE k == KeyOf(c)
<1>1. k \in Key /\ p = TRUE /\ plist[k] # NULL /\ plist[k] \in Handle /\ running
  BY KeyOfKey DEF BuildCached, Hit, Listed, CInv, TypeOK
<1>2. /\ obj' = [obj EXCEPT ![o] = [st |-> "live", persist |-> p, cluster |-> plist[k], asked |-> c]]
      /\ UNCHANGED <<plist, status, config, frees, persistent_clusters, pool, connected,
                     le_matches, running>>
  BY DEF BuildCached, New
<1>3. obj'[o] = [st |-> "live", persist |-> TRUE, cluster |-> plist[KeyOf(c)], asked |-> c]
      /\ \A q \in Obj : q # o => obj'[q] = obj[q]
  BY <1>1, <1>2 DEF CInv, TypeOK
<1> HIDE DEF k
<1>4. TypeOK'
  BY <1>1, <1>2, <1>3 DEF CInv, TypeOK, k
<1>5. OneOwner'
  BY <1>2, <1>3 DEF CInv, OneOwner, Listed
<1>6. SharedIfRecognised'
  BY <1>1, <1>2, <1>3 DEF CInv, SharedIfRecognised, ClusterShared, OneOwner, Listed, KeyOf, k
<1>7. CounterExact' /\ NoObjectAtEnd' /\ SessionOfKey'
  BY <1>1, <1>2 DEF CInv, CounterExact, NoObjectAtEnd, SessionOfKey, Listed, KeyOf, NoConnect
<1>8. AsConfigured'
  BY <1>2, <1>3 DEF CInv, AsConfigured, Listed, KeyOf
<1> QED
  BY <1>4, <1>5, <1>6, <1>7, <1>8 DEF CInv

(* A fresh CassCluster has no owner yet; a persistent one replaces that of *)
(* its key, which its destructor frees.                                    *)
LEMMA BuildNewInv ==
  ASSUME CInv, NEW o \in Obj, NEW c \in Config, NEW p \in BOOLEAN, NEW h \in Handle,
         BuildNew(o, c, p, h)
  PROVE  CInv'
<1> DEFINE k == KeyOf(c)
<1>1. k \in Key /\ running /\ status[h] = "unused" /\ h # NULL /\ obj[o].st = "absent"
      /\ plist[k] \in Handle \cup {NULL}
  BY KeyOfKey, NullIsNothing DEF BuildNew, CInv, TypeOK
<1>2. /\ obj' = [obj EXCEPT ![o] = [st |-> "live", persist |-> p, cluster |-> h, asked |-> c]]
      /\ config' = [config EXCEPT ![h] = c]
      /\ UNCHANGED <<pool, connected, le_matches, running>>
  BY DEF BuildNew, New
<1>3. /\ obj'[o] = [st |-> "live", persist |-> p, cluster |-> h, asked |-> c]
      /\ \A q \in Obj : q # o => obj'[q] = obj[q]
      /\ config'[h] = c /\ \A x \in Handle : x # h => config'[x] = config[x]
  BY <1>2 DEF CInv, TypeOK
<1>4. /\ \A j \in Key : plist[j] # h
      /\ \A q \in Obj : obj[q].st = "live" /\ ~obj[q].persist => obj[q].cluster # h
      /\ frees[h] = 0
  BY <1>1 DEF CInv, OneOwner, Listed
<1>5. NoObjectAtEnd' /\ SessionOfKey'
  BY <1>1, <1>2 DEF CInv, NoObjectAtEnd, SessionOfKey, KeyOf, NoConnect
<1>6. CASE ~p
  <2>1. status' = [status EXCEPT ![h] = "live"] /\ UNCHANGED <<plist, frees, persistent_clusters>>
    BY <1>6 DEF BuildNew
  <2>2. status'[h] = "live" /\ \A x \in Handle : x # h => status'[x] = status[x]
    BY <2>1 DEF CInv, TypeOK
  <2>3. TypeOK'
    BY <1>2, <1>3, <2>1 DEF CInv, TypeOK
  <2>4. OneOwner'
    BY <1>3, <1>4, <1>6, <2>1, <2>2 DEF CInv, TypeOK, OneOwner, Listed
  <2>5. CounterExact'
    BY <2>1 DEF CInv, CounterExact, Listed
  <2>6. SharedIfRecognised'
    BY <1>2, <1>3, <1>6, <2>1, <2>2 DEF CInv, TypeOK, SharedIfRecognised, ClusterShared, KeyOf
  <2>7. AsConfigured'
    BY <1>2, <1>3, <1>4, <1>6, <2>1 DEF CInv, TypeOK, AsConfigured, Listed, KeyOf
  <2> QED
    BY <1>5, <2>3, <2>4, <2>5, <2>6, <2>7 DEF CInv
<1>7. CASE p
  <2>1. /\ plist' = [plist EXCEPT ![k] = h]
        /\ status' = [x \in Handle |-> IF x = h THEN "live" ELSE
                                       IF x \in Replaced(k) THEN "freed" ELSE status[x]]
        /\ frees' = [x \in Handle |-> frees[x] + (IF x \in Replaced(k) THEN 1 ELSE 0)]
        /\ persistent_clusters' = CounterAfter(k)
        /\ ~(Listed(k) /\ le_matches)
    BY <1>7 DEF BuildNew, Hit
  <2>2. \A x \in Handle : x \in Replaced(k) <=> x = plist[k]
    BY <1>1, NullIsNothing DEF Replaced, Listed
  <2> HIDE DEF k
  <2>3. /\ plist'[k] = h /\ \A j \in Key : j # k => plist'[j] = plist[j]
        /\ status'[h] = "live"
        /\ \A x \in Handle : x # h /\ x # plist[k] => status'[x] = status[x] /\ frees'[x] = frees[x]
        /\ \A x \in Handle : x # h /\ x = plist[k] => status'[x] = "freed" /\ frees'[x] = frees[x] + 1
        /\ frees'[h] = 0
    BY <1>1, <1>4, <2>1, <2>2 DEF CInv, TypeOK
  <2>4. TypeOK'
    BY <1>1, <1>2, <1>3, <2>1 DEF CInv, TypeOK
  <2>5. OneOwner'
    <3>1. \A x \in Handle : frees'[x] = IF status'[x] = "freed" THEN 1 ELSE 0
      BY <1>1, <1>4, <2>3, NullIsNothing DEF CInv, TypeOK, OneOwner, Listed
    <3>2. \A j \in Key : Listed(j)' => status'[plist'[j]] = "live"
      BY <1>1, <1>4, <2>3 DEF CInv, TypeOK, OneOwner, Listed
    <3>3. \A i, j \in Key : Listed(j)' /\ plist'[i] = plist'[j] => i = j
      BY <1>1, <1>4, <2>3 DEF CInv, OneOwner, Listed
    <3>4. ASSUME NEW q \in Obj, obj'[q].st = "live", ~obj'[q].persist
          PROVE  q # o /\ obj'[q] = obj[q] /\ obj[q].cluster # h /\ obj[q].cluster \in Handle
      BY <1>3, <1>4, <1>7, <3>4 DEF CInv, TypeOK
    <3>5. ASSUME NEW q \in Obj, obj'[q].st = "live", ~obj'[q].persist
          PROVE  status'[obj'[q].cluster] = "live" /\ \A j \in Key : plist'[j] # obj'[q].cluster
      BY <1>1, <2>3, <3>4, <3>5 DEF CInv, OneOwner
    <3>6. ASSUME NEW q \in Obj, obj'[q].st = "live", ~obj'[q].persist,
                 NEW r \in Obj, obj'[r].st = "live", ~obj'[r].persist,
                 obj'[r].cluster = obj'[q].cluster
          PROVE  r = q
      BY <3>4, <3>6 DEF CInv, OneOwner
    <3> QED
      BY <3>1, <3>2, <3>3, <3>5, <3>6 DEF OneOwner
  <2>6. CounterExact'
    <3>1. Cardinality(Replaced(k)) = IF plist[k] = NULL THEN 0 ELSE 1
      BY FS_EmptySet, FS_Singleton DEF Replaced, Listed
    <3>2. persistent_clusters' = persistent_clusters - (IF plist[k] = NULL THEN 0 ELSE 1)
                                                     + (IF plist'[k] = NULL THEN 0 ELSE 1)
      BY <1>1, <2>1, <2>3, <3>1 DEF CounterAfter
    <3>3. plist' = [plist EXCEPT ![k] = plist'[k]]
      BY <2>1, <2>3
    <3> QED
      BY <1>1, <3>2, <3>3, CounterStep DEF CInv, TypeOK
  <2>7. SharedIfRecognised'
    <3> SUFFICES ASSUME le_matches, NEW q \in Obj, obj'[q].st = "live", obj'[q].persist
                 PROVE  /\ obj'[q].cluster = plist'[KeyOf(obj'[q].asked)]
                        /\ status'[obj'[q].cluster] = "live"
      BY <1>2 DEF SharedIfRecognised, ClusterShared, KeyOf
    <3>1. plist[k] = NULL
      BY <2>1 DEF Listed
    <3>2. CASE q = o
      BY <1>3, <2>3, <3>2 DEF k
    <3>3. CASE q # o
      <4>1. /\ obj'[q] = obj[q] /\ obj[q].cluster = plist[KeyOf(obj[q].asked)]
            /\ status[obj[q].cluster] = "live" /\ obj[q].cluster \in Handle
            /\ KeyOf(obj[q].asked) \in Key
        BY <1>3, <3>3, KeyOfKey DEF CInv, TypeOK, SharedIfRecognised, ClusterShared
      <4>2. KeyOf(obj[q].asked) # k /\ obj[q].cluster # h /\ obj[q].cluster # plist[k]
        BY <1>1, <3>1, <4>1, NullIsNothing
      <4> QED
        BY <2>3, <4>1, <4>2
    <3> QED
      BY <3>2, <3>3
  <2>8. AsConfigured'
    <3>1. \A j \in Key : Listed(j)' => config'[plist'[j]] \in Config /\ KeyOf(config'[plist'[j]]) = j
      BY <1>1, <1>3, <1>4, <2>3 DEF CInv, TypeOK, AsConfigured, Listed, KeyOf, k
    <3>2. \A q \in Obj : obj'[q].st = "live" /\ ~obj'[q].persist
                         => config'[obj'[q].cluster] = obj'[q].asked
      BY <1>3, <1>4, <1>7 DEF CInv, TypeOK, AsConfigured
    <3> QED
      BY <1>2, <3>1, <3>2 DEF CInv, AsConfigured, KeyOf
  <2> QED
    BY <1>5, <2>4, <2>5, <2>6, <2>7, <2>8 DEF CInv
<1> QED
  BY <1>6, <1>7

(* build raises an exception. *)
LEMMA BuildFailsInv ==
  ASSUME CInv, NEW c \in Config, NEW p \in BOOLEAN, NEW h \in Handle, BuildFails(c, p, h)
  PROVE  CInv'
<1>1. /\ status[h] = "unused" /\ h # NULL /\ config' = [config EXCEPT ![h] = c]
      /\ UNCHANGED <<plist, obj, persistent_clusters, pool, connected, le_matches, running>>
  BY NullIsNothing DEF BuildFails
<1>2. /\ status'[h] \in {"live", "freed"} /\ frees'[h] = IF status'[h] = "freed" THEN 1 ELSE 0
      /\ \A x \in Handle : x # h => /\ status'[x] = status[x] /\ frees'[x] = frees[x]
                                    /\ config'[x] = config[x]
      /\ status' \in [Handle -> {"unused", "live", "freed"}] /\ frees' \in [Handle -> Nat]
      /\ config' \in [Handle -> Config \cup {NULL}]
  BY <1>1 DEF BuildFails, CInv, TypeOK, OneOwner
<1>3. /\ \A j \in Key : plist[j] # h
      /\ \A q \in Obj : obj[q].st = "live" /\ ~obj[q].persist => obj[q].cluster # h
  BY <1>1 DEF CInv, OneOwner, Listed
<1>4. TypeOK'
  BY <1>1, <1>2 DEF CInv, TypeOK
<1>5. OneOwner'
  BY <1>1, <1>2, <1>3 DEF CInv, TypeOK, OneOwner, Listed
<1>6. CounterExact' /\ NoObjectAtEnd' /\ SessionOfKey'
  BY <1>1 DEF CInv, CounterExact, NoObjectAtEnd, SessionOfKey, Listed, KeyOf, NoConnect
<1>7. SharedIfRecognised'
  BY <1>1, <1>2 DEF CInv, TypeOK, SharedIfRecognised, ClusterShared, KeyOf
<1>8. AsConfigured'
  BY <1>1, <1>2, <1>3 DEF CInv, TypeOK, AsConfigured, Listed, KeyOf
<1> QED
  BY <1>4, <1>5, <1>6, <1>7, <1>8 DEF CInv

(* With the type test holding, a persistent cluster's CassCluster is the   *)
(* live one of its key, so what connect reads is a configuration of it.    *)
LEMMA ConnectInv ==
  ASSUME CInv, NEW o \in Obj, NEW c \in Config, Connect(o, c)
  PROVE  CInv'
<1> DEFINE k == KeyOf(obj[o].asked)
<1>1. /\ UNCHANGED <<plist, status, config, frees, obj, persistent_clusters, le_matches, running>>
      /\ connected' = [asked |-> obj[o].asked, obtained |-> c, persist |-> obj[o].persist]
      /\ pool' = IF obj[o].persist THEN [pool EXCEPT ![k] = c] ELSE pool
      /\ obj[o].st = "live"
  BY DEF Connect
<1>2. k \in Key /\ obj[o].cluster \in Handle /\ obj[o].asked \in Config /\ obj[o].persist \in BOOLEAN
  BY <1>1, KeyOfKey DEF CInv, TypeOK
<1>3. TypeOK'
  BY <1>1, <1>2 DEF CInv, TypeOK
<1>4. OneOwner' /\ CounterExact' /\ NoObjectAtEnd' /\ SharedIfRecognised'
  BY <1>1 DEF CInv, OneOwner, CounterExact, NoObjectAtEnd, SharedIfRecognised, ClusterShared,
              Listed, KeyOf
<1>5. ~obj[o].persist => c = obj[o].asked
  BY <1>1, <1>2 DEF CInv, Connect, Settings, OneOwner, AsConfigured
<1>6. le_matches => KeyOf(c) = k
  <2> SUFFICES ASSUME le_matches, obj[o].persist PROVE KeyOf(c) = k
    BY <1>2, <1>5
  <2>1. CASE pool[k] # NULL
    BY <1>2, <2>1 DEF CInv, Connect, AsConfigured
  <2>2. CASE pool[k] = NULL
    <3>1. obj[o].cluster = plist[k] /\ status[plist[k]] = "live" /\ Listed(k)
      BY <1>1, <1>2, NullIsNothing DEF CInv, SharedIfRecognised, ClusterShared, Listed
    <3>2. c = config[plist[k]]
      BY <2>2, <3>1 DEF Connect, Settings
    <3> QED
      BY <1>2, <3>1, <3>2 DEF CInv, AsConfigured
  <2> QED
    BY <2>1, <2>2
<1>7. SessionOfKey'
  BY <1>1, <1>5, <1>6 DEF SessionOfKey, KeyOf
<1> HIDE DEF k
<1>8. le_matches => \A j \in Key : pool'[j] # NULL => KeyOf(pool'[j]) = j
  BY <1>1, <1>2, <1>6 DEF CInv, TypeOK, AsConfigured
<1>9. AsConfigured'
  BY <1>1, <1>8 DEF CInv, AsConfigured, Listed, KeyOf
<1> QED
  BY <1>3, <1>4, <1>7, <1>9 DEF CInv

(* An object frees only what it owns alone.                                *)
LEMMA DropInv ==
  ASSUME CInv, NEW o \in Obj, DropCluster(o)
  PROVE  CInv'
<1> DEFINE h == obj[o].cluster
<1>1. /\ obj[o].st = "live" /\ obj' = [obj EXCEPT ![o] = NoObj] /\ running
      /\ UNCHANGED <<plist, config, persistent_clusters, pool, connected, le_matches, running>>
  BY DEF DropCluster
<1>2. obj'[o] = NoObj /\ \A q \in Obj : q # o => obj'[q] = obj[q]
  BY <1>1 DEF CInv, TypeOK
<1>3. h \in Handle
  BY <1>1 DEF CInv, TypeOK
<1> HIDE DEF h
<1>4. /\ \A x \in Handle : x # h \/ obj[o].persist => status'[x] = status[x] /\ frees'[x] = frees[x]
      /\ ~obj[o].persist => status'[h] = "freed" /\ frees'[h] = frees[h] + 1
      /\ status' \in [Handle -> {"unused", "live", "freed"}] /\ frees' \in [Handle -> Nat]
  BY <1>3 DEF DropCluster, Owns, CInv, TypeOK, h
<1>5. ~obj[o].persist => /\ frees[h] = 0 /\ \A j \in Key : plist[j] # h
                         /\ \A q \in Obj : q # o /\ obj[q].st = "live" /\ ~obj[q].persist
                                           => obj[q].cluster # h
  BY <1>1, <1>3 DEF CInv, OneOwner, h
<1>6. TypeOK'
  BY <1>1, <1>2, <1>4 DEF CInv, TypeOK, NoObj
<1>7. OneOwner'
  BY <1>1, <1>2, <1>3, <1>4, <1>5 DEF CInv, TypeOK, OneOwner, NoObj, Listed
<1>8. CounterExact' /\ NoObjectAtEnd' /\ SessionOfKey'
  BY <1>1 DEF CInv, CounterExact, NoObjectAtEnd, SessionOfKey, Listed, KeyOf, NoConnect
<1>9. SharedIfRecognised'
  <2> SUFFICES ASSUME le_matches, NEW q \in Obj, obj'[q].st = "live", obj'[q].persist
               PROVE  /\ obj'[q].cluster = plist'[KeyOf(obj'[q].asked)]
                      /\ status'[obj'[q].cluster] = "live"
    BY <1>1 DEF SharedIfRecognised, ClusterShared, KeyOf
  <2>1. q # o /\ obj'[q] = obj[q]
    BY <1>2 DEF NoObj
  <2>2. /\ obj[q].cluster = plist[KeyOf(obj[q].asked)] /\ status[obj[q].cluster] = "live"
        /\ obj[q].cluster \in Handle /\ KeyOf(obj[q].asked) \in Key
    BY <2>1, KeyOfKey DEF CInv, TypeOK, SharedIfRecognised, ClusterShared
  <2> QED
    BY <1>1, <1>4, <1>5, <2>1, <2>2
<1>10. AsConfigured'
  BY <1>1, <1>2 DEF CInv, AsConfigured, Listed, KeyOf, NoObj
<1> QED
  BY <1>6, <1>7, <1>8, <1>9, <1>10 DEF CInv

(* The list is destroyed at the end of the worker. *)
LEMMA ShutdownInv ==
  ASSUME CInv, Shutdown
  PROVE  CInv'
BY DEF CInv, Shutdown, TypeOK, OneOwner, CounterExact, AsConfigured, NoObjectAtEnd,
       SharedIfRecognised, ClusterShared, SessionOfKey, Listed, KeyOf, NoConnect

(* At the end of the worker only the list owns anything.                   *)
LEMMA DestroyInv ==
  ASSUME CInv, NEW k \in Key, DestroyEntry(k)
  PROVE  CInv'
<1> DEFINE h == plist[k]
<1>1. /\ ~running /\ plist[k] # NULL /\ plist' = [plist EXCEPT ![k] = NULL]
      /\ status' = [status EXCEPT ![h] = "freed"] /\ frees' = [frees EXCEPT ![h] = @ + 1]
      /\ persistent_clusters' = persistent_clusters - 1
      /\ UNCHANGED <<config, obj, pool, connected, le_matches, running>>
  BY DEF DestroyEntry, Listed
<1>2. h \in Handle /\ status[h] = "live" /\ frees[h] = 0 /\ \A o \in Obj : obj[o].st = "absent"
  BY <1>1 DEF CInv, TypeOK, OneOwner, Listed, NoObjectAtEnd
<1> HIDE DEF h
<1>3. /\ plist'[k] = NULL /\ \A j \in Key : j # k => plist'[j] = plist[j]
      /\ status'[h] = "freed" /\ frees'[h] = 1
      /\ \A x \in Handle : x # h => status'[x] = status[x] /\ frees'[x] = frees[x]
  BY <1>1, <1>2 DEF CInv, TypeOK
<1>4. TypeOK'
  BY <1>1, <1>2 DEF CInv, TypeOK
<1>5. OneOwner'
  BY <1>1, <1>2, <1>3 DEF CInv, TypeOK, OneOwner, Listed, h
<1>6. CounterExact'
  <2>1. plist' = [plist EXCEPT ![k] = plist'[k]]
    BY <1>1, <1>3
  <2>2. persistent_clusters' = persistent_clusters - (IF plist[k] = NULL THEN 0 ELSE 1)
                                                   + (IF plist'[k] = NULL THEN 0 ELSE 1)
    <3>1. persistent_clusters \in Nat
      <4>1. {j \in Key : Listed(j)} = ListedKeys
        BY DEF Listed, ListedKeys
      <4> QED
        BY <4>1, ListedFinite DEF CInv, CounterExact
    <3> QED
      BY <1>1, <1>3, <3>1
  <2> QED
    BY <2>1, <2>2, CounterStep DEF CInv, TypeOK
<1>7. AsConfigured'
  BY <1>1, <1>2, <1>3 DEF CInv, AsConfigured, Listed, KeyOf
<1>8. NoObjectAtEnd' /\ SharedIfRecognised' /\ SessionOfKey'
  BY <1>1, <1>2 DEF CInv, NoObjectAtEnd, SharedIfRecognised, ClusterShared, SessionOfKey, KeyOf,
                    NoConnect
<1> QED
  BY <1>4, <1>5, <1>6, <1>7, <1>8 DEF CInv

(* Every step keeps the invariant. *)
LEMMA ClusterNext == CInv /\ [Next]_vars => CInv'
<1> SUFFICES ASSUME CInv, [Next]_vars PROVE CInv'
  OBVIOUS
<1>1. CASE UNCHANGED vars
  BY <1>1 DEF vars, CInv, TypeOK, OneOwner, CounterExact, AsConfigured, NoObjectAtEnd,
              SharedIfRecognised, ClusterShared, SessionOfKey, Listed, KeyOf, NoConnect
<1>2. CASE Next
  BY <1>1, <1>2, BuildCachedInv, BuildNewInv, BuildFailsInv, ConnectInv, DropInv, ShutdownInv,
     DestroyInv DEF Next, Terminated
<1> QED
  BY <1>1, <1>2

(* The invariant holds in every reachable state. *)
LEMMA ClusterInvariant == Spec => []CInv
BY ClusterInit, ClusterNext, PTL DEF Spec

(* The persistent_clusters counter of phpinfo() is the number of clusters  *)
(* in the list, although HASH_UPDATE runs the destructor of what it        *)
(* replaces.                                                               *)
THEOREM ClusterCounterCorrect == Spec => []CounterExact
<1>1. CInv => CounterExact
  BY DEF CInv
<1> QED
  BY <1>1, ClusterInvariant, PTL

(* No CassCluster is freed twice by objects, by replacement in the list or *)
(* by the end of the worker, even when build never recognises an entry.    *)
THEOREM ClustersFreedOnce == Spec => []NoDoubleFree
<1>1. CInv => NoDoubleFree
  BY DEF CInv, OneOwner, NoDoubleFree
<1> QED
  BY <1>1, ClusterInvariant, PTL

(* If build's type test recognises list entries, persistent clusters of a  *)
(* key share the live one in the list.                                     *)
THEOREM ClustersShared == Spec => []SharedIfRecognised
<1>1. CInv => SharedIfRecognised
  BY DEF CInv
<1> QED
  BY <1>1, ClusterInvariant, PTL

(* If it does, connect yields a session configured by a builder with the   *)
(* same hash_key.                                                          *)
THEOREM SessionsOfTheirKey == Spec => []SessionOfKey
<1>1. CInv => SessionOfKey
  BY DEF CInv
<1> QED
  BY <1>1, ClusterInvariant, PTL

-----------------------------------------------------------------------------
(* From the builder to a request.  The settings of a builder.             *)

BuilderFields == DOMAIN php_driver_cluster_builder_new

(* The settings that have to go together, and the defaults of sessions.    *)
Related == {"load_balancing_policy", "local_dc", "username", "password", "enable_tcp_keepalive",
            "tcp_keepalive_delay", "core_connections_per_host", "max_connections_per_host",
            "default_consistency", "default_page_size"}

Together(b) ==
  /\ b.load_balancing_policy = "dc_aware" <=> b.local_dc # NULL
  /\ b.username = NULL <=> b.password = NULL
  /\ ~b.enable_tcp_keepalive => b.tcp_keepalive_delay = 0

BuilderOK(b) ==
  /\ DOMAIN b = BuilderFields /\ b = [f \in BuilderFields |-> b[f]]
  /\ Together(b)
  /\ b.core_connections_per_host \in Int /\ b.max_connections_per_host \in Int
  /\ b.default_page_size \in Int

(* What a call of method name on b, with result r, leaves behind.          *)
CallOK(b, name, r) ==
  /\ BuilderOK(r.builder)
  /\ \/ r.builder.default_consistency = b.default_consistency
     \/ name = "withDefaultConsistency" /\ r.ok
  /\ \/ r.builder.default_page_size = b.default_page_size
     \/ name = "withDefaultPageSize" /\ r.ok
  /\ name = "withDefaultConsistency" /\ r.ok => r.builder.default_consistency \in Int
  /\ r.builder.core_connections_per_host > r.builder.max_connections_per_host =>
       \/ b.core_connections_per_host > b.max_connections_per_host
       \/ name = "withConnectionsPerHost" /\ ~r.ok

LEMMA FieldNames ==
  /\ BuilderFields =
       {"contact_points", "port", "load_balancing_policy", "local_dc", "used_hosts_per_remote_dc",
        "allow_remote_dcs_for_local_cl", "use_token_aware_routing", "username", "password",
        "connect_timeout", "request_timeout", "ssl_options", "default_consistency",
        "default_page_size", "default_timeout", "persist", "protocol_version", "io_threads",
        "core_connections_per_host", "max_connections_per_host", "reconnect_interval",
        "enable_latency_aware_routing", "enable_tcp_nodelay", "enable_tcp_keepalive",
        "tcp_keepalive_delay", "retry_policy", "timestamp_gen", "enable_schema",
        "blacklist_hosts", "whitelist_hosts", "blacklist_dcs", "whitelist_dcs",
        "enable_hostname_resolution", "enable_randomized_contact_points",
        "connection_heartbeat_interval"}
  /\ Related \subseteq BuilderFields
BY DEF BuilderFields, php_driver_cluster_builder_new, Related

(* A new builder.                                                          *)
LEMMA NewBuilderOK ==
  LET b == php_driver_cluster_builder_new
  IN  BuilderOK(b) /\ b.default_consistency = LOCAL_ONE /\ b.default_page_size = 5000
      /\ b.core_connections_per_host = 1 /\ b.max_connections_per_host = 2
<1>1. PICK b : b = php_driver_cluster_builder_new
  OBVIOUS
<1>2. DOMAIN b = BuilderFields /\ b = [f \in BuilderFields |-> b[f]]
  BY <1>1 DEF BuilderFields, php_driver_cluster_builder_new
<1>3. /\ b.load_balancing_policy = "default" /\ b.local_dc = NULL /\ b.username = NULL
      /\ b.password = NULL /\ b.tcp_keepalive_delay = 0
      /\ b.core_connections_per_host = 1 /\ b.max_connections_per_host = 2
      /\ b.default_page_size = 5000 /\ b.default_consistency = LOCAL_ONE
  BY <1>1 DEF php_driver_cluster_builder_new
<1>4. BuilderOK(b)
  BY <1>2, <1>3 DEF BuilderOK, Together
<1> QED
  BY <1>1, <1>3, <1>4

(* A method that refuses, and one that changes nothing else.               *)
LEMMA RefusedOK ==
  ASSUME NEW b, BuilderOK(b), NEW name
  PROVE  CallOK(b, name, Refused(b)) /\ Refused(b).builder = b /\ ~Refused(b).ok
BY DEF Refused, CallOK

LEMMA PlainOK ==
  ASSUME NEW b, BuilderOK(b), NEW f \in BuilderFields \ Related, NEW x, NEW accepted,
         NEW name, name \notin {"withDefaultConsistency", "withDefaultPageSize"}
  PROVE  CallOK(b, name, When(accepted, b, [b EXCEPT ![f] = x]))
<1>1. PICK n : n = [b EXCEPT ![f] = x]
  OBVIOUS
<1>2. DOMAIN b = BuilderFields /\ Related \subseteq BuilderFields
  BY FieldNames DEF BuilderOK
<1>3. DOMAIN n = BuilderFields /\ n = [g \in BuilderFields |-> n[g]]
  BY <1>1, <1>2
<1>4. \A g \in Related : n[g] = b[g]
  BY <1>1, <1>2
<1>5. /\ n.load_balancing_policy = b.load_balancing_policy /\ n.local_dc = b.local_dc
      /\ n.username = b.username /\ n.password = b.password
      /\ n.enable_tcp_keepalive = b.enable_tcp_keepalive
      /\ n.tcp_keepalive_delay = b.tcp_keepalive_delay
      /\ n.core_connections_per_host = b.core_connections_per_host
      /\ n.max_connections_per_host = b.max_connections_per_host
      /\ n.default_consistency = b.default_consistency
      /\ n.default_page_size = b.default_page_size
  BY <1>4 DEF Related
<1>6. BuilderOK(n)
  BY <1>3, <1>5 DEF BuilderOK, Together
<1>7. CallOK(b, name, [ok |-> TRUE, builder |-> n])
  BY <1>5, <1>6 DEF CallOK
<1>8. CallOK(b, name, Refused(b))
  BY RefusedOK
<1> QED
  BY <1>1, <1>7, <1>8 DEF When
(* An int of the C code holds what lies between its bounds.                *)
LEMMA IntHalf ==
  IntRange \div 2 \in Nat /\ IntRange = 2 * (IntRange \div 2)
BY IntRangeAssumption

LEMMA SignedIntIs ==
  ASSUME NEW n \in Int
  PROVE  /\ SignedInt(n) \in Int
         /\ n \in -(IntRange \div 2) .. IntRange \div 2 - 1 => SignedInt(n) = n
<1>1. PICK h \in Nat : h = IntRange \div 2 /\ IntRange = 2 * h /\ h > 0
  BY IntHalf, IntRangeAssumption
<1>2. PICK m \in Int : m = n + h
  OBVIOUS
<1>3. m % IntRange \in Int
  BY <1>1, <1>2, IntRangeAssumption
<1>4. m \in 0 .. IntRange - 1 => m % IntRange = m
  BY <1>1, <1>2, IntRangeAssumption
<1>5. SignedInt(n) = (m % IntRange) - h
  BY <1>1, <1>2 DEF SignedInt
<1> QED
  BY <1>1, <1>2, <1>3, <1>4, <1>5

LEMMA SignedIntIn ==
  ASSUME NEW n \in Int
  PROVE  SignedInt(n) \in -(IntRange \div 2) .. IntRange \div 2 - 1
<1>1. PICK h \in Nat : h = IntRange \div 2 /\ IntRange = 2 * h /\ h > 0
  BY IntHalf, IntRangeAssumption
<1>2. PICK m : m = (n + h) % IntRange
  OBVIOUS
<1>3. m \in 0 .. IntRange - 1
  BY <1>1, <1>2, IntRangeAssumption
<1>4. SignedInt(n) = m - h
  BY <1>1, <1>2 DEF SignedInt
<1> QED
  BY <1>1, <1>3, <1>4

LEMMA AnyLongIs == AnyLong \in Nat
BY IntRangeAssumption DEF AnyLong

-----------------------------------------------------------------------------
(* The methods that change settings that go together, or a default.        *)

LEMMA ConsistencyOK ==
  ASSUME NEW b, BuilderOK(b), NEW z
  PROVE  CallOK(b, "withDefaultConsistency", withDefaultConsistency(b, z))
<1>1. PICK n : n = [b EXCEPT !.default_consistency = z.v]
  OBVIOUS
<1>2. DOMAIN b = BuilderFields /\ Related \subseteq BuilderFields
  BY FieldNames DEF BuilderOK
<1>3. DOMAIN n = BuilderFields /\ n = [g \in BuilderFields |-> n[g]]
  BY <1>1, <1>2
<1>4. \A g \in Related \ {"default_consistency"} : n[g] = b[g]
  BY <1>1, <1>2
<1>5. n.default_consistency = z.v
  BY <1>1, <1>2 DEF Related
<1>6. BuilderOK(n)
  BY <1>3, <1>4 DEF BuilderOK, Together, Related
<1>7. php_driver_get_consistency(z) => CallOK(b, "withDefaultConsistency", [ok |-> TRUE, builder |-> n])
  <2>1. php_driver_get_consistency(z) => n.default_consistency \in Int
    BY <1>5 DEF php_driver_get_consistency, Consistency
  <2>2. n.default_page_size = b.default_page_size
        /\ n.core_connections_per_host = b.core_connections_per_host
        /\ n.max_connections_per_host = b.max_connections_per_host
    BY <1>4 DEF Related
  <2> QED
    BY <1>6, <2>1, <2>2 DEF CallOK
<1>8. CallOK(b, "withDefaultConsistency", Refused(b))
  BY RefusedOK
<1> QED
  BY <1>1, <1>7, <1>8 DEF When, withDefaultConsistency

LEMMA PageSizeOK ==
  ASSUME NEW b, BuilderOK(b), NEW z
  PROVE  CallOK(b, "withDefaultPageSize", withDefaultPageSize(b, z))
<1>1. PICK x : x = IF Is(z, "null") THEN -1 ELSE SignedInt(z.v)
  OBVIOUS
<1>2. PICK n : n = [b EXCEPT !.default_page_size = x]
  OBVIOUS
<1>3. DOMAIN b = BuilderFields /\ Related \subseteq BuilderFields
  BY FieldNames DEF BuilderOK
<1>4. DOMAIN n = BuilderFields /\ n = [g \in BuilderFields |-> n[g]]
  BY <1>2, <1>3
<1>5. \A g \in Related \ {"default_page_size"} : n[g] = b[g]
  BY <1>2, <1>3
<1>6. n.default_page_size = x
  BY <1>2, <1>3 DEF Related
<1>7. Is(z, "null") \/ Long(z, 1, AnyLong) => x \in Int
  <2>1. Long(z, 1, AnyLong) => z.v \in Int
    BY AnyLongIs DEF Long
  <2>2. z.v \in Int => SignedInt(z.v) \in Int
    BY SignedIntIs
  <2> QED
    BY <1>1, <2>1, <2>2
<1>8. x \in Int => BuilderOK(n)
  BY <1>4, <1>5, <1>6 DEF BuilderOK, Together, Related
<1>9. x \in Int => CallOK(b, "withDefaultPageSize", [ok |-> TRUE, builder |-> n])
  <2>1. n.default_consistency = b.default_consistency
        /\ n.core_connections_per_host = b.core_connections_per_host
        /\ n.max_connections_per_host = b.max_connections_per_host
    BY <1>5 DEF Related
  <2> QED
    BY <1>8, <2>1 DEF CallOK
<1>10. CallOK(b, "withDefaultPageSize", Refused(b))
  BY RefusedOK
<1> QED
  BY <1>1, <1>2, <1>7, <1>9, <1>10 DEF When, withDefaultPageSize

LEMMA CredentialsOK ==
  ASSUME NEW b, BuilderOK(b), NEW y \in Zvals, NEW z \in Zvals
  PROVE  CallOK(b, "withCredentials", withCredentials(b, y, z))
<1>1. PICK n : n = [b EXCEPT !.username = y.parts, !.password = z.parts]
  OBVIOUS
<1>2. DOMAIN b = BuilderFields /\ Related \subseteq BuilderFields
  BY FieldNames DEF BuilderOK
<1>3. DOMAIN n = BuilderFields /\ n = [g \in BuilderFields |-> n[g]]
  BY <1>1, <1>2
<1>4. \A g \in Related \ {"username", "password"} : n[g] = b[g]
  BY <1>1, <1>2
<1>5. n.username = y.parts /\ n.password = z.parts
  BY <1>1, <1>2 DEF Related
<1>6. Is(y, "string") /\ Is(z, "string") => n.username # NULL /\ n.password # NULL
  BY <1>5, ValueAssumption
<1>7. Is(y, "string") /\ Is(z, "string") => BuilderOK(n)
  BY <1>3, <1>4, <1>6 DEF BuilderOK, Together, Related
<1>8. Is(y, "string") /\ Is(z, "string") =>
        CallOK(b, "withCredentials", [ok |-> TRUE, builder |-> n])
  <2>1. n.default_consistency = b.default_consistency
        /\ n.default_page_size = b.default_page_size
        /\ n.core_connections_per_host = b.core_connections_per_host
        /\ n.max_connections_per_host = b.max_connections_per_host
    BY <1>4 DEF Related
  <2> QED
    BY <1>7, <2>1 DEF CallOK
<1>9. CallOK(b, "withCredentials", Refused(b))
  BY RefusedOK
<1> QED
  BY <1>1, <1>8, <1>9 DEF When, withCredentials

LEMMA KeepaliveOK ==
  ASSUME NEW b, BuilderOK(b), NEW z
  PROVE  CallOK(b, "withTCPKeepalive", withTCPKeepalive(b, z))
<1>1. PICK n : n = [b EXCEPT !.enable_tcp_keepalive = ~Is(z, "null"),
                             !.tcp_keepalive_delay = IF Is(z, "null") THEN 0 ELSE Millis(z)]
  OBVIOUS
<1>2. DOMAIN b = BuilderFields /\ Related \subseteq BuilderFields
  BY FieldNames DEF BuilderOK
<1>3. DOMAIN n = BuilderFields /\ n = [g \in BuilderFields |-> n[g]]
  BY <1>1, <1>2
<1>4. \A g \in Related \ {"enable_tcp_keepalive", "tcp_keepalive_delay"} : n[g] = b[g]
  BY <1>1, <1>2
<1>5. /\ n.enable_tcp_keepalive <=> ~Is(z, "null")
      /\ n.tcp_keepalive_delay = IF Is(z, "null") THEN 0 ELSE Millis(z)
  BY <1>1, <1>2 DEF Related
<1>6. BuilderOK(n)
  <2>1. ~n.enable_tcp_keepalive => n.tcp_keepalive_delay = 0
    BY <1>5
  <2> QED
    BY <1>3, <1>4, <2>1 DEF BuilderOK, Together, Related
<1>7. CallOK(b, "withTCPKeepalive", [ok |-> TRUE, builder |-> n])
  <2>1. n.default_consistency = b.default_consistency
        /\ n.default_page_size = b.default_page_size
        /\ n.core_connections_per_host = b.core_connections_per_host
        /\ n.max_connections_per_host = b.max_connections_per_host
    BY <1>4 DEF Related
  <2> QED
    BY <1>6, <2>1 DEF CallOK
<1>8. CallOK(b, "withTCPKeepalive", Refused(b))
  BY RefusedOK
<1> QED
  BY <1>1, <1>7, <1>8 DEF When, withTCPKeepalive

LEMMA RoundRobinOK ==
  ASSUME NEW b, BuilderOK(b)
  PROVE  CallOK(b, "withRoundRobinLoadBalancingPolicy", withRoundRobinLoadBalancingPolicy(b))
<1>1. PICK n : n = [b EXCEPT !.local_dc = NULL, !.load_balancing_policy = "round_robin"]
  OBVIOUS
<1>2. DOMAIN b = BuilderFields /\ Related \subseteq BuilderFields
  BY FieldNames DEF BuilderOK
<1>3. DOMAIN n = BuilderFields /\ n = [g \in BuilderFields |-> n[g]]
  BY <1>1, <1>2
<1>4. \A g \in Related \ {"local_dc", "load_balancing_policy"} : n[g] = b[g]
  BY <1>1, <1>2
<1>5. n.local_dc = NULL /\ n.load_balancing_policy = "round_robin"
  BY <1>1, <1>2 DEF Related
<1>6. BuilderOK(n)
  BY <1>3, <1>4, <1>5 DEF BuilderOK, Together, Related
<1>7. n.default_consistency = b.default_consistency
      /\ n.default_page_size = b.default_page_size
      /\ n.core_connections_per_host = b.core_connections_per_host
      /\ n.max_connections_per_host = b.max_connections_per_host
  BY <1>4 DEF Related
<1>8. CallOK(b, "withRoundRobinLoadBalancingPolicy", [ok |-> TRUE, builder |-> n])
  BY <1>6, <1>7 DEF CallOK
<1> QED
  BY <1>1, <1>8 DEF When, withRoundRobinLoadBalancingPolicy

LEMMA DatacenterOK ==
  ASSUME NEW b, BuilderOK(b), NEW dc \in LocalDC, NEW z, NEW e
  PROVE  CallOK(b, "withDatacenterAwareRoundRobinLoadBalancingPolicy",
                withDatacenterAwareRoundRobinLoadBalancingPolicy(b, dc, z, e))
<1>1. PICK n : n = [b EXCEPT !.load_balancing_policy = "dc_aware", !.local_dc = dc,
                             !.used_hosts_per_remote_dc = UnsignedInt(z.v),
                             !.allow_remote_dcs_for_local_cl = e]
  OBVIOUS
<1>2. DOMAIN b = BuilderFields /\ Related \subseteq BuilderFields
  BY FieldNames DEF BuilderOK
<1>3. DOMAIN n = BuilderFields /\ n = [g \in BuilderFields |-> n[g]]
  BY <1>1, <1>2
<1>4. \A g \in Related \ {"local_dc", "load_balancing_policy"} : n[g] = b[g]
  <2>1. "used_hosts_per_remote_dc" \notin Related /\ "allow_remote_dcs_for_local_cl" \notin Related
    BY DEF Related
  <2> QED
    BY <1>1, <1>2, <2>1
<1>5. n.local_dc = dc /\ n.load_balancing_policy = "dc_aware"
  BY <1>1, <1>2 DEF Related
<1>6. n.local_dc # NULL
  BY <1>5, ValueAssumption
<1>7. BuilderOK(n)
  BY <1>3, <1>4, <1>5, <1>6 DEF BuilderOK, Together, Related
<1>8. n.default_consistency = b.default_consistency
      /\ n.default_page_size = b.default_page_size
      /\ n.core_connections_per_host = b.core_connections_per_host
      /\ n.max_connections_per_host = b.max_connections_per_host
  BY <1>4 DEF Related
<1>9. CallOK(b, "withDatacenterAwareRoundRobinLoadBalancingPolicy", [ok |-> TRUE, builder |-> n])
  BY <1>7, <1>8 DEF CallOK
<1>10. CallOK(b, "withDatacenterAwareRoundRobinLoadBalancingPolicy", Refused(b))
  BY RefusedOK
<1> QED
  BY <1>1, <1>9, <1>10 DEF When, withDatacenterAwareRoundRobinLoadBalancingPolicy

(* A refused max leaves the new core behind, and the call has thrown.      *)
LEMMA ConnectionsOK ==
  ASSUME NEW b, BuilderOK(b), NEW y, NEW z
  PROVE  CallOK(b, "withConnectionsPerHost", withConnectionsPerHost(b, y, z))
<1>1. PICK c : c = [b EXCEPT !.core_connections_per_host = y.v]
  OBVIOUS
<1>2. PICK x : x = IF Is(z, "null") THEN y.v ELSE z.v
  OBVIOUS
<1>3. PICK n : n = [c EXCEPT !.max_connections_per_host = x]
  OBVIOUS
<1>4. DOMAIN b = BuilderFields /\ Related \subseteq BuilderFields
  BY FieldNames DEF BuilderOK
<1>5. /\ DOMAIN c = BuilderFields /\ c = [g \in BuilderFields |-> c[g]]
      /\ DOMAIN n = BuilderFields /\ n = [g \in BuilderFields |-> n[g]]
  BY <1>1, <1>3, <1>4
<1>6. \A g \in Related \ {"core_connections_per_host", "max_connections_per_host"} :
         c[g] = b[g] /\ n[g] = b[g]
  BY <1>1, <1>3, <1>4
<1>7. /\ c.core_connections_per_host = y.v /\ n.core_connections_per_host = y.v
      /\ c.max_connections_per_host = b.max_connections_per_host
      /\ n.max_connections_per_host = x
  BY <1>1, <1>3, <1>4 DEF Related
<1>8. CASE ~Long(y, 1, 128)
  BY <1>8, RefusedOK DEF withConnectionsPerHost
<1>9. CASE Long(y, 1, 128) /\ ~(Is(z, "null") \/ Long(z, y.v, 128))
  <2>1. y.v \in Int
    BY <1>9 DEF Long
  <2>2. BuilderOK(c)
    BY <1>5, <1>6, <1>7, <2>1 DEF BuilderOK, Together, Related
  <2>3. c.default_consistency = b.default_consistency /\ c.default_page_size = b.default_page_size
    BY <1>6 DEF Related
  <2>4. CallOK(b, "withConnectionsPerHost", [ok |-> FALSE, builder |-> c])
    BY <2>2, <2>3 DEF CallOK
  <2> QED
    BY <1>1, <1>9, <2>4 DEF withConnectionsPerHost, When, Refused
<1>10. CASE Long(y, 1, 128) /\ (Is(z, "null") \/ Long(z, y.v, 128))
  <2>1. y.v \in Int /\ x \in Int /\ ~(y.v > x)
    BY <1>2, <1>10 DEF Long
  <2>2. BuilderOK(n)
    BY <1>5, <1>6, <1>7, <2>1 DEF BuilderOK, Together, Related
  <2>3. n.default_consistency = b.default_consistency /\ n.default_page_size = b.default_page_size
    BY <1>6 DEF Related
  <2>4. CallOK(b, "withConnectionsPerHost", [ok |-> TRUE, builder |-> n])
    BY <1>7, <2>1, <2>2, <2>3 DEF CallOK
  <2> QED
    BY <1>1, <1>2, <1>3, <1>10, <2>4 DEF withConnectionsPerHost, When
<1> QED
  BY <1>8, <1>9, <1>10

-----------------------------------------------------------------------------
(* The methods that set one field that goes with no other.                 *)
LEMMA PlainFields ==
  {"default_timeout", "port", "connect_timeout", "request_timeout",
   "ssl_options", "protocol_version", "io_threads", "reconnect_interval",
   "retry_policy", "timestamp_gen", "connection_heartbeat_interval", "contact_points",
   "blacklist_hosts", "whitelist_hosts", "blacklist_dcs", "whitelist_dcs",
   "use_token_aware_routing", "persist", "enable_latency_aware_routing", "enable_tcp_nodelay",
   "enable_schema", "enable_hostname_resolution", "enable_randomized_contact_points"}
    \subseteq BuilderFields \ Related
BY FieldNames DEF Related

LEMMA PlainCalls ==
  ASSUME NEW b, BuilderOK(b), NEW x
  PROVE  /\ CallOK(b, "withDefaultTimeout", withDefaultTimeout(b, x))
         /\ CallOK(b, "withPort", withPort(b, x))
         /\ CallOK(b, "withConnectTimeout", withConnectTimeout(b, x))
         /\ CallOK(b, "withRequestTimeout", withRequestTimeout(b, x))
         /\ CallOK(b, "withSSL", withSSL(b, x))
         /\ CallOK(b, "withProtocolVersion", withProtocolVersion(b, x))
         /\ CallOK(b, "withIOThreads", withIOThreads(b, x))
         /\ CallOK(b, "withReconnectInterval", withReconnectInterval(b, x))
         /\ CallOK(b, "withRetryPolicy", withRetryPolicy(b, x))
         /\ CallOK(b, "withTimestampGenerator", withTimestampGenerator(b, x))
         /\ CallOK(b, "withConnectionHeartbeatInterval", withConnectionHeartbeatInterval(b, x))
         /\ CallOK(b, "withContactPoints", withContactPoints(b, x))
         /\ CallOK(b, "withBlackListHosts", withBlackListHosts(b, x))
         /\ CallOK(b, "withWhiteListHosts", withWhiteListHosts(b, x))
         /\ CallOK(b, "withBlackListDCs", withBlackListDCs(b, x))
         /\ CallOK(b, "withWhiteListDCs", withWhiteListDCs(b, x))
         /\ CallOK(b, "withTokenAwareRouting", withTokenAwareRouting(b, x))
         /\ CallOK(b, "withPersistentSessions", withPersistentSessions(b, x))
         /\ CallOK(b, "withLatencyAwareRouting", withLatencyAwareRouting(b, x))
         /\ CallOK(b, "withTCPNodelay", withTCPNodelay(b, x))
         /\ CallOK(b, "withSchemaMetadata", withSchemaMetadata(b, x))
         /\ CallOK(b, "withHostnameResolution", withHostnameResolution(b, x))
         /\ CallOK(b, "withRandomizedContactPoints", withRandomizedContactPoints(b, x))
<1>1. ASSUME NEW f \in BuilderFields \ Related, NEW y, NEW accepted, NEW name,
             name \notin {"withDefaultConsistency", "withDefaultPageSize"}
      PROVE  CallOK(b, name, When(accepted, b, [b EXCEPT ![f] = y]))
  BY <1>1, PlainOK
<1>2. CallOK(b, "withDefaultTimeout", withDefaultTimeout(b, x))
  BY <1>1, PlainFields DEF withDefaultTimeout
<1>3. CallOK(b, "withPort", withPort(b, x))
  BY <1>1, PlainFields DEF withPort
<1>4. CallOK(b, "withConnectTimeout", withConnectTimeout(b, x))
  BY <1>1, PlainFields DEF withConnectTimeout
<1>5. CallOK(b, "withRequestTimeout", withRequestTimeout(b, x))
  BY <1>1, PlainFields DEF withRequestTimeout
<1>6. CallOK(b, "withSSL", withSSL(b, x))
  BY <1>1, PlainFields DEF withSSL
<1>7. CallOK(b, "withProtocolVersion", withProtocolVersion(b, x))
  BY <1>1, PlainFields DEF withProtocolVersion
<1>8. CallOK(b, "withIOThreads", withIOThreads(b, x))
  BY <1>1, PlainFields DEF withIOThreads
<1>9. CallOK(b, "withReconnectInterval", withReconnectInterval(b, x))
  BY <1>1, PlainFields DEF withReconnectInterval
<1>10. CallOK(b, "withRetryPolicy", withRetryPolicy(b, x))
  BY <1>1, PlainFields DEF withRetryPolicy
<1>11. CallOK(b, "withTimestampGenerator", withTimestampGenerator(b, x))
  BY <1>1, PlainFields DEF withTimestampGenerator
<1>12. CallOK(b, "withConnectionHeartbeatInterval", withConnectionHeartbeatInterval(b, x))
  BY <1>1, PlainFields DEF withConnectionHeartbeatInterval
<1>13. CallOK(b, "withContactPoints", withContactPoints(b, x))
  BY <1>1, PlainFields DEF withContactPoints
<1>14. CallOK(b, "withBlackListHosts", withBlackListHosts(b, x))
  BY <1>1, PlainFields DEF withBlackListHosts
<1>15. CallOK(b, "withWhiteListHosts", withWhiteListHosts(b, x))
  BY <1>1, PlainFields DEF withWhiteListHosts
<1>16. CallOK(b, "withBlackListDCs", withBlackListDCs(b, x))
  BY <1>1, PlainFields DEF withBlackListDCs
<1>17. CallOK(b, "withWhiteListDCs", withWhiteListDCs(b, x))
  BY <1>1, PlainFields DEF withWhiteListDCs
<1>18. CallOK(b, "withTokenAwareRouting", withTokenAwareRouting(b, x))
  BY <1>1, PlainFields DEF withTokenAwareRouting
<1>19. CallOK(b, "withPersistentSessions", withPersistentSessions(b, x))
  BY <1>1, PlainFields DEF withPersistentSessions
<1>20. CallOK(b, "withLatencyAwareRouting", withLatencyAwareRouting(b, x))
  BY <1>1, PlainFields DEF withLatencyAwareRouting
<1>21. CallOK(b, "withTCPNodelay", withTCPNodelay(b, x))
  BY <1>1, PlainFields DEF withTCPNodelay
<1>22. CallOK(b, "withSchemaMetadata", withSchemaMetadata(b, x))
  BY <1>1, PlainFields DEF withSchemaMetadata
<1>23. CallOK(b, "withHostnameResolution", withHostnameResolution(b, x))
  BY <1>1, PlainFields DEF withHostnameResolution
<1>24. CallOK(b, "withRandomizedContactPoints", withRandomizedContactPoints(b, x))
  BY <1>1, PlainFields DEF withRandomizedContactPoints
<1> QED
  BY <1>2, <1>3, <1>4, <1>5, <1>6, <1>7, <1>8, <1>9, <1>10, <1>11, <1>12, <1>13, <1>14, <1>15, <1>16, <1>17, <1>18, <1>19, <1>20, <1>21, <1>22, <1>23, <1>24

(* Every call of a method of the builder.                                  *)
LEMMA CallsOK ==
  ASSUME NEW b, BuilderOK(b), NEW c \in Calls(b, Zvals, Lists)
  PROVE  CallOK(b, c[1], c[2])
<1>1. \/ \E z \in Zvals :
           \/ c = <<"withDefaultConsistency", withDefaultConsistency(b, z)>>
           \/ c = <<"withDefaultPageSize", withDefaultPageSize(b, z)>>
           \/ c = <<"withTCPKeepalive", withTCPKeepalive(b, z)>>
           \/ c = <<"withDefaultTimeout", withDefaultTimeout(b, z)>>
           \/ c = <<"withPort", withPort(b, z)>>
           \/ c = <<"withConnectTimeout", withConnectTimeout(b, z)>>
           \/ c = <<"withRequestTimeout", withRequestTimeout(b, z)>>
           \/ c = <<"withSSL", withSSL(b, z)>>
           \/ c = <<"withProtocolVersion", withProtocolVersion(b, z)>>
           \/ c = <<"withIOThreads", withIOThreads(b, z)>>
           \/ c = <<"withReconnectInterval", withReconnectInterval(b, z)>>
           \/ c = <<"withRetryPolicy", withRetryPolicy(b, z)>>
           \/ c = <<"withTimestampGenerator", withTimestampGenerator(b, z)>>
           \/ c = <<"withConnectionHeartbeatInterval", withConnectionHeartbeatInterval(b, z)>>
      \/ \E y, z \in Zvals :
           \/ c = <<"withCredentials", withCredentials(b, y, z)>>
           \/ c = <<"withConnectionsPerHost", withConnectionsPerHost(b, y, z)>>
      \/ c = <<"withRoundRobinLoadBalancingPolicy", withRoundRobinLoadBalancingPolicy(b)>>
      \/ \E dc \in LocalDC, z \in Zvals, e \in BOOLEAN :
           c = <<"withDatacenterAwareRoundRobinLoadBalancingPolicy",
                 withDatacenterAwareRoundRobinLoadBalancingPolicy(b, dc, z, e)>>
      \/ \E l \in Lists :
           \/ c = <<"withContactPoints", withContactPoints(b, l)>>
           \/ c = <<"withBlackListHosts", withBlackListHosts(b, l)>>
           \/ c = <<"withWhiteListHosts", withWhiteListHosts(b, l)>>
           \/ c = <<"withBlackListDCs", withBlackListDCs(b, l)>>
           \/ c = <<"withWhiteListDCs", withWhiteListDCs(b, l)>>
      \/ \E e \in BOOLEAN :
           \/ c = <<"withTokenAwareRouting", withTokenAwareRouting(b, e)>>
           \/ c = <<"withPersistentSessions", withPersistentSessions(b, e)>>
           \/ c = <<"withLatencyAwareRouting", withLatencyAwareRouting(b, e)>>
           \/ c = <<"withTCPNodelay", withTCPNodelay(b, e)>>
           \/ c = <<"withSchemaMetadata", withSchemaMetadata(b, e)>>
           \/ c = <<"withHostnameResolution", withHostnameResolution(b, e)>>
           \/ c = <<"withRandomizedContactPoints", withRandomizedContactPoints(b, e)>>
  BY DEF Calls
<1> QED
  BY <1>1, PlainCalls, ConsistencyOK, PageSizeOK, KeepaliveOK, CredentialsOK, ConnectionsOK,
     RoundRobinOK, DatacenterOK

-----------------------------------------------------------------------------
(* What is known of the state between two calls.                           *)

AskedFields == {"default_consistency", "default_page_size", "refused", "statement", "options"}

AskedOK ==
  /\ DOMAIN asked = AskedFields /\ asked = [f \in AskedFields |-> asked[f]]
  /\ asked.default_consistency \in Int \cup {NULL}
  /\ asked.default_page_size \in Int \cup {NULL}

(* The defaults of d are the ones asked for, else the documented ones.     *)
DefaultsAsked(d) ==
  /\ d.default_consistency = IF asked.default_consistency # NULL
                               THEN asked.default_consistency ELSE LOCAL_ONE
  /\ d.default_page_size = IF asked.default_page_size # NULL THEN asked.default_page_size ELSE 5000

BuilderAsked ==
  builder # NULL =>
    /\ BuilderOK(builder) /\ DefaultsAsked(builder)
    /\ cluster = NULL /\ session = NULL
    /\ builder.core_connections_per_host > builder.max_connections_per_host
         => "withConnectionsPerHost" \in asked.refused

ClusterAsked ==
  cluster # NULL => DefaultsAsked(cluster) /\ builder = NULL /\ session = NULL

SessionAsked ==
  session # NULL =>
    /\ builder = NULL /\ cluster = NULL /\ session.default_timeout = NULL
    /\ \/ session.via = "connect" /\ DefaultsAsked(session)
       \/ /\ session.via = "future"
          /\ session.default_consistency = LOCAL_ONE /\ session.default_page_size = 5000

BatchOK == batch \in Seq([statement : {"simple", "prepared"}, args : Arguments])

RInv ==
  /\ AskedOK /\ BuilderAsked /\ ClusterAsked /\ SessionAsked /\ BatchOK
  /\ sent # NULL => session # NULL
  /\ RequestAsAsked

LEMMA FirstIn ==
  ASSUME NEW S \in SUBSET Nat, S # {}
  PROVE  \E i \in S : \A j \in S : i <= j
<1> DEFINE R == {ss \in Nat \X Nat : ss[1] < ss[2]}
<1>1. PICK x \in S : \A y \in S : ~(<<y, x>> \in R)
  <2>1. IsWellFoundedOn(R, Nat)
    BY NatLessThanWellFounded DEF OpToRel
  <2> HIDE DEF R
  <2> QED
    BY <2>1, WFMin
<1>2. ASSUME NEW y \in S PROVE x <= y
  <2>1. <<y, x>> \in Nat \X Nat /\ <<y, x>>[1] = y /\ <<y, x>>[2] = x
    OBVIOUS
  <2> QED
    BY <1>1, <2>1
<1> QED
  BY <1>2

(* A function over 1..n is a sequence of length n.                         *)
LEMMA FunLen ==
  ASSUME NEW n \in Nat, NEW f, DOMAIN f = 1..n, f = [i \in 1..n |-> f[i]]
  PROVE  Len(f) = n
<1>1. PICK S : S = {f[i] : i \in 1..n}
  OBVIOUS
<1>2. f \in [1..n -> S]
  BY <1>1
<1>3. f \in Seq(S)
  BY <1>2, SeqDef
<1> QED
  BY <1>3, LenProperties

(* The first failure of a list of arguments, and of a batch.               *)
LEMMA BindSent ==
  ASSUME NEW statement, NEW args, BindOutcome(statement, args) = "sent"
  PROVE  \A i \in 1..Len(args) : BindFails(statement, args, i) = "no"
<1>1. PICK F : F = {i \in 1..Len(args) : BindFails(statement, args, i) # "no"}
  OBVIOUS
<1>2. \A i : BindFails(statement, args, i) \in {"silent", "thrown", "no"}
  BY DEF BindFails
<1>3. F # {} => BindOutcome(statement, args) = BindFails(statement, args, CHOOSE i \in F : \A j \in F : i <= j)
  BY <1>1 DEF BindOutcome
<1>4. F = {}
  BY <1>2, <1>3
<1> QED
  BY <1>1, <1>4

LEMMA BatchSent ==
  ASSUME BatchOK, BatchOutcome = "sent"
  PROVE  \A i \in 1..Len(batch) :
           /\ Is(batch[i].args, "array")
           /\ BindOutcome(batch[i].statement, batch[i].args.items) = "sent"
<1>1. PICK F : F = {i \in 1..Len(batch) : EntryOutcome(batch[i]) # "sent"}
  OBVIOUS
<1>2. F \in SUBSET Nat
  <2>1. Len(batch) \in Nat
    BY DEF BatchOK
  <2> QED
    BY <1>1, <2>1
<1>3. F # {} => BatchOutcome = EntryOutcome(batch[CHOOSE i \in F : \A j \in F : i <= j])
  BY <1>1 DEF BatchOutcome
<1>4. F # {} => (CHOOSE i \in F : \A j \in F : i <= j) \in F
  <2>1. F # {} => \E i \in F : \A j \in F : i <= j
    BY <1>2, FirstIn
  <2> QED
    BY <2>1, Zenon
<1>5. F = {}
  <2>1. PICK k : k = CHOOSE i \in F : \A j \in F : i <= j
    OBVIOUS
  <2>2. F # {} => k \in F /\ EntryOutcome(batch[k]) = "sent"
    BY <1>3, <1>4, <2>1
  <2> QED
    BY <1>1, <2>2
<1>6. \A i \in 1..Len(batch) : EntryOutcome(batch[i]) = "sent"
  BY <1>1, <1>5
<1> QED
  BY <1>6 DEF EntryOutcome

(* A key or a value reaches the driver as it is exactly if it is whole.    *)
LEMMA UpToNulIs ==
  ASSUME NEW z, PhpValue(z), Is(z, "string")
  PROVE  UpToNul(z) = z <=> Whole(z)
<1>1. z \in [type : {"string"}, parts : Seq(STRING)] /\ z.parts # <<>>
  BY DEF PhpValue, Is
<1>2. PICK p \in Seq(STRING) : p = z.parts /\ p # <<>>
  BY <1>1
<1>3. PICK c : c = <<Head(p)>>
  OBVIOUS
<1>4. Len(c) = 1 /\ c[1] = Head(p)
  BY <1>3
<1>5. c = p <=> Len(p) = 1
  <2>1. CASE Len(p) = 1
    BY <1>2, <1>3, <2>1
  <2>2. CASE Len(p) # 1
    BY <1>4, <2>2
  <2> QED
    BY <2>1, <2>2
<1>6. UpToNul(z) = [z EXCEPT !.parts = c]
  BY <1>2, <1>3 DEF UpToNul
<1>7. [z EXCEPT !.parts = c] = z <=> c = p
  BY <1>1, <1>2
<1>8. Whole(z) <=> Len(p) = 1
  BY <1>2 DEF Whole, Is
<1> QED
  BY <1>5, <1>6, <1>7, <1>8

LEMMA BoundIs ==
  ASSUME NEW z, PhpValue(z)
  PROVE  Bound(z) = z <=> Whole(z)
<1>1. CASE Is(z, "long")
  <2>1. z \in [type : {"long"}, v : Int]
    BY <1>1 DEF PhpValue, Is
  <2>2. PICK n \in Int : n = z.v
    BY <2>1
  <2>3. PICK m \in Int : m = SignedInt(n)
    BY SignedIntIs
  <2>4. m = n <=> n \in -(IntRange \div 2) .. IntRange \div 2 - 1
    BY <2>3, SignedIntIs, SignedIntIn
  <2>5. Bound(z) = [z EXCEPT !.v = m]
    BY <1>1, <2>2, <2>3 DEF Bound
  <2>6. [z EXCEPT !.v = m] = z <=> m = n
    BY <2>1, <2>2
  <2>7. Whole(z) <=> n \in -(IntRange \div 2) .. IntRange \div 2 - 1
    BY <1>1, <2>2 DEF Whole, Is
  <2> QED
    BY <2>4, <2>5, <2>6, <2>7
<1>2. CASE Is(z, "string")
  BY <1>2, UpToNulIs DEF Bound, Is
<1>3. CASE ~Is(z, "long") /\ ~Is(z, "string")
  BY <1>3 DEF Bound, UpToNul, Whole
<1> QED
  BY <1>1, <1>2, <1>3

(* A statement made from arguments that can all be bound.                  *)
LEMMA StatementFaithful ==
  ASSUME NEW statement, NEW z, PhpArray(z), BindOutcome(statement, z.items) = "sent"
  PROVE  Faithful(create_statement(statement, z.items), statement, z.items)
<1>1. PICK args : args = z.items
  OBVIOUS
<1>2. /\ Len(args) \in Nat /\ BindOutcome(statement, args) = "sent"
      /\ \A j \in 1..Len(args) : PhpValue(args[j][1]) /\ PhpValue(args[j][2])
  BY <1>1 DEF PhpArray
<1>3. PICK v : v = [i \in 1..Len(args) |-> <<UpToNul(args[i][1]), Bound(args[i][2])>>]
  OBVIOUS
<1>4. DOMAIN v = 1..Len(args) /\ v = [i \in 1..Len(args) |-> v[i]]
  BY <1>3
<1>5. Len(v) = Len(args)
  BY <1>2, <1>4, FunLen
<1>6. \A j \in 1..Len(args) : v[j][1] = UpToNul(args[j][1]) /\ v[j][2] = Bound(args[j][2])
  BY <1>3
<1>7. PICK r : r = create_statement(statement, args)
  OBVIOUS
<1>8. r.statement = statement /\ r.values = v
  BY <1>3, <1>7 DEF create_statement
<1>9. ASSUME NEW j \in 1..Len(args)
      PROVE  /\ args[j][2].type \notin {"object", "array"}
             /\ v[j][1] = args[j][1] <=> (Is(args[j][1], "string") => Whole(args[j][1]))
             /\ v[j][2] = args[j][2] <=> Whole(args[j][2])
  <2>1. BindFails(statement, args, j) = "no"
    BY <1>2, BindSent
  <2>2. args[j][2].type \notin {"object", "array"}
    BY <2>1 DEF BindFails
  <2>3. v[j][1] = args[j][1] <=> (Is(args[j][1], "string") => Whole(args[j][1]))
    <3>1. CASE Is(args[j][1], "string")
      BY <1>2, <1>6, <3>1, UpToNulIs
    <3>2. CASE ~Is(args[j][1], "string")
      BY <1>6, <3>2 DEF UpToNul
    <3> QED
      BY <3>1, <3>2
  <2>4. v[j][2] = args[j][2] <=> Whole(args[j][2])
    BY <1>2, <1>6, BoundIs
  <2> QED
    BY <2>2, <2>3, <2>4
<1> QED
  BY <1>1, <1>5, <1>7, <1>8, <1>9 DEF Faithful

(* What the options or the session's defaults say.                         *)
LEMMA ConsistencyChosen ==
  ASSUME NEW a, BuildsLocal(a), NEW d
  PROVE  Chosen(Option(a, "consistency"), d) =
           IF "consistency" \in DOMAIN a THEN Contents(a["consistency"]) ELSE d
<1>1. CASE "consistency" \in DOMAIN a
  <2>1. Valid("consistency", a["consistency"])
    BY <1>1 DEF BuildsLocal
  <2>2. PICK z : z = a["consistency"]
    OBVIOUS
  <2>3. Is(z, "long") /\ z.v \in Int
    BY <2>1, <2>2 DEF Valid, php_driver_get_consistency, Consistency
  <2>4. Contents(z) = z.v
    BY <2>3 DEF Contents, Is
  <2>5. Contents(z) # NULL
    BY <2>3, <2>4, ValueAssumption
  <2> QED
    BY <1>1, <2>2, <2>5 DEF Chosen, Option
<1>2. CASE "consistency" \notin DOMAIN a
  BY <1>2 DEF Chosen, Option
<1> QED
  BY <1>1, <1>2

LEMMA PageSizeChosen ==
  ASSUME NEW a, BuildsLocal(a), NEW d \in Int,
         NEW w, w = IF "page_size" \in DOMAIN a THEN Contents(a["page_size"]) ELSE d,
         w < IntRange \div 2
  PROVE  LET n == Chosen(PageSize(a), d)
         IN  (IF n >= 0 THEN n ELSE NULL) = IF w < 0 THEN NULL ELSE w
<1>1. CASE "page_size" \in DOMAIN a
  <2>1. Valid("page_size", a["page_size"])
    BY <1>1 DEF BuildsLocal
  <2>2. PICK z : z = a["page_size"]
    OBVIOUS
  <2>3. Long(z, 1, AnyLong)
    BY <2>1, <2>2 DEF Valid
  <2>4. Is(z, "long") /\ z.v \in Int /\ z.v >= 1
    BY <2>3, AnyLongIs DEF Long
  <2>5. Contents(z) = z.v
    BY <2>4 DEF Contents, Is
  <2>6. w = z.v /\ Option(a, "page_size") = z.v
    BY <1>1, <2>2, <2>5 DEF Option
  <2>7. SignedInt(z.v) = z.v
    <3>1. z.v \in -(IntRange \div 2) .. IntRange \div 2 - 1
      BY <2>4, <2>6, IntHalf
    <3> QED
      BY <2>4, <3>1, SignedIntIs
  <2>8. z.v # NULL
    BY <2>4, ValueAssumption
  <2>9. PageSize(a) = z.v
    BY <2>4, <2>6, <2>7, <2>8 DEF PageSize
  <2>10. Chosen(PageSize(a), d) = z.v
    BY <2>8, <2>9 DEF Chosen
  <2> QED
    BY <2>4, <2>6, <2>10
<1>2. CASE "page_size" \notin DOMAIN a
  <2>1. PageSize(a) = NULL
    BY <1>2 DEF PageSize, Option
  <2>2. Chosen(PageSize(a), d) = d
    BY <2>1 DEF Chosen
  <2> QED
    BY <1>2, <2>2
<1> QED
  BY <1>1, <1>2

-----------------------------------------------------------------------------
(* The steps.                                                              *)

LEMMA RInit == RequestsInit => RInv
<1> SUFFICES ASSUME RequestsInit PROVE RInv
  OBVIOUS
<1>1. AskedOK /\ asked.default_consistency = NULL /\ asked.default_page_size = NULL
  BY DEF RequestsInit, Nothing, AskedOK, AskedFields
<1>2. builder = php_driver_cluster_builder_new /\ cluster = NULL /\ session = NULL /\ sent = NULL
  BY DEF RequestsInit
<1>3. BuilderAsked
  BY <1>1, <1>2, NewBuilderOK DEF BuilderAsked, DefaultsAsked
<1>4. BatchOK
  BY DEF RequestsInit, BatchOK
<1> QED
  BY <1>1, <1>2, <1>3, <1>4 DEF RInv, ClusterAsked, SessionAsked, RequestAsAsked

(* The history that a call of a with* method leaves.                       *)
LEMMA WithAsked ==
  ASSUME AskedOK, NEW name, NEW r, With(name, r),
         NEW b, DefaultsAsked(b), CallOK(b, name, r)
  PROVE  /\ AskedOK' /\ asked.refused \subseteq asked'.refused
         /\ r.builder.default_consistency = IF asked'.default_consistency # NULL
                               THEN asked'.default_consistency ELSE LOCAL_ONE
         /\ r.builder.default_page_size = IF asked'.default_page_size # NULL
                               THEN asked'.default_page_size ELSE 5000
         /\ ~r.ok => name \in asked'.refused
<1>1. CASE ~r.ok
  <2>1. asked' = [asked EXCEPT !.refused = @ \cup {name}]
    BY <1>1 DEF With
  <2>2. /\ asked'.default_consistency = asked.default_consistency
        /\ asked'.default_page_size = asked.default_page_size
        /\ asked'.refused = asked.refused \cup {name}
    BY <2>1 DEF AskedOK, AskedFields
  <2>3. AskedOK'
    BY <2>1, <2>2 DEF AskedOK, AskedFields
  <2> QED
    BY <1>1, <2>2, <2>3 DEF CallOK, DefaultsAsked
<1>2. CASE r.ok /\ name = "withDefaultConsistency"
  <2>1. asked' = [asked EXCEPT !.default_consistency = r.builder.default_consistency]
    BY <1>2 DEF With
  <2>2. /\ asked'.default_consistency = r.builder.default_consistency
        /\ asked'.default_page_size = asked.default_page_size
        /\ asked'.refused = asked.refused
    BY <2>1 DEF AskedOK, AskedFields
  <2>3. r.builder.default_consistency \in Int /\ r.builder.default_consistency # NULL
    BY <1>2, ValueAssumption DEF CallOK
  <2>4. AskedOK'
    BY <2>1, <2>2, <2>3 DEF AskedOK, AskedFields
  <2> QED
    BY <1>2, <2>2, <2>3, <2>4 DEF CallOK, DefaultsAsked
<1>3. CASE r.ok /\ name = "withDefaultPageSize"
  <2>1. asked' = [asked EXCEPT !.default_page_size = r.builder.default_page_size]
    BY <1>3 DEF With
  <2>2. /\ asked'.default_page_size = r.builder.default_page_size
        /\ asked'.default_consistency = asked.default_consistency
        /\ asked'.refused = asked.refused
    BY <2>1 DEF AskedOK, AskedFields
  <2>3. r.builder.default_page_size \in Int /\ r.builder.default_page_size # NULL
    BY <1>3, ValueAssumption DEF CallOK, BuilderOK
  <2>4. AskedOK'
    BY <2>1, <2>2, <2>3 DEF AskedOK, AskedFields
  <2> QED
    BY <1>3, <2>2, <2>3, <2>4 DEF CallOK, DefaultsAsked
<1>4. CASE r.ok /\ name \notin {"withDefaultConsistency", "withDefaultPageSize"}
  <2>1. asked' = asked
    BY <1>4 DEF With
  <2> QED
    BY <1>4, <2>1 DEF CallOK, DefaultsAsked, AskedOK
<1> QED
  BY <1>1, <1>2, <1>3, <1>4

LEMMA WithStep ==
  ASSUME RInv, builder # NULL, NEW c \in Calls(builder, Zvals, Lists), With(c[1], c[2])
  PROVE  RInv'
<1>1. BuilderOK(builder) /\ DefaultsAsked(builder) /\ cluster = NULL /\ session = NULL /\ sent = NULL
  BY DEF RInv, BuilderAsked
<1>2. CallOK(builder, c[1], c[2])
  BY <1>1, CallsOK
<1>3. PICK name, r : name = c[1] /\ r = c[2]
  OBVIOUS
<1>4. CallOK(builder, name, r) /\ With(name, r)
  BY <1>2, <1>3
<1>5. /\ AskedOK' /\ asked.refused \subseteq asked'.refused
      /\ r.builder.default_consistency = IF asked'.default_consistency # NULL
                               THEN asked'.default_consistency ELSE LOCAL_ONE
      /\ r.builder.default_page_size = IF asked'.default_page_size # NULL
                               THEN asked'.default_page_size ELSE 5000
      /\ ~r.ok => name \in asked'.refused
  BY <1>1, <1>4, WithAsked DEF RInv
<1>6. builder' = r.builder /\ UNCHANGED <<cluster, session, batch, sent>>
  BY <1>4 DEF With
<1>7. BuilderAsked'
  <2>1. BuilderOK(builder')
    BY <1>4, <1>6 DEF CallOK
  <2>2. DefaultsAsked(builder)'
    BY <1>5, <1>6 DEF DefaultsAsked
  <2>3. builder'.core_connections_per_host > builder'.max_connections_per_host
          => "withConnectionsPerHost" \in asked'.refused
    BY <1>4, <1>5, <1>6 DEF CallOK, RInv, BuilderAsked
  <2> QED
    BY <1>1, <1>6, <2>1, <2>2, <2>3 DEF BuilderAsked
<1> QED
  BY <1>1, <1>5, <1>6, <1>7 DEF RInv, ClusterAsked, SessionAsked, BatchOK, RequestAsAsked

LEMMA BuildStep == ASSUME RInv, build PROVE RInv'
<1>1. /\ BuilderOK(builder) /\ DefaultsAsked(builder) /\ cluster = NULL /\ session = NULL
      /\ sent = NULL /\ builder # NULL
  BY DEF RInv, BuilderAsked, build
<1>2. CASE /\ cluster' = Built(builder) /\ builder' = NULL
           /\ asked' = [asked EXCEPT !.refused = {}]
  <2>1. /\ cluster'.default_consistency = builder.default_consistency
        /\ cluster'.default_page_size = builder.default_page_size
    BY <1>2 DEF Built
  <2>2. /\ asked'.default_consistency = asked.default_consistency
        /\ asked'.default_page_size = asked.default_page_size
    BY <1>2 DEF RInv, AskedOK, AskedFields
  <2>3. AskedOK'
    BY <1>2, <2>2 DEF RInv, AskedOK, AskedFields
  <2>4. ClusterAsked'
    BY <1>1, <1>2, <2>1, <2>2 DEF ClusterAsked, DefaultsAsked, build
  <2> QED
    BY <1>1, <1>2, <2>3, <2>4 DEF RInv, BuilderAsked, SessionAsked, BatchOK, RequestAsAsked, build
<1>3. CASE UNCHANGED <<cluster, builder, asked>>
  BY <1>1, <1>3 DEF RInv, AskedOK, BuilderAsked, DefaultsAsked, ClusterAsked, SessionAsked, BatchOK,
                    RequestAsAsked, build
<1> QED
  BY <1>2, <1>3 DEF build

LEMMA ConnectStep == ASSUME RInv, connect PROVE RInv'
<1>1. DefaultsAsked(cluster) /\ builder = NULL /\ session = NULL /\ sent = NULL
  BY DEF RInv, ClusterAsked, connect
<1>2. UNCHANGED <<builder, batch, sent, asked>> /\ cluster' = NULL
  BY DEF connect
<1>3. SessionAsked'
  <2>1. CASE session' = Connected
    <3>1. /\ session'.via = "connect"
          /\ session'.default_consistency = cluster.default_consistency
          /\ session'.default_page_size = cluster.default_page_size
          /\ session'.default_timeout = NULL
      BY <2>1 DEF Connected, php_driver_default_session_new
    <3> QED
      BY <1>1, <1>2, <3>1 DEF SessionAsked, DefaultsAsked
  <2>2. CASE session' = FutureConnected
    <3>1. /\ session'.via = "future"
          /\ session'.default_consistency = LOCAL_ONE /\ session'.default_page_size = 5000
          /\ session'.default_timeout = NULL
      BY <2>2 DEF FutureConnected, php_driver_default_session_new
    <3> QED
      BY <1>1, <1>2, <3>1 DEF SessionAsked
  <2> QED
    BY <2>1, <2>2 DEF connect
<1> QED
  BY <1>1, <1>2, <1>3 DEF RInv, AskedOK, BuilderAsked, ClusterAsked, BatchOK, RequestAsAsked

(* RequestAsAsked, by what it compares.                                    *)
Described(q, a, list, consistency, page_size) ==
  /\ q.consistency = consistency
  /\ q.kind = "single" /\ page_size < IntRange \div 2 =>
       q.page_size = IF page_size < 0 THEN NULL ELSE page_size
  /\ q.timeout = Option(a, "timeout")
  /\ Len(q.statements) = Len(list)
  /\ \A i \in 1..Len(list) : Faithful(q.statements[i], list[i].statement, list[i].args)
  /\ BuildsLocal(a)

List ==
  IF sent.kind = "batch"
    THEN [i \in 1..Len(batch) |-> [batch[i] EXCEPT !.args = @.items]]
    ELSE <<[statement |-> asked.statement, args |-> OwnArguments(asked.options)]>>

LEMMA RequestIs ==
  /\ RequestAsAsked <=>
       (sent # NULL =>
          Described(sent, asked.options, List, Wanted("consistency", "default_consistency", LOCAL_ONE),
                    Wanted("page_size", "default_page_size", 5000)))
  /\ RequestAsAsked' <=>
       (sent' # NULL =>
          Described(sent', asked'.options, List',
                    Wanted("consistency", "default_consistency", LOCAL_ONE)',
                    Wanted("page_size", "default_page_size", 5000)'))
BY DEF RequestAsAsked, Described, List

(* A step of a session that leaves the request and what was asked alone.   *)
LEMMA QuietStep ==
  ASSUME RInv, UNCHANGED <<builder, cluster, session, batch, sent, asked>>
  PROVE  RInv'
<1>1. AskedOK' /\ BuilderAsked' /\ ClusterAsked' /\ SessionAsked' /\ BatchOK'
  BY DEF RInv, AskedOK, BuilderAsked, DefaultsAsked, ClusterAsked, SessionAsked, BatchOK
<1>2. RequestAsAsked'
  <2>1. RequestAsAsked
    BY DEF RInv
  <2>2. \A key, field, otherwise : Wanted(key, field, otherwise)' = Wanted(key, field, otherwise)
    BY DEF Wanted
  <2>3. List' = List
    BY DEF List
  <2>4. sent # NULL =>
          Described(sent, asked.options, List, Wanted("consistency", "default_consistency", LOCAL_ONE),
                    Wanted("page_size", "default_page_size", 5000))
    BY <2>1, RequestIs
  <2> QED
    BY <2>2, <2>3, <2>4, RequestIs
<1> QED
  BY <1>1, <1>2 DEF RInv

LEMMA AddStep ==
  ASSUME RInv, NEW statement, NEW args \in Arguments, add(statement, args)
  PROVE  RInv'
<1>1. session # NULL /\ sent = NULL /\ UNCHANGED <<builder, cluster, session, sent, asked>>
  BY DEF add
<1>2. BatchOK'
  <2>1. PICK Entries : Entries = [statement : {"simple", "prepared"}, args : Arguments]
    OBVIOUS
  <2>2. batch \in Seq(Entries)
    BY <2>1 DEF RInv, BatchOK
  <2>3. CASE statement \in {"simple", "prepared"}
    <3>1. PICK e : e = [statement |-> statement, args |-> args]
      OBVIOUS
    <3>2. e \in Entries
      BY <2>1, <2>3, <3>1
    <3>3. batch' = Append(batch, e)
      BY <2>3, <3>1 DEF add
    <3> QED
      BY <2>1, <2>2, <3>2, <3>3 DEF BatchOK
  <2>4. CASE statement \notin {"simple", "prepared"}
    BY <2>1, <2>2, <2>4 DEF add, BatchOK
  <2> QED
    BY <2>3, <2>4
<1> QED
  BY <1>1, <1>2 DEF RInv, AskedOK, BuilderAsked, DefaultsAsked, ClusterAsked, SessionAsked,
                    RequestAsAsked

LEMMA AnswerStep == ASSUME RInv, Answer PROVE RInv'
<1>1. /\ builder = NULL /\ cluster = NULL /\ session # NULL /\ sent' = NULL /\ batch' = <<>>
      /\ UNCHANGED <<builder, cluster, session>>
      /\ asked' = [asked EXCEPT !.statement = NULL, !.options = NULL]
  BY DEF Answer, RInv, SessionAsked
<1>2. /\ asked'.default_consistency = asked.default_consistency
      /\ asked'.default_page_size = asked.default_page_size
  BY <1>1 DEF RInv, AskedOK, AskedFields
<1>3. AskedOK'
  BY <1>1, <1>2 DEF RInv, AskedOK, AskedFields
<1>4. SessionAsked'
  BY <1>1, <1>2 DEF RInv, SessionAsked, DefaultsAsked
<1>5. BatchOK'
  BY <1>1 DEF BatchOK
<1>6. BuilderAsked' /\ ClusterAsked'
  BY <1>1 DEF BuilderAsked, ClusterAsked
<1>7. RequestAsAsked'
  BY <1>1 DEF RequestAsAsked
<1> QED
  BY <1>1, <1>3, <1>4, <1>5, <1>6, <1>7 DEF RInv

(* A request that is sent: its consistency and its page size.              *)
LEMMA DefaultsWanted ==
  ASSUME AskedOK, SessionAsked, session # NULL, NEW a, NEW ask,
         ask.default_consistency = asked.default_consistency,
         ask.default_page_size = asked.default_page_size
  PROVE  /\ session.default_page_size \in Int
         /\ session.default_consistency =
              IF session.via = "connect" /\ ask.default_consistency # NULL
                THEN ask.default_consistency ELSE LOCAL_ONE
         /\ session.default_page_size =
              IF session.via = "connect" /\ ask.default_page_size # NULL
                THEN ask.default_page_size ELSE 5000
BY DEF AskedOK, SessionAsked, DefaultsAsked

LEMMA ExecuteStep ==
  ASSUME RInv, NEW statement, NEW a \in OptionArrays, Execute(statement, a)
  PROVE  RInv'
<1>1. /\ session # NULL /\ sent = NULL /\ builder = NULL /\ cluster = NULL
      /\ UNCHANGED <<builder, cluster, session, batch>>
      /\ statement = "batch" <=> batch # <<>>
  BY DEF Execute, RInv, SessionAsked
<1>2. CASE outcome' # "sent"
  <2>1. sent' = NULL /\ asked' = asked
    BY <1>2 DEF Execute
  <2> QED
    BY <1>1, <2>1, QuietStep
<1>3. CASE outcome' = "sent"
  <2>1. BuildsLocal(a)
    BY <1>3 DEF Execute
  <2>2. statement = "batch" => BatchOutcome = "sent"
    BY <1>3, <2>1 DEF Execute
  <2>3. statement # "batch" => BindOutcome(statement, OwnArguments(a)) = "sent"
    BY <1>3, <2>1 DEF Execute
  <2>4. asked' = [asked EXCEPT !.statement = statement, !.options = a]
    BY <1>3 DEF Execute
  <2>5. sent' = IF statement = "batch" THEN create_batch(a)
                                       ELSE create_single(statement, OwnArguments(a), a)
    BY <1>3 DEF Execute
  <2>6. /\ asked'.default_consistency = asked.default_consistency
        /\ asked'.default_page_size = asked.default_page_size
        /\ asked'.statement = statement /\ asked'.options = a
    BY <2>4 DEF RInv, AskedOK, AskedFields
  <2>7. AskedOK'
    BY <2>4, <2>6 DEF RInv, AskedOK, AskedFields
  <2>8. BuilderAsked' /\ ClusterAsked' /\ SessionAsked' /\ BatchOK'
    BY <1>1, <2>6 DEF RInv, BuilderAsked, ClusterAsked, SessionAsked, DefaultsAsked, BatchOK
  <2>9. Wanted("consistency", "default_consistency", LOCAL_ONE)' =
          IF "consistency" \in DOMAIN a THEN Contents(a["consistency"])
                                         ELSE session.default_consistency
    BY <1>1, <2>6, DefaultsWanted DEF Wanted, RInv
  <2>10. Wanted("page_size", "default_page_size", 5000)' =
           IF "page_size" \in DOMAIN a THEN Contents(a["page_size"])
                                        ELSE session.default_page_size
    BY <1>1, <2>6, DefaultsWanted DEF Wanted, RInv
  <2>11. session.default_page_size \in Int
    BY <1>1, DefaultsWanted DEF RInv
  <2>12. sent'.consistency = Wanted("consistency", "default_consistency", LOCAL_ONE)'
    <3>1. sent'.consistency = Chosen(Option(a, "consistency"), session.default_consistency)
      BY <2>5 DEF create_batch, create_single
    <3> QED
      BY <2>1, <2>9, <3>1, ConsistencyChosen
  <2>13. sent'.timeout = Option(a, "timeout")
    <3>1. sent'.timeout = Timeout(a)
      BY <2>5 DEF create_batch, create_single
    <3>2. session.default_timeout = NULL
      BY <1>1 DEF RInv, SessionAsked
    <3> QED
      BY <3>1, <3>2 DEF Timeout, Chosen
  <2>14. CASE statement = "batch"
    <3>1. /\ sent'.kind = "batch"
          /\ sent'.statements = [i \in 1..Len(batch) |->
                create_statement(batch[i].statement, batch[i].args.items)]
      BY <2>5, <2>14 DEF create_batch
    <3>2. PICK l : l = [i \in 1..Len(batch) |-> [batch[i] EXCEPT !.args = @.items]]
      OBVIOUS
    <3>3. PICK t : t = sent'.statements
      OBVIOUS
    <3>4. Len(batch) \in Nat
      BY DEF RInv, BatchOK
    <3>5. Len(l) = Len(batch)
      <4>1. DOMAIN l = 1..Len(batch) /\ l = [i \in 1..Len(batch) |-> l[i]]
        BY <3>2
      <4> QED
        BY <3>4, <4>1, FunLen
    <3>6. Len(t) = Len(batch)
      <4>1. DOMAIN t = 1..Len(batch) /\ t = [i \in 1..Len(batch) |-> t[i]]
        BY <3>1, <3>3
      <4> QED
        BY <3>4, <4>1, FunLen
    <3>7. ASSUME NEW i \in 1..Len(batch)
          PROVE  Faithful(t[i], l[i].statement, l[i].args)
      <4>1. batch[i] \in [statement : {"simple", "prepared"}, args : Arguments]
        <5>1. PICK Entries : Entries = [statement : {"simple", "prepared"}, args : Arguments]
          OBVIOUS
        <5>2. batch \in Seq(Entries)
          BY <5>1 DEF RInv, BatchOK
        <5> QED
          BY <5>1, <5>2, ElementOfSeq
      <4>2. l[i].statement = batch[i].statement /\ l[i].args = batch[i].args.items
        BY <3>2, <4>1
      <4>3. /\ Is(batch[i].args, "array")
            /\ BindOutcome(batch[i].statement, batch[i].args.items) = "sent"
        BY <2>2, <2>14, BatchSent DEF RInv
      <4>4. PhpArray(batch[i].args)
        BY <4>1, <4>3, ValueAssumption
      <4>5. t[i] = create_statement(batch[i].statement, batch[i].args.items)
        BY <3>1, <3>3
      <4> QED
        BY <4>2, <4>3, <4>4, <4>5, StatementFaithful
    <3>8. RequestAsAsked'
      <4>1. sent'.kind # "single"
        BY <3>1
      <4>2. \A i \in 1..Len(l) : Faithful(t[i], l[i].statement, l[i].args)
        BY <3>5, <3>7
      <4>3. l = [i \in 1..Len(batch') |-> [batch'[i] EXCEPT !.args = @.items]]
        BY <1>1, <3>2
      <4>4. Len(t) = Len(l)
        BY <3>5, <3>6
      <4>5. List' = l
        BY <3>1, <4>3 DEF List
      <4>6. Described(sent', asked'.options, List',
                      Wanted("consistency", "default_consistency", LOCAL_ONE)',
                      Wanted("page_size", "default_page_size", 5000)')
        BY <2>1, <2>6, <2>12, <2>13, <3>3, <4>1, <4>2, <4>4, <4>5 DEF Described
      <4> QED
        BY <4>6, RequestIs
    <3> QED
      BY <1>1, <2>7, <2>8, <3>8 DEF RInv
  <2>15. CASE statement # "batch"
    <3>1. PICK args : args = OwnArguments(a)
      OBVIOUS
    <3>2. PICK z : z.items = args /\ PhpArray(z)
      <4>1. CASE "arguments" \in DOMAIN a
        <5>1. Valid("arguments", a["arguments"])
          BY <2>1, <4>1 DEF BuildsLocal
        <5>2. Is(a["arguments"], "array")
          BY <5>1 DEF Valid
        <5>3. PhpArray(a["arguments"])
          BY <4>1, <5>2, ValueAssumption
        <5> QED
          BY <3>1, <4>1, <5>3 DEF OwnArguments
      <4>2. CASE "arguments" \notin DOMAIN a
        <5>1. PICK z : z = [items |-> <<>>]
          OBVIOUS
        <5>2. z.items = <<>> /\ Len(z.items) = 0
          BY <5>1
        <5>3. PhpArray(z)
          BY <5>2 DEF PhpArray
        <5> QED
          BY <3>1, <4>2, <5>2, <5>3 DEF OwnArguments
      <4> QED
        BY <4>1, <4>2
    <3>3. PICK r : r = create_statement(statement, args)
      OBVIOUS
    <3>4. /\ sent'.kind = "single" /\ sent'.statements = <<r>>
          /\ sent'.page_size = LET n == Chosen(PageSize(a), session.default_page_size) IN
                 IF n >= 0 THEN n ELSE NULL
      BY <2>5, <2>15, <3>1, <3>3 DEF create_single
    <3>5. Faithful(r, statement, args)
      BY <2>3, <2>15, <3>1, <3>2, <3>3, StatementFaithful
    <3>6. PICK w : w = Wanted("page_size", "default_page_size", 5000)'
      OBVIOUS
    <3>7. w < IntRange \div 2 => sent'.page_size = IF w < 0 THEN NULL ELSE w
      BY <2>1, <2>10, <2>11, <3>4, <3>6, PageSizeChosen
    <3>8. RequestAsAsked'
      <4>1. PICK l : l = <<[statement |-> statement, args |-> args]>>
        OBVIOUS
      <4>2. Len(l) = 1 /\ l[1].statement = statement /\ l[1].args = args
        BY <4>1
      <4>3. Len(sent'.statements) = 1 /\ sent'.statements[1] = r
        BY <3>4
      <4>4. l = <<[statement |-> asked'.statement, args |-> OwnArguments(asked'.options)]>>
        BY <2>6, <3>1, <4>1
      <4>5. \A i \in 1..Len(l) : Faithful(sent'.statements[i], l[i].statement, l[i].args)
        BY <3>5, <4>2, <4>3
      <4>6. List' = l
        BY <3>4, <4>4 DEF List
      <4>7. Described(sent', asked'.options, List',
                      Wanted("consistency", "default_consistency", LOCAL_ONE)',
                      Wanted("page_size", "default_page_size", 5000)')
        BY <2>1, <2>6, <2>12, <2>13, <3>6, <3>7, <4>2, <4>3, <4>5, <4>6 DEF Described
      <4> QED
        BY <4>7, RequestIs
    <3> QED
      BY <1>1, <2>7, <2>8, <3>8 DEF RInv
  <2> QED
    BY <2>14, <2>15
<1> QED
  BY <1>2, <1>3

LEMMA RNext == RInv /\ [RequestsNext]_requestVars => RInv'
<1> SUFFICES ASSUME RInv, [RequestsNext]_requestVars PROVE RInv'
  OBVIOUS
<1>1. CASE builder # NULL /\ \E c \in Calls(builder, Zvals, Lists) : With(c[1], c[2])
  BY <1>1, WithStep
<1>2. CASE build
  BY <1>2, BuildStep
<1>3. CASE connect
  BY <1>3, ConnectStep
<1>4. CASE \E statement \in {"simple", "prepared", "batch"}, a \in OptionArrays :
             Execute(statement, a)
  BY <1>4, ExecuteStep
<1>5. CASE Answer
  BY <1>5, AnswerStep
<1>6. CASE \E statement \in {"simple", "prepared", "batch"}, args \in Arguments :
             add(statement, args)
  BY <1>6, AddStep
<1>7. CASE \E a \in OptionArrays : prepare(a)
  BY <1>7, QuietStep DEF prepare
<1>8. CASE prepareAsync
  BY <1>8, QuietStep DEF prepareAsync
<1>9. CASE FuturePreparedStatementGet
  BY <1>9, QuietStep DEF FuturePreparedStatementGet
<1>10. CASE UNCHANGED requestVars
  BY <1>10, QuietStep DEF requestVars
<1> QED
  BY <1>1, <1>2, <1>3, <1>4, <1>5, <1>6, <1>7, <1>8, <1>9, <1>10 DEF RequestsNext

(* Whatever sequence of with* calls PHP code makes, with whatever          *)
(* arguments, accepted or refused, the settings the builder holds go       *)
(* together (Cluster/Builder.c).                                           *)
THEOREM SettingsConsistent == RequestsSpec => []ConsistentSettings
<1>1. RInv => ConsistentSettings
  BY DEF RInv, BuilderAsked, BuilderOK, Together, ConsistentSettings
<1> QED
  BY <1>1, RInit, RNext, PTL DEF RequestsSpec

(* Every request that execute hands to the driver is the one PHP code      *)
(* described, whatever was configured, connected, added and executed       *)
(* before it (DefaultSession.c, BatchStatement.c, ExecutionOptions.c).     *)
THEOREM RequestsAsAsked == RequestsSpec => []RequestAsAsked
<1>1. RInv => RequestAsAsked
  BY DEF RInv
<1> QED
  BY <1>1, RInit, RNext, PTL DEF RequestsSpec

-----------------------------------------------------------------------------
(* What the extension keeps per process.                                   *)

(* Both halves of the state are independent of each other.                 *)

(* The strengthening of LogLocationWhole: the lock keeps readers and the   *)
(* writer apart, a thread between its lock and its unlock is a reader, the *)
(* location is unset or a live string, and a measured length is that of    *)
(* the location that is still in place.                                    *)
LockInv ==
  /\ log_lock \in [readers : SUBSET IOThread, writer : BOOLEAN]
  /\ updating \in {"no", "locked", "freed", "stored"}
  /\ updating # "no" => log_lock.readers = {} /\ log_lock.writer = TRUE

LocationInv ==
  /\ strings \in Seq([path : Path, live : BOOLEAN])
  /\ log_location # NULL => /\ log_location \in 1..Len(strings)
                            /\ strings[log_location].live = TRUE

ThreadInv ==
  /\ logging \in [IOThread -> [at : {"no", "locked", "measured", "copied", "writing"},
                               length : Path \cup {NULL}, text : Path \cup {NULL}]]
  /\ \A t \in IOThread :
       /\ logging[t].at \in {"locked", "measured", "copied"} => t \in log_lock.readers
       /\ logging[t].at = "measured" => logging[t].length = Read
       /\ logging[t].at \in {"copied", "writing"} => logging[t].length = logging[t].text

LogInv == LockInv /\ LocationInv /\ ThreadInv

(* Whatever is read under the lock is a whole location or none.            *)
LEMMA ReadWhole == LocationInv => Read \in Path \cup {NULL}
<1> SUFFICES ASSUME LocationInv, log_location # NULL PROVE Read \in Path
  BY DEF Read
<1>1. strings[log_location] \in [path : Path, live : BOOLEAN]
  <2>1. log_location \in 1..Len(strings) /\ strings \in Seq([path : Path, live : BOOLEAN])
    BY DEF LocationInv
  <2> QED
    BY <2>1, ElementOfSeq
<1> QED
  BY <1>1 DEF LocationInv, Read

(* The logging invariant holds at start-up. *)
LEMMA LogInit == ProcessInit => LogInv
<1> SUFFICES ASSUME ProcessInit PROVE LogInv
  OBVIOUS
<1>1. LockInv
  BY DEF ProcessInit, LockInv
<1>2. LocationInv
  BY DEF ProcessInit, LocationInv
<1>3. ThreadInv
  BY DEF ProcessInit, ThreadInv, NotLogging
<1> QED
  BY <1>1, <1>2, <1>3 DEF LogInv

(* While the setting changes no thread reads it, so none has measured what *)
(* the change replaces.                                                    *)
LEMMA UpdateKeepsLog ==
  ASSUME LogInv, OnUpdateLog
  PROVE  LogInv'
<1> USE DEF LogInv
<1>1. logging' = logging
  BY DEF OnUpdateLog
<1>2. CASE updating = "no"
  <2>1. /\ updating' = "locked" /\ log_lock.readers = {}
        /\ log_lock' = [log_lock EXCEPT !.writer = TRUE]
        /\ UNCHANGED <<log_location, strings>>
    BY <1>2 DEF OnUpdateLog
  <2>2. LockInv' /\ log_lock'.readers = log_lock.readers
    BY <2>1 DEF LockInv
  <2>3. LocationInv' /\ Read' = Read
    BY <2>1 DEF LocationInv, Read
  <2> QED
    BY <1>1, <2>2, <2>3 DEF ThreadInv
<1>3. CASE updating \in {"locked", "freed"}
  <2>1. /\ log_lock' = log_lock /\ updating' \in {"freed", "stored"}
        /\ log_lock.readers = {}
    BY <1>3 DEF OnUpdateLog, LockInv
  <2>2. LockInv'
    BY <1>3, <2>1 DEF LockInv
  <2>3. LocationInv'
    <3>1. CASE updating = "locked"
      <4>1. /\ log_location' = NULL
            /\ strings' = [i \in DOMAIN strings |->
                             IF i = log_location THEN [strings[i] EXCEPT !.live = FALSE]
                                                 ELSE strings[i]]
        BY <3>1 DEF OnUpdateLog
      <4>2. strings' \in Seq([path : Path, live : BOOLEAN])
        <5>1. strings \in [1..Len(strings) -> [path : Path, live : BOOLEAN]] /\ Len(strings) \in Nat
          BY LenProperties DEF LocationInv
        <5>2. \A i \in 1..Len(strings) :
                [strings[i] EXCEPT !.live = FALSE] \in [path : Path, live : BOOLEAN]
          BY <5>1
        <5>3. DOMAIN strings = 1..Len(strings)
          BY <5>1
        <5>4. strings' \in [1..Len(strings) -> [path : Path, live : BOOLEAN]]
          BY <4>1, <5>1, <5>2, <5>3
        <5> QED
          BY <5>1, <5>4, SeqDef, ZenonT(60)
      <4> QED
        BY <4>1, <4>2 DEF LocationInv
    <3>2. CASE updating = "freed"
      <4>1. CASE UNCHANGED <<log_location, strings>>
        BY <4>1 DEF LocationInv
      <4>2. CASE \E path \in Path :
                   /\ log_location' = Len(strings) + 1
                   /\ strings' = Append(strings, [path |-> path, live |-> TRUE])
        BY <4>2 DEF LocationInv
      <4> QED
        BY <3>2, <4>1, <4>2 DEF OnUpdateLog
    <3> QED
      BY <1>3, <3>1, <3>2
  <2> QED
    BY <1>1, <2>1, <2>2, <2>3 DEF ThreadInv
<1>4. CASE updating = "stored"
  <2>1. /\ updating' = "no"
        /\ log_lock' = [log_lock EXCEPT !.writer = FALSE]
        /\ UNCHANGED <<log_location, strings>>
    BY <1>4 DEF OnUpdateLog
  <2>2. LockInv' /\ log_lock'.readers = log_lock.readers
    BY <2>1 DEF LockInv
  <2>3. LocationInv' /\ Read' = Read
    BY <2>1 DEF LocationInv, Read
  <2> QED
    BY <1>1, <2>2, <2>3 DEF ThreadInv
<1> QED
  BY <1>2, <1>3, <1>4 DEF LockInv

(* A thread takes the lock only while nobody writes, and reads twice the   *)
(* same before it gives the lock back.                                     *)
LEMMA LogKeepsLog ==
  ASSUME LogInv, NEW t \in IOThread, php_driver_log(t)
  PROVE  LogInv'
<1> USE DEF LogInv
<1>1. UNCHANGED <<log_location, strings, updating>>
  BY DEF php_driver_log
<1>2. LocationInv' /\ Read' = Read /\ Read \in Path \cup {NULL}
  BY <1>1, ReadWhole DEF LocationInv, Read
<1>3. CASE logging[t].at = "no"
  <2>1. /\ Rdlock
        /\ log_lock' = [log_lock EXCEPT !.readers = @ \cup {t}]
        /\ logging' = [logging EXCEPT ![t].at = "locked"]
    BY <1>3 DEF php_driver_log
  <2>2. LockInv'
    BY <1>1, <2>1 DEF LockInv, Rdlock
  <2>3. ThreadInv'
    BY <1>2, <2>1 DEF ThreadInv, LockInv
  <2> QED
    BY <1>2, <2>2, <2>3
<1>4. CASE logging[t].at = "locked"
  <2>1. /\ UNCHANGED log_lock
        /\ logging' = [logging EXCEPT ![t].at = "measured", ![t].length = Read]
    BY <1>4 DEF php_driver_log
  <2>2. LockInv'
    BY <1>1, <2>1 DEF LockInv
  <2>3. ThreadInv'
    BY <1>2, <1>4, <2>1 DEF ThreadInv
  <2> QED
    BY <1>2, <2>2, <2>3
<1>5. CASE logging[t].at = "measured"
  <2>1. /\ UNCHANGED log_lock
        /\ logging' = [logging EXCEPT ![t].at = "copied", ![t].text = Read]
    BY <1>5 DEF php_driver_log
  <2>2. LockInv'
    BY <1>1, <2>1 DEF LockInv
  <2>3. ThreadInv'
    BY <1>2, <1>5, <2>1 DEF ThreadInv
  <2> QED
    BY <1>2, <2>2, <2>3
<1>6. CASE logging[t].at = "copied"
  <2>1. /\ log_lock' = [log_lock EXCEPT !.readers = @ \ {t}]
        /\ logging' = [logging EXCEPT ![t].at = "writing"]
    BY <1>6 DEF php_driver_log
  <2>2. LockInv'
    BY <1>1, <2>1 DEF LockInv
  <2>3. ThreadInv'
    BY <1>2, <1>6, <2>1 DEF ThreadInv, LockInv
  <2> QED
    BY <1>2, <2>2, <2>3
<1>7. CASE logging[t].at = "writing"
  <2>1. UNCHANGED log_lock /\ logging' = [logging EXCEPT ![t] = NotLogging]
    BY <1>7 DEF php_driver_log
  <2>2. LockInv'
    BY <1>1, <2>1 DEF LockInv
  <2>3. ThreadInv'
    BY <1>2, <2>1 DEF ThreadInv, NotLogging
  <2> QED
    BY <1>2, <2>2, <2>3
<1> QED
  BY <1>3, <1>4, <1>5, <1>6, <1>7 DEF ThreadInv

(* A step that leaves the log alone.                                       *)
LEMMA LogStutters ==
  ASSUME LogInv, UNCHANGED log
  PROVE  LogInv'
BY DEF LogInv, LockInv, LocationInv, ThreadInv, Read, log

(* An I/O thread that logs while PHP code changes cassandra.log            *)
(* (OnUpdateLog) uses one whole location, never a freed string or the      *)
(* length of one with the text of another.                                 *)
THEOREM LogLocationAlwaysWhole == ProcessSpec => []LogLocationWhole
<1>1. LogInv /\ [ProcessNext]_processVars => LogInv'
  <2> SUFFICES ASSUME LogInv, [ProcessNext]_processVars PROVE LogInv'
    OBVIOUS
  <2>1. CASE OnUpdateLog
    BY <2>1, UpdateKeepsLog
  <2>2. ASSUME NEW t \in IOThread, php_driver_log(t) PROVE LogInv'
    BY <2>2, LogKeepsLog
  <2>3. CASE UNCHANGED log
    BY <2>3, LogStutters
  <2>4. CASE UNCHANGED processVars
    BY <2>4, LogStutters DEF processVars, log
  <2> QED
    BY <2>1, <2>2, <2>3, <2>4 DEF ProcessNext, Fork, Exit, Generate
<1>2. LogInv => LogLocationWhole
  BY NullAssumption DEF LogInv, ThreadInv, LogLocationWhole
<1> QED
  BY LogInit, <1>1, <1>2, PTL DEF ProcessSpec

-----------------------------------------------------------------------------
(* The strengthening of UuidsDistinct: a seed belongs to one pid, that of  *)
(* the processes whose copies of the generator still have it and of those  *)
(* that drew from it.                                                      *)
Seed(u) == u[2][1]

GeneratorType ==
  /\ procs \in [Proc -> [pid : Pid \cup {NULL}, alive : BOOLEAN,
                         uuid_gen : [seed : Nat, used : Nat] \cup {NULL},
                         uuid_gen_pid : Pid \cup {NULL}]]
  /\ generators \in Nat
  /\ uuids \subseteq Proc \X (Nat \X (Nat \cup {NULL}))
  /\ \A p \in Proc : /\ procs[p].alive => procs[p].pid # NULL
                     /\ procs[p].uuid_gen_pid # NULL =>
                          /\ procs[p].uuid_gen \in [seed : Nat, used : Nat]
                          /\ procs[p].uuid_gen.seed <= generators
  /\ \A u \in uuids : procs[u[1]].pid # NULL /\ Seed(u) <= generators

SeedOfOnePid ==
  /\ \A p, q \in Proc :
       /\ procs[p].uuid_gen_pid # NULL /\ procs[q].uuid_gen_pid # NULL
       /\ procs[p].uuid_gen.seed = procs[q].uuid_gen.seed
       => procs[p].uuid_gen_pid = procs[q].uuid_gen_pid
  /\ \A p \in Proc, u \in uuids :
       procs[p].uuid_gen_pid # NULL /\ procs[p].uuid_gen.seed = Seed(u)
       => procs[p].uuid_gen_pid = procs[u[1]].pid
  /\ \A u, v \in uuids : Seed(u) = Seed(v) => procs[u[1]].pid = procs[v[1]].pid

UuidInv == GeneratorType /\ SeedOfOnePid

(* The invariant of the generators holds at start-up. *)
LEMMA UuidInit == ProcessInit => UuidInv
<1> SUFFICES ASSUME ProcessInit PROVE UuidInv
  OBVIOUS
<1>1. PICK pid \in Pid :
        procs = [p \in Proc |-> IF p = 1 THEN [NoProc EXCEPT !.pid = pid, !.alive = TRUE]
                                         ELSE NoProc]
  BY DEF ProcessInit
<1>2. generators = 0 /\ uuids = {}
  BY DEF ProcessInit
<1>3. \A p \in Proc : /\ procs[p] \in [pid : Pid \cup {NULL}, alive : BOOLEAN,
                                       uuid_gen : [seed : Nat, used : Nat] \cup {NULL},
                                       uuid_gen_pid : Pid \cup {NULL}]
                      /\ procs[p].uuid_gen_pid = NULL
                      /\ procs[p].alive => procs[p].pid # NULL
  BY <1>1, NullAssumption DEF NoProc
<1>4. GeneratorType
  BY <1>1, <1>2, <1>3 DEF GeneratorType
<1> QED
  BY <1>2, <1>3, <1>4 DEF UuidInv, SeedOfOnePid

(* A child has its parent's seed and its parent's uuid_gen_pid; the place  *)
(* it takes has not drawn anything.                                        *)
LEMMA ForkKeepsUuids ==
  ASSUME UuidInv, NEW p \in Proc, NEW pid \in Pid, Fork(p, pid)
  PROVE  UuidInv'
<1>1. PICK q \in Proc : /\ procs[q] = NoProc
                        /\ procs' = [procs EXCEPT ![q] = [procs[p] EXCEPT !.pid = pid]]
  BY DEF Fork
<1>2. UNCHANGED <<generators, uuids>> /\ pid # NULL
  BY NullAssumption DEF Fork
<1>3. \A u \in uuids : u[1] \in Proc /\ u[1] # q /\ procs'[u[1]] = procs[u[1]]
  BY <1>1 DEF UuidInv, GeneratorType, NoProc
<1>4. \A r \in Proc : \E s \in Proc : /\ procs'[r].uuid_gen = procs[s].uuid_gen
                                      /\ procs'[r].uuid_gen_pid = procs[s].uuid_gen_pid
  BY <1>1 DEF UuidInv, GeneratorType
<1>5. GeneratorType'
  <2>1. procs' \in [Proc -> [pid : Pid \cup {NULL}, alive : BOOLEAN,
                             uuid_gen : [seed : Nat, used : Nat] \cup {NULL},
                             uuid_gen_pid : Pid \cup {NULL}]]
    BY <1>1 DEF UuidInv, GeneratorType
  <2>2. \A r \in Proc : procs'[r].alive => procs'[r].pid # NULL
    BY <1>1, <1>2 DEF UuidInv, GeneratorType
  <2> QED
    BY <1>2, <1>3, <1>4, <2>1, <2>2 DEF UuidInv, GeneratorType, Seed
<1>6. SeedOfOnePid'
  <2>1. ASSUME NEW r1 \in Proc, NEW r2 \in Proc,
               procs'[r1].uuid_gen_pid # NULL, procs'[r2].uuid_gen_pid # NULL,
               procs'[r1].uuid_gen.seed = procs'[r2].uuid_gen.seed
        PROVE  procs'[r1].uuid_gen_pid = procs'[r2].uuid_gen_pid
    <3>1. PICK s1 \in Proc : /\ procs'[r1].uuid_gen = procs[s1].uuid_gen
                             /\ procs'[r1].uuid_gen_pid = procs[s1].uuid_gen_pid
      BY <1>4
    <3>2. PICK s2 \in Proc : /\ procs'[r2].uuid_gen = procs[s2].uuid_gen
                             /\ procs'[r2].uuid_gen_pid = procs[s2].uuid_gen_pid
      BY <1>4
    <3> QED
      BY <2>1, <3>1, <3>2 DEF UuidInv, SeedOfOnePid
  <2>2. ASSUME NEW r \in Proc, NEW u \in uuids, procs'[r].uuid_gen_pid # NULL,
               procs'[r].uuid_gen.seed = Seed(u)
        PROVE  procs'[r].uuid_gen_pid = procs'[u[1]].pid
    <3>1. PICK s \in Proc : /\ procs'[r].uuid_gen = procs[s].uuid_gen
                            /\ procs'[r].uuid_gen_pid = procs[s].uuid_gen_pid
      BY <1>4
    <3> QED
      BY <1>3, <2>2, <3>1 DEF UuidInv, SeedOfOnePid
  <2>3. \A u, v \in uuids : Seed(u) = Seed(v) => procs'[u[1]].pid = procs'[v[1]].pid
    BY <1>3 DEF UuidInv, SeedOfOnePid
  <2> QED
    BY <1>2, <2>1, <2>2, <2>3 DEF SeedOfOnePid, Seed
<1> QED
  BY <1>5, <1>6 DEF UuidInv

(* The end of a process keeps the invariant of the generators. *)
LEMMA ExitKeepsUuids ==
  ASSUME UuidInv, NEW p \in Proc, Exit(p)
  PROVE  UuidInv'
<1>1. UNCHANGED <<generators, uuids>> /\ procs' = [procs EXCEPT ![p].alive = FALSE]
  BY DEF Exit
<1>2. \A r \in Proc : /\ procs'[r].pid = procs[r].pid
                      /\ procs'[r].uuid_gen = procs[r].uuid_gen
                      /\ procs'[r].uuid_gen_pid = procs[r].uuid_gen_pid
                      /\ procs'[r].alive => procs[r].alive
  BY <1>1 DEF UuidInv, GeneratorType
<1>3. procs' \in [Proc -> [pid : Pid \cup {NULL}, alive : BOOLEAN,
                           uuid_gen : [seed : Nat, used : Nat] \cup {NULL},
                           uuid_gen_pid : Pid \cup {NULL}]]
  BY <1>1, ZenonT(60) DEF UuidInv, GeneratorType
<1>4. GeneratorType'
  BY <1>1, <1>2, <1>3 DEF UuidInv, GeneratorType, Seed
<1>5. SeedOfOnePid'
  BY <1>1, <1>2 DEF UuidInv, GeneratorType, SeedOfOnePid, Seed
<1> QED
  BY <1>4, <1>5 DEF UuidInv

(* A process draws from a generator made for its own pid: the one it has,  *)
(* or a new one, whose seed nobody else has.                               *)
LEMMA GenerateKeepsUuids ==
  ASSUME UuidInv, NEW p \in Proc, NEW draws \in BOOLEAN, Generate(p, draws)
  PROVE  UuidInv'
<1> DEFINE gen == get_uuid_gen(p)
           new == <<p, IF draws THEN <<gen.seed, gen.used>> ELSE <<gen.seed, NULL>>>>
<1>1. /\ procs[p].alive
      /\ generators' = IF gen.seed > generators THEN gen.seed ELSE generators
      /\ procs' = [procs EXCEPT ![p].uuid_gen = IF draws THEN [gen EXCEPT !.used = @ + 1] ELSE gen,
                                ![p].uuid_gen_pid = procs[p].pid]
      /\ uuids' = uuids \cup {new}
  BY DEF Generate
<1>2. procs[p].pid \in Pid /\ procs[p].pid # NULL
  BY <1>1 DEF UuidInv, GeneratorType
<1>3. /\ gen \in [seed : Nat, used : Nat]
      /\ \/ gen.seed = generators + 1
         \/ gen.seed <= generators /\ procs[p].uuid_gen_pid = procs[p].pid /\ gen = procs[p].uuid_gen
  BY <1>2 DEF UuidInv, GeneratorType, get_uuid_gen
<1> HIDE DEF gen
<1>4. generators' \in Nat /\ generators <= generators' /\ gen.seed <= generators'
  BY <1>1, <1>3 DEF UuidInv, GeneratorType
<1>5. /\ procs' \in [Proc -> [pid : Pid \cup {NULL}, alive : BOOLEAN,
                              uuid_gen : [seed : Nat, used : Nat] \cup {NULL},
                              uuid_gen_pid : Pid \cup {NULL}]]
      /\ procs'[p].uuid_gen \in [seed : Nat, used : Nat]
      /\ procs'[p].uuid_gen.seed = gen.seed
      /\ procs'[p].uuid_gen_pid = procs[p].pid
      /\ \A r \in Proc : /\ procs'[r].pid = procs[r].pid /\ procs'[r].alive = procs[r].alive
                         /\ r # p => procs'[r] = procs[r]
  <2> DEFINE next == IF draws THEN [gen EXCEPT !.used = @ + 1] ELSE gen
  <2>1. next \in [seed : Nat, used : Nat] /\ next.seed = gen.seed
    BY <1>3
  <2>2. procs' = [procs EXCEPT ![p].uuid_gen = next, ![p].uuid_gen_pid = procs[p].pid]
    BY <1>1
  <2> HIDE DEF next
  <2> QED
    BY <1>2, <2>1, <2>2 DEF UuidInv, GeneratorType
<1>6. /\ new \in Proc \X (Nat \X (Nat \cup {NULL})) /\ new[1] = p /\ Seed(new) = gen.seed
  BY <1>3 DEF Seed
<1> HIDE DEF new
<1>7. GeneratorType'
  BY <1>1, <1>2, <1>4, <1>5, <1>6 DEF UuidInv, GeneratorType, Seed
<1>8. ASSUME NEW r \in Proc, r # p, procs[r].uuid_gen_pid # NULL,
             procs[r].uuid_gen.seed = gen.seed
      PROVE  procs[r].uuid_gen_pid = procs[p].pid
  BY <1>2, <1>3, <1>8 DEF UuidInv, GeneratorType, SeedOfOnePid
<1>9. ASSUME NEW u \in uuids, Seed(u) = gen.seed
      PROVE  procs[u[1]].pid = procs[p].pid
  BY <1>2, <1>3, <1>9 DEF UuidInv, GeneratorType, SeedOfOnePid
<1>10. \A u \in uuids : u[1] \in Proc
  BY DEF UuidInv, GeneratorType
<1>11. SeedOfOnePid'
  <2>1. \A r, q \in Proc :
          /\ procs'[r].uuid_gen_pid # NULL /\ procs'[q].uuid_gen_pid # NULL
          /\ procs'[r].uuid_gen.seed = procs'[q].uuid_gen.seed
          => procs'[r].uuid_gen_pid = procs'[q].uuid_gen_pid
    BY <1>5, <1>8 DEF UuidInv, SeedOfOnePid
  <2>2. \A r \in Proc, u \in uuids' :
          procs'[r].uuid_gen_pid # NULL /\ procs'[r].uuid_gen.seed = Seed(u)
          => procs'[r].uuid_gen_pid = procs'[u[1]].pid
    BY <1>1, <1>5, <1>6, <1>8, <1>9, <1>10 DEF UuidInv, SeedOfOnePid
  <2>3. \A u, v \in uuids' : Seed(u) = Seed(v) => procs'[u[1]].pid = procs'[v[1]].pid
    BY <1>1, <1>5, <1>6, <1>9, <1>10 DEF UuidInv, SeedOfOnePid
  <2> QED
    BY <2>1, <2>2, <2>3 DEF SeedOfOnePid, Seed
<1> QED
  BY <1>7, <1>11 DEF UuidInv

(* Steps of the logger do not touch the generators. *)
LEMMA UuidStutters ==
  ASSUME UuidInv, UNCHANGED uuid
  PROVE  UuidInv'
BY DEF UuidInv, GeneratorType, SeedOfOnePid, Seed, uuid

(* The pid check of get_uuid_gen is enough: whichever processes fork, end  *)
(* and generate in any order, two of them with different pids never        *)
(* generate the same UUID.                                                 *)
THEOREM UuidsAlwaysDistinct == ProcessSpec => []UuidsDistinct
<1>1. UuidInv /\ [ProcessNext]_processVars => UuidInv'
  <2> SUFFICES ASSUME UuidInv, [ProcessNext]_processVars PROVE UuidInv'
    OBVIOUS
  <2>1. ASSUME NEW p \in Proc, NEW pid \in Pid, Fork(p, pid) PROVE UuidInv'
    BY <2>1, ForkKeepsUuids
  <2>2. ASSUME NEW p \in Proc, Exit(p) PROVE UuidInv'
    BY <2>2, ExitKeepsUuids
  <2>3. ASSUME NEW p \in Proc, NEW draws \in BOOLEAN, Generate(p, draws) PROVE UuidInv'
    BY <2>3, GenerateKeepsUuids
  <2>4. CASE UNCHANGED uuid
    BY <2>4, UuidStutters
  <2>5. CASE UNCHANGED processVars
    BY <2>5, UuidStutters DEF processVars, uuid
  <2> QED
    BY <2>1, <2>2, <2>3, <2>4, <2>5 DEF ProcessNext, OnUpdateLog, php_driver_log
<1>2. UuidInv => UuidsDistinct
  BY DEF UuidInv, SeedOfOnePid, UuidsDistinct, Seed
<1> QED
  BY UuidInit, <1>1, <1>2, PTL DEF ProcessSpec
=============================================================================
