------------------------------- MODULE Schema -------------------------------
(***************************************************************************)
(* Schema metadata: ext/src/DefaultSchema.c, DefaultKeyspace.c,            *)
(* DefaultTable.c, DefaultMaterializedView.c, DefaultColumn.c,             *)
(* DefaultIndex.c, DefaultFunction.c, DefaultAggregate.c.                  *)
(*                                                                         *)
(* Session::schema() takes a snapshot of the schema (a CassSchemaMeta) and *)
(* owns it through a php_driver_ref.  Every metadata object made from it   *)
(* adds a reference and keeps a raw pointer into the snapshot (its meta),  *)
(* so a snapshot must outlive all of them, in whatever order the program   *)
(* drops them, and although a later call of schema() may see another       *)
(* version of the schema.  Objects built on first use (the keys of a       *)
(* table, the base table of a view, the functions of an aggregate) are     *)
(* cached in the object that was asked, and reference the snapshot too.    *)
(*                                                                         *)
(* The strings and types an object caches are read from the snapshot,      *)
(* which never changes, so only the caches that hold objects are state.    *)
(***************************************************************************)
EXTENDS RefCount, Sequences, SequencesExt

CONSTANTS
  Catalog,      \* Catalog[v]: the names and keys of the schema's v-th version (see MC)
  Unreadable,   \* columns whose validator php_driver_parse_column_type refuses
  MaxObjects,   \* bound: metadata objects of one program
  MaxSnapshots  \* bound: calls of Session::schema()

ASSUME SchemaBounds == MaxObjects \in Nat /\ MaxSnapshots \in Nat

(* What the driver promises of a snapshot: finitely many names, the views  *)
(* of a table and the base table of a view are among them.                 *)
ASSUME CatalogAssumption ==
  /\ Len(Catalog) \in Nat \ {0}
  /\ \A v \in 1..Len(Catalog) :
       LET c == Catalog[v]
       IN  /\ \A S \in {c.keyspaces, DOMAIN c.table, DOMAIN c.view, c.function, DOMAIN c.aggregate} :
                IsFiniteSet(S) /\ S \subseteq STRING
           /\ \A class \in {"table", "view"} : \A m \in DOMAIN c[class] :
                LET t == c[class][m]
                IN  /\ {t.columns, t.partition, t.clustering} \subseteq Seq(STRING)
                    /\ IsFiniteSet(t.indexes) /\ t.indexes \subseteq STRING
                    /\ t.views \subseteq DOMAIN c.view
                    /\ class = "view" => t.base \in DOMAIN c.table
           /\ \A m \in DOMAIN c.aggregate :
                {c.aggregate[m].state, c.aggregate[m].final} \subseteq STRING \cup {NULL}

VARIABLES
  server,   \* the version the driver's control connection last saw
  version,  \* the version a snapshot was taken of, 0 before
  heap,     \* the references to the snapshots (RefCount); a slot per object
  obj,      \* the metadata objects: class, meta and cache
  held,     \* the objects a variable (or a returned array) refers to
  leaked,   \* destroyed objects whose free handler was never called
  answer    \* what the last call returned

vars == <<server, version, heap, obj, held, leaked, answer>>

Object == 1..MaxObjects
Snapshot == 1..MaxSnapshots
NoObject == [class |-> "none", meta |-> NULL, cache |-> <<>>]
Allocated == {o \in Object : obj[o].class # "none"}

ASSUME NullIsNoSnapshot == NULL \notin Snapshot

(* Classes whose define function sets handlers.free_obj.  The std handlers *)
(* the other four copy free the memory and leave the references behind.    *)
FreeInstalled == {"schema", "column", "function", "aggregate"}

Init ==
  /\ server = 1
  /\ version = [s \in Snapshot |-> 0]
  /\ heap = EmptyHeap(Object, Snapshot)
  /\ obj = [o \in Object |-> NoObject]
  /\ held = {} /\ leaked = {}
  /\ answer = [kind |-> "none", value |-> NULL]

-----------------------------------------------------------------------------
(* Construction: h is [heap, obj, made], made the objects of this call.    *)
Now == [heap |-> heap, obj |-> obj, made |-> <<>>]
Unused(h) == {o \in Object : h.obj[o].class = "none"}

Construct(h, class, snap, meta) ==
  LET o == CHOOSE x \in Unused(h) : \A y \in Unused(h) : x <= y
  IN  [heap |-> AddRef(h.heap, o, snap),
       obj  |-> [h.obj EXCEPT ![o] = [class |-> class, meta |-> meta, cache |-> <<>>]],
       made |-> Append(h.made, o)]

Keyspace(h, snap, meta) == Construct(h, "keyspace", snap, meta)
php_driver_create_table(h, snap, meta) == Construct(h, "table", snap, meta)
php_driver_create_materialized_view(h, snap, meta) == Construct(h, "view", snap, meta)
php_driver_create_index(h, snap, meta) == Construct(h, "index", snap, meta)
php_driver_create_function(h, snap, meta) == Construct(h, "function", snap, meta)
php_driver_create_aggregate(h, snap, meta) == Construct(h, "aggregate", snap, meta)

(* A wrong variant: the column keeps the pointer without a reference.      *)
php_driver_create_column_Borrowed(h, snap, meta) ==
  LET c == Construct(h, "column", snap, meta)
  IN  IF meta \in Unreadable THEN h
      ELSE [c EXCEPT !.heap.count = h.heap.count]

(* A column whose validator cannot be read is destroyed again, and its     *)
(* reference returned; the caller gets an undefined value.                 *)
php_driver_create_column(h, snap, meta) ==
  LET c == Construct(h, "column", snap, meta)
      o == Last(c.made)
  IN  IF meta \notin Unreadable THEN c
      ELSE [heap |-> DelPeref(c.heap, o), obj |-> [c.obj EXCEPT ![o] = NoObject], made |-> h.made]

Create(h, class, snap, meta) ==
  CASE class = "keyspace"  -> Keyspace(h, snap, meta)
    [] class = "table"     -> php_driver_create_table(h, snap, meta)
    [] class = "view"      -> php_driver_create_materialized_view(h, snap, meta)
    [] class = "index"     -> php_driver_create_index(h, snap, meta)
    [] class = "function"  -> php_driver_create_function(h, snap, meta)
    [] class = "aggregate" -> php_driver_create_aggregate(h, snap, meta)
    [] class = "column"    -> php_driver_create_column(h, snap, meta)

(* The loops over an iterator of the driver.                               *)
CreateAll(h, class, snap, metas) ==
  LET loop[i \in 0..Len(metas)] ==
        IF i = 0 THEN h ELSE Create(loop[i - 1], class, snap, metas[i])
  IN  loop[Len(metas)]

(* zval_ptr_dtor of what nothing refers to any more: the free handler, if  *)
(* the class has one, destroys the cached objects and returns the          *)
(* reference.                                                              *)
Kids(o) == UNION {ToSet(s) : s \in Range(obj[o].cache)}

Dropped(o) ==
  LET others == (held \ {o}) \cup UNION {Kids(x) : x \in Allocated \ {o}}
  IN  IF o \in others THEN {}
      ELSE {o} \cup (IF obj[o].class \in FreeInstalled THEN Kids(o) \ others ELSE {})

-----------------------------------------------------------------------------
(* What a method of object o can see: the version of its own snapshot.     *)
Snap(o) == heap.ptr[o]
Cat(o)  == Catalog[version[Snap(o)]]
Meta(o) == Cat(o)[obj[o].class][obj[o].meta]
A(o, class) == o \in held /\ obj[o].class = class

Keep(h, ids, kind, value) ==
  /\ heap' = h.heap /\ obj' = h.obj
  /\ held' = held \cup ids
  /\ answer' = [kind |-> kind, value |-> value]
  /\ UNCHANGED <<server, version, leaked>>

Answer(kind, value) == Keep(Now, {}, kind, value)
Room(n) == Cardinality(Unused(Now)) >= n

(* A method that looks one object up by name, and one that returns all.    *)
ByName(o, class, names) ==
  /\ Room(1)
  /\ \/ Answer("FALSE", NULL)
     \/ \E m \in names :
          LET h == Create(Now, class, Snap(o), m)
          IN  Keep(h, ToSet(h.made), IF h.made = <<>> THEN "exception" ELSE "object", NULL)

(* An exception discards the array, and so every object in it.             *)
Every(o, class, names) ==
  /\ Room(Cardinality(names))
  /\ LET h == CreateAll(Now, class, Snap(o), SetToSeq(names))
     IN  IF Len(h.made) < Cardinality(names) THEN Answer("exception", NULL)
         ELSE Keep(h, ToSet(h.made), "array", NULL)

(* A method that builds its result once.  What could be built stays cached *)
(* although an exception was raised; the next call answers it.             *)
Cached(o, field, class, metas) ==
  IF field \in DOMAIN obj[o].cache
    THEN Keep(Now, ToSet(obj[o].cache[field]), "cached", NULL)
    ELSE /\ Room(Len(metas))
         /\ LET h == CreateAll(Now, class, Snap(o), metas)
                g == [h EXCEPT !.obj[o].cache =
                        [f \in DOMAIN @ \cup {field} |-> IF f = field THEN h.made ELSE @[f]]]
            IN  IF Len(h.made) < Len(metas) THEN Keep(g, {}, "exception", NULL)
                ELSE Keep(g, ToSet(h.made), "array", NULL)

-----------------------------------------------------------------------------
schema ==
  \E s \in Snapshot :
    /\ Room(1) /\ version[s] = 0 /\ \A t \in 1..(s - 1) : version[t] # 0
    /\ LET o == CHOOSE x \in Unused(Now) : \A y \in Unused(Now) : x <= y
       IN  /\ heap' = NewPeref(heap, o, s)
           /\ obj' = [obj EXCEPT ![o] = [class |-> "schema", meta |-> NULL, cache |-> <<>>]]
           /\ held' = held \cup {o}
    /\ version' = [version EXCEPT ![s] = server]
    /\ answer' = [kind |-> "object", value |-> NULL]
    /\ UNCHANGED <<server, leaked>>

(* A DDL statement anywhere in the cluster.                                *)
Alter ==
  server < Len(Catalog) /\ server' = server + 1 /\ UNCHANGED <<version, heap, obj, held, leaked, answer>>

DefaultSchema_keyspace(o)  == A(o, "schema") /\ ByName(o, "keyspace", Cat(o).keyspaces)
DefaultSchema_keyspaces(o) == A(o, "schema") /\ Every(o, "keyspace", Cat(o).keyspaces)
DefaultSchema_version(o)   == A(o, "schema") /\ Answer("version", version[Snap(o)])

(* A getter reads a field of self->meta; the answers are told apart by the *)
(* version they describe.                                                  *)
Read(o) == Answer("field", version[Snap(o)])

php_driver_get_keyspace_field(o) == Read(o) \/ Answer("null", NULL)
DefaultKeyspace_fields(o) == A(o, "keyspace") /\ php_driver_get_keyspace_field(o)

DefaultKeyspace_table(o)  == A(o, "keyspace") /\ ByName(o, "table", DOMAIN Cat(o).table)
DefaultKeyspace_tables(o) == A(o, "keyspace") /\ Every(o, "table", DOMAIN Cat(o).table)
DefaultKeyspace_materializedView(o)  == A(o, "keyspace") /\ ByName(o, "view", DOMAIN Cat(o).view)
DefaultKeyspace_materializedViews(o) == A(o, "keyspace") /\ Every(o, "view", DOMAIN Cat(o).view)
(* Type objects copy what they describe and hold no reference.             *)
DefaultKeyspace_userType(o)  == A(o, "keyspace") /\ Answer("type", version[Snap(o)])
DefaultKeyspace_userTypes(o) == A(o, "keyspace") /\ Answer("types", version[Snap(o)])

php_driver_arguments_string == Answer("exception", NULL)
DefaultKeyspace_function(o) ==
  A(o, "keyspace") /\ (php_driver_arguments_string \/ ByName(o, "function", Cat(o).function))
DefaultKeyspace_functions(o) == A(o, "keyspace") /\ Every(o, "function", Cat(o).function)
DefaultKeyspace_aggregate(o) ==
  A(o, "keyspace") /\ (php_driver_arguments_string \/ ByName(o, "aggregate", DOMAIN Cat(o).aggregate))
DefaultKeyspace_aggregates(o) == A(o, "keyspace") /\ Every(o, "aggregate", DOMAIN Cat(o).aggregate)

-----------------------------------------------------------------------------
(* Tables and views.  An option the metadata lacks is answered with FALSE. *)
php_driver_table_get_option(o) == Read(o) \/ Answer("FALSE", NULL)
php_driver_materialized_view_get_option(o) == php_driver_table_get_option(o)

DefaultTable_name(o)    == A(o, "table") /\ Answer("name", obj[o].meta)
DefaultTable_getters1(o) == A(o, "table") /\ php_driver_table_get_option(o)
DefaultTable_getters2(o) == A(o, "table") /\ php_driver_table_get_option(o)
DefaultTable_option(o)  == A(o, "table") /\ php_driver_table_get_option(o)
DefaultTable_options(o) == A(o, "table") /\ Read(o)
DefaultTable_column(o)  == A(o, "table") /\ ByName(o, "column", ToSet(Meta(o).columns))
DefaultTable_columns(o) == A(o, "table") /\ Every(o, "column", ToSet(Meta(o).columns))

populate_partition_key(o)  == Meta(o).partition
populate_clustering_key(o) == Meta(o).clustering
DefaultTable_partitionKey(o) == A(o, "table") /\ Cached(o, "partition_key", "column", populate_partition_key(o))
(* A wrong variant: the clustering key is filled in first.                 *)
DefaultTable_primaryKey_ClusteringFirst(o) ==
  A(o, "table") /\ Cached(o, "primary_key", "column", populate_clustering_key(o) \o populate_partition_key(o))
DefaultTable_primaryKey(o) ==
  A(o, "table") /\ Cached(o, "primary_key", "column", populate_partition_key(o) \o populate_clustering_key(o))
DefaultTable_clusteringKey(o) == A(o, "table") /\ Cached(o, "clustering_key", "column", populate_clustering_key(o))
DefaultTable_clusteringOrder(o) == A(o, "table") /\ Answer("order", Len(Meta(o).clustering))
DefaultTable_index(o)   == A(o, "table") /\ ByName(o, "index", Meta(o).indexes)
DefaultTable_indexes(o) == A(o, "table") /\ Every(o, "index", Meta(o).indexes)
DefaultTable_materializedView(o)  == A(o, "table") /\ ByName(o, "view", Meta(o).views)
DefaultTable_materializedViews(o) == A(o, "table") /\ Every(o, "view", Meta(o).views)

DefaultMaterializedView_name(o)    == A(o, "view") /\ Answer("name", obj[o].meta)
DefaultMaterializedView_getters1(o) == A(o, "view") /\ php_driver_materialized_view_get_option(o)
DefaultMaterializedView_getters2(o) == A(o, "view") /\ php_driver_materialized_view_get_option(o)
DefaultMaterializedView_option(o)  == A(o, "view") /\ php_driver_materialized_view_get_option(o)
DefaultMaterializedView_options(o) == A(o, "view") /\ Read(o)
DefaultMaterializedView_column(o)  == A(o, "view") /\ ByName(o, "column", ToSet(Meta(o).columns))
DefaultMaterializedView_columns(o) == A(o, "view") /\ Every(o, "column", ToSet(Meta(o).columns))
DefaultMaterializedView_partitionKey(o) == A(o, "view") /\ Cached(o, "partition_key", "column", Meta(o).partition)
DefaultMaterializedView_primaryKey(o) ==
  A(o, "view") /\ Cached(o, "primary_key", "column", Meta(o).partition \o Meta(o).clustering)
DefaultMaterializedView_clusteringKey(o) == A(o, "view") /\ Cached(o, "clustering_key", "column", Meta(o).clustering)
DefaultMaterializedView_clusteringOrder(o) == A(o, "view") /\ Answer("order", Len(Meta(o).clustering))
DefaultMaterializedView_baseTable(o) == A(o, "view") /\ Cached(o, "base_table", "table", <<Meta(o).base>>)

-----------------------------------------------------------------------------
(* Columns, indexes, functions and aggregates.                             *)
DefaultColumn_getters(o) == A(o, "column") /\ Read(o)
DefaultIndex_getters(o) == A(o, "index") /\ Read(o)
DefaultFunction_getters(o) == A(o, "function") /\ Read(o)
DefaultAggregate_getters(o) == A(o, "aggregate") /\ Read(o)

AggregateFunction(o, field, f) ==
  IF f = NULL THEN Answer("null", NULL) ELSE Cached(o, field, "function", <<f>>)
DefaultAggregate_stateFunction(o) ==
  A(o, "aggregate") /\ AggregateFunction(o, "state_function", Meta(o).state)
DefaultAggregate_finalFunction(o) ==
  A(o, "aggregate") /\ AggregateFunction(o, "final_function", Meta(o).final)

(* Each of the destroyed objects returns its reference.                     *)
DelPerefs(h, os) ==
  LET loop[i \in 0..Len(os)] == IF i = 0 THEN h ELSE DelPeref(loop[i - 1], os[i])
  IN  loop[Len(os)]

(* The program forgets an object; the objects it alone kept go with it.    *)
Drop(o) ==
  LET gone  == Dropped(o)
      freed == {x \in gone : obj[x].class \in FreeInstalled}
  IN  /\ o \in held /\ held' = held \ {o}
      /\ heap' = DelPerefs(heap, SetToSeq(freed))
      /\ obj' = [x \in Object |-> IF x \in freed THEN NoObject ELSE obj[x]]
      /\ leaked' = leaked \cup (gone \ freed)
      /\ answer' = [kind |-> "none", value |-> NULL]
      /\ UNCHANGED <<server, version>>

OnSchema(o) == DefaultSchema_keyspace(o) \/ DefaultSchema_keyspaces(o) \/ DefaultSchema_version(o)
OnKeyspace(o) ==
  \/ DefaultKeyspace_fields(o) \/ DefaultKeyspace_table(o) \/ DefaultKeyspace_tables(o)
  \/ DefaultKeyspace_materializedView(o) \/ DefaultKeyspace_materializedViews(o)
  \/ DefaultKeyspace_userType(o) \/ DefaultKeyspace_userTypes(o)
  \/ DefaultKeyspace_function(o) \/ DefaultKeyspace_functions(o)
  \/ DefaultKeyspace_aggregate(o) \/ DefaultKeyspace_aggregates(o)
OnTable(o) ==
  \/ DefaultTable_name(o) \/ DefaultTable_option(o) \/ DefaultTable_options(o)
  \/ DefaultTable_getters1(o) \/ DefaultTable_getters2(o)
  \/ DefaultTable_column(o) \/ DefaultTable_columns(o) \/ DefaultTable_partitionKey(o)
  \/ DefaultTable_primaryKey(o) \/ DefaultTable_clusteringKey(o) \/ DefaultTable_clusteringOrder(o)
  \/ DefaultTable_index(o) \/ DefaultTable_indexes(o)
  \/ DefaultTable_materializedView(o) \/ DefaultTable_materializedViews(o)
OnView(o) ==
  \/ DefaultMaterializedView_name(o) \/ DefaultMaterializedView_option(o)
  \/ DefaultMaterializedView_options(o)
  \/ DefaultMaterializedView_getters1(o) \/ DefaultMaterializedView_getters2(o)
  \/ DefaultMaterializedView_column(o) \/ DefaultMaterializedView_columns(o)
  \/ DefaultMaterializedView_partitionKey(o) \/ DefaultMaterializedView_primaryKey(o)
  \/ DefaultMaterializedView_clusteringKey(o) \/ DefaultMaterializedView_clusteringOrder(o)
  \/ DefaultMaterializedView_baseTable(o)
OnLeaf(o) ==
  \/ DefaultColumn_getters(o) \/ DefaultIndex_getters(o) \/ DefaultFunction_getters(o)
  \/ DefaultAggregate_getters(o) \/ DefaultAggregate_stateFunction(o)
  \/ DefaultAggregate_finalFunction(o)

Next ==
  \/ schema \/ Alter
  \/ \E o \in held : OnSchema(o) \/ OnKeyspace(o) \/ OnTable(o) \/ OnView(o) \/ OnLeaf(o) \/ Drop(o)

Spec == Init /\ [][Next]_vars

-----------------------------------------------------------------------------
(* A snapshot is freed exactly when its last reference is returned, and no *)
(* object the program can reach, directly or through a cached key, base    *)
(* table or function, points into a freed snapshot: the getters read       *)
(* self->meta without any test.                                            *)
SchemaAlive ==
  /\ HeapOK(heap, Object, Snapshot)
  /\ \A o \in Allocated : Snap(o) # NULL /\ heap.status[Snap(o)] = "live"

Names(o, field) == [i \in DOMAIN obj[o].cache[field] |-> obj[obj[o].cache[field][i]].meta]

(* The keys a table caches at different times describe one table: the      *)
(* primary key is the partition key followed by the clustering key, all of *)
(* one snapshot, and no key column is missing unless it was unreadable.    *)
KeysAgree ==
  \A o \in Allocated :
    LET c == obj[o].cache
    IN  /\ \A f \in DOMAIN c : \A i \in DOMAIN c[f] : Snap(c[f][i]) = Snap(o)
        /\ {"partition_key", "primary_key", "clustering_key"} \subseteq DOMAIN c =>
             Names(o, "primary_key") = Names(o, "partition_key") \o Names(o, "clustering_key")
        /\ "primary_key" \in DOMAIN c =>
             ToSet(Meta(o).partition \o Meta(o).clustering)
               \subseteq ToSet(Names(o, "primary_key")) \cup Unreadable
=============================================================================
