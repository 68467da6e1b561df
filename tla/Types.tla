------------------------------- MODULE Types -------------------------------
(***************************************************************************)
(* Typed values, as operators: how types are compared, how create checks   *)
(* and fills a container, what util/collections.c hands to the driver      *)
(* library for a value, and what util/result.c makes of a value it gets.   *)
(***************************************************************************)
EXTENDS ClassNames, Numbers

LOCAL INSTANCE SequencesExt
LOCAL INSTANCE FiniteSetsExt

(***************************************************************************)
(* Comparison of types, by the order of CassValueType.                     *)
(***************************************************************************)
CassValueType ==
  <<"custom", "ascii", "bigint", "blob", "boolean", "counter", "decimal", "double", "float",
    "int", "text", "timestamp", "uuid", "varchar", "varint", "timeuuid", "inet", "date",
    "time", "smallint", "tinyint", "duration", "list", "map", "set", "udt", "tuple">>
Scalars == Range(SubSeq(CassValueType, 2, 22))
Containers == {"list", "map", "set", "tuple", "udt"}
Code(t) == CHOOSE i \in 1 .. Len(CassValueType) : CassValueType[i] = t

is_string_type(t) == t \in {"varchar", "text"}

RECURSIVE php_driver_type_compare(_, _)
FirstDifference(rs) == LET d == SelectSeq(rs, LAMBDA r : r # 0) IN IF d = <<>> THEN 0 ELSE d[1]
SubTypes(a, b) == [i \in 1 .. Len(a.sub) |-> php_driver_type_compare(a.sub[i], b.sub[i])]

collection_compare(a, b) == php_driver_type_compare(a.sub[1], b.sub[1])
set_compare(a, b)        == php_driver_type_compare(a.sub[1], b.sub[1])
map_compare(a, b)        == FirstDifference(SubTypes(a, b))
tuple_compare(a, b) ==
  IF Len(a.sub) # Len(b.sub) THEN Sign(Len(a.sub) - Len(b.sub)) ELSE FirstDifference(SubTypes(a, b))
user_type_compare_Unnamed(a, b) ==
  IF Len(a.sub) # Len(b.sub) THEN Sign(Len(a.sub) - Len(b.sub)) ELSE FirstDifference(SubTypes(a, b))
\* Names and types of the fields in order; not the name of the type.  The
\* variant ignores the names.
user_type_compare(a, b) ==
  IF Len(a.sub) # Len(b.sub) THEN Sign(Len(a.sub) - Len(b.sub))
  ELSE FirstDifference([i \in 1 .. Len(a.sub) |->
                          IF a.names[i] # b.names[i] THEN 1 ELSE SubTypes(a, b)[i]])

php_driver_type_compare(a, b) ==
  CASE a.t # b.t /\ is_string_type(a.t) /\ is_string_type(b.t) -> 0
    [] a.t # b.t /\ ~(is_string_type(a.t) /\ is_string_type(b.t)) -> Sign(Code(a.t) - Code(b.t))
    [] OTHER -> CASE a.t = "list"  -> collection_compare(a, b)
                  [] a.t = "map"   -> map_compare(a, b)
                  [] a.t = "set"   -> set_compare(a, b)
                  [] a.t = "tuple" -> tuple_compare(a, b)
                  [] a.t = "udt"   -> user_type_compare(a, b)
                  [] OTHER         -> 0

(***************************************************************************)
(* Values: a scalar is its class and payload (characters, or one number),  *)
(* a container its type and its values (pairs for a map; Null where a      *)
(* tuple or user type has none).                                           *)
(***************************************************************************)
Null == [cls |-> "null"]
Object(c, n) == [cls |-> c, n |-> n]
Container(type, vals) == [cls |-> type.t, type |-> type, vals |-> vals]

\* The class or PHP type that stands for a scalar type.
ClassOf(t) ==
  CASE t \in {"varchar", "text", "ascii"} -> "string"
    [] t \in {"bigint", "counter"}        -> "bigint"
    [] OTHER                              -> t

\* How the validation of v as a T ends: an exception, or (for a container of
\* another type) a refusal without one.
php_driver_validate_object(v, T) ==
  CASE v = Null -> "valid"
    [] v # Null /\ T.t \in Scalars    -> IF v.cls = ClassOf(T.t) THEN "valid" ELSE "throws"
    [] v # Null /\ T.t \in Containers ->
         IF v.cls # T.t THEN "throws"
         ELSE IF php_driver_type_compare(v.type, T) = 0 THEN "valid" ELSE "refuses"
    [] OTHER -> "throws"
InContainer(v, T) == IF v = Null THEN "throws" ELSE php_driver_validate_object(v, T)

\* The arguments before the first one that is not valid are added.
Made(obj, outcome) == [obj |-> obj, exc |-> outcome]
Good(rs) == Min({i - 1 : i \in {i \in 1 .. Len(rs) : rs[i] # "valid"}} \cup {Len(rs)})
Outcome(rs) == IF Good(rs) = Len(rs) THEN "none" ELSE rs[Good(rs) + 1]

TypeCollection_create(T, args) ==
  LET rs == [i \in 1 .. Len(args) |-> php_driver_validate_object(args[i], T.sub[1])]
  IN  Made(Container(T, SubSeq(args, 1, Good(rs))), Outcome(rs))

TypeSet_create(T, args) ==
  LET rs == [i \in 1 .. Len(args) |-> InContainer(args[i], T.sub[1])]
      Add(vals, v) == IF v \in Range(vals) THEN vals ELSE Append(vals, v)
  IN  Made(Container(T, FoldLeft(Add, <<>>, SubSeq(args, 1, Good(rs)))), Outcome(rs))

php_driver_map_set(vals, k, v) ==
  IF \E i \in 1 .. Len(vals) : vals[i][1] = k
  THEN [i \in 1 .. Len(vals) |-> IF vals[i][1] = k THEN <<k, v>> ELSE vals[i]]
  ELSE Append(vals, <<k, v>>)

TypeMap_create(T, args) ==
  LET pairs == [i \in 1 .. Len(args) \div 2 |-> <<args[2 * i - 1], args[2 * i]>>]
      rs == [i \in 1 .. Len(pairs) |->
               IF \E j \in 1 .. 2 : pairs[i][j] = Null THEN "throws"
               ELSE IF InContainer(pairs[i][1], T.sub[1]) # "valid" THEN InContainer(pairs[i][1], T.sub[1])
               ELSE InContainer(pairs[i][2], T.sub[2])]
      Set(vals, p) == php_driver_map_set(vals, p[1], p[2])
  IN  IF Len(args) % 2 = 1 THEN Made(Container(T, <<>>), "throws")
      ELSE Made(Container(T, FoldLeft(Set, <<>>, SubSeq(pairs, 1, Good(rs)))), Outcome(rs))

Empty(T) == [i \in 1 .. Len(T.sub) |-> Null]
TypeTuple_create(T, args) ==
  LET rs == [i \in 1 .. Len(args) |-> php_driver_validate_object(args[i], T.sub[i])]
  IN  CASE args = <<>> -> Made(Container(T, Empty(T)), "none")
        [] args # <<>> /\ Len(args) # Len(T.sub) -> Made(Container(T, Empty(T)), "throws")
        [] OTHER -> Made(Container(T, [i \in 1 .. Len(args) |-> IF i <= Good(rs) THEN args[i] ELSE Null]),
                         Outcome(rs))

\* args: a sequence of <<name, value>>
Field(T, name) == CHOOSE i \in 1 .. Len(T.names) : T.names[i] = name
TypeUserType_create(T, args) ==
  LET rs == [i \in 1 .. Len(args) |->
               IF args[i][1] \notin Range(T.names) THEN "throws"
               ELSE php_driver_validate_object(args[i][2], T.sub[Field(T, args[i][1])])]
      Set(vals, a) == [vals EXCEPT ![Field(T, a[1])] = a[2]]
  IN  Made(Container(T, FoldLeft(Set, Empty(T), SubSeq(args, 1, Good(rs)))), Outcome(rs))

Create(T, args) ==
  CASE T.t = "list"  -> TypeCollection_create(T, args)
    [] T.t = "set"   -> TypeSet_create(T, args)
    [] T.t = "map"   -> TypeMap_create(T, args)
    [] T.t = "tuple" -> TypeTuple_create(T, args)
    [] T.t = "udt"   -> TypeUserType_create(T, args)

(***************************************************************************)
(* collections.c: from values to the driver library.  The outcome is "ok", *)
(* "failed", or "undefined" where the members of a null are read.          *)
(***************************************************************************)
Wire(enc, n) == [enc |-> enc, n |-> n]
Bound(out, w, lost) == [out |-> out, w |-> w, lost |-> lost]
NoWire == Wire("null", <<>>)

\* cass_*_append_X, cass_*_set_X: the call chosen for a scalar type
Encode(t, v) ==
  CASE t \in {"varchar", "text", "ascii"} -> Wire("string", v.n)
    [] t \in {"bigint", "counter", "timestamp", "time"} -> Wire("int64", v.n)
    [] t = "smallint" -> Wire("int16", v.n)
    [] t = "tinyint"  -> Wire("int8", v.n)
    [] t = "int"      -> Wire("int32", <<Wrap(IntBits, v.n[1])>>)
    [] t = "date"     -> Wire("uint32", v.n)
    [] t = "blob"     -> Wire("bytes", v.n)
    [] t = "varint"   -> Wire("bytes", export_twos_complement(v.n[1]))
    [] t = "decimal"  -> Wire("decimal", export_twos_complement(v.n[1]))
    [] t \in {"uuid", "timeuuid"} -> Wire("uuid", v.n)
    [] OTHER          -> Wire(t, v.n)   \* boolean, double, float, duration, inet

UpToNul(s) == SubSeq(s, 1, Min({i - 1 : i \in {i \in 1 .. Len(s) : s[i] = 0}} \cup {Len(s)}))

RECURSIVE ContainerFrom(_)
\* The handle of a nested container is not freed once it was appended.
Nested(v) == LET r == ContainerFrom(v)
             IN  IF r.out = "ok" THEN [r EXCEPT !.lost = @ + 1] ELSE r
Unsupported == Bound("failed", NoWire, 0)

php_driver_collection_append(v, t) ==
  CASE t \in Scalars /\ v = Null /\ t = "boolean" -> Bound("ok", Wire("boolean", <<0>>), 0)
    [] t \in Scalars /\ v = Null /\ t # "boolean" -> Bound("undefined", NoWire, 0)
    [] t \in Containers /\ v = Null -> Bound("undefined", NoWire, 0)
    [] t \in Scalars /\ v # Null    -> Bound("ok", Encode(t, v), 0)
    [] t \in Containers /\ v # Null -> Nested(v)
    [] OTHER -> Unsupported

php_driver_tuple_set(v, t) ==
  CASE v = Null -> Bound("ok", NoWire, 0)
    [] v # Null /\ t \in Scalars    -> Bound("ok", Encode(t, v), 0)
    [] v # Null /\ t \in Containers -> Nested(v)
    [] OTHER -> Unsupported

\* Strings are given without their length.
php_driver_user_type_set(v, t) ==
  CASE v = Null -> Bound("ok", NoWire, 0)
    [] v # Null /\ t \in Scalars    -> Bound("ok", IF ClassOf(t) = "string" THEN Wire("string", UpToNul(v.n))
                                                   ELSE Encode(t, v), 0)
    [] v # Null /\ t \in Containers -> Nested(v)
    [] OTHER -> Unsupported

\* One handle for the calls rs: all of them in order, or none after the first
\* that fails, and then the handle is freed.  The variant does not free it.
AllOrNothing_KeepsHandle(rs, enc) ==
  LET n == Good([i \in 1 .. Len(rs) |-> IF rs[i].out = "ok" THEN "valid" ELSE rs[i].out])
      lost == FoldLeft(LAMBDA a, r : a + r.lost, 0, SubSeq(rs, 1, n))
  IN  IF n = Len(rs) THEN Bound("ok", Wire(enc, [i \in 1 .. n |-> rs[i].w]), lost)
      ELSE Bound(rs[n + 1].out, NoWire, lost + rs[n + 1].lost + 1)
AllOrNothing(rs, enc) ==
  LET n == Good([i \in 1 .. Len(rs) |-> IF rs[i].out = "ok" THEN "valid" ELSE rs[i].out])
      lost == FoldLeft(LAMBDA a, r : a + r.lost, 0, SubSeq(rs, 1, n))
  IN  IF n = Len(rs) THEN Bound("ok", Wire(enc, [i \in 1 .. n |-> rs[i].w]), lost)
      ELSE Bound(rs[n + 1].out, NoWire, lost + rs[n + 1].lost)

php_driver_collection_from_collection(v) ==
  AllOrNothing([i \in 1 .. Len(v.vals) |-> php_driver_collection_append(v.vals[i], v.type.sub[1].t)],
               "collection")
php_driver_collection_from_set(v) ==
  AllOrNothing([i \in 1 .. Len(v.vals) |-> php_driver_collection_append(v.vals[i], v.type.sub[1].t)],
               "collection")
php_driver_collection_from_map(v) ==
  AllOrNothing([i \in 1 .. 2 * Len(v.vals) |->
                  php_driver_collection_append(v.vals[(i + 1) \div 2][2 - (i % 2)], v.type.sub[2 - (i % 2)].t)],
               "collection")

\* Tuples and user types validate again what they hold.
Revalidated(v, i, r) ==
  IF php_driver_validate_object(v.vals[i], v.type.sub[i]) = "valid" THEN r ELSE Unsupported
php_driver_tuple_from_tuple(v) ==
  AllOrNothing([i \in 1 .. Len(v.vals) |->
                  Revalidated(v, i, php_driver_tuple_set(v.vals[i], v.type.sub[i].t))], "tuple")
php_driver_user_type_from_user_type_value(v) ==
  AllOrNothing([i \in 1 .. Len(v.vals) |->
                  Revalidated(v, i, php_driver_user_type_set(v.vals[i], v.type.sub[i].t))], "udt")

ContainerFrom(v) ==
  CASE v.cls = "list"  -> php_driver_collection_from_collection(v)
    [] v.cls = "set"   -> php_driver_collection_from_set(v)
    [] v.cls = "map"   -> php_driver_collection_from_map(v)
    [] v.cls = "tuple" -> php_driver_tuple_from_tuple(v)
    [] v.cls = "udt"   -> php_driver_user_type_from_user_type_value(v)

(***************************************************************************)
(* result.c: from the driver library to values of the data type D.         *)
(***************************************************************************)
RECURSIVE php_driver_type_from_data_type(_)
php_driver_tuple_from_data_type(D) ==
  FoldLeft(LAMBDA type, sub : php_driver_type_tuple_add(type, php_driver_type_from_data_type(sub)),
           php_driver_type_tuple, D.sub)
php_driver_user_type_from_data_type(D) ==
  FoldLeft(LAMBDA type, i : php_driver_type_user_type_add(type, D.names[i], php_driver_type_from_data_type(D.sub[i])),
           [php_driver_type_user_type EXCEPT !.name = D.name], [i \in 1 .. Len(D.sub) |-> i])
php_driver_type_from_data_type(D) ==
  LET Sub(i) == php_driver_type_from_data_type(D.sub[i])
  IN  CASE D.t = "list"   -> php_driver_type_collection(Sub(1))
        [] D.t = "set"    -> php_driver_type_set(Sub(1))
        [] D.t = "map"    -> php_driver_type_map(Sub(1), Sub(2))
        [] D.t = "tuple"  -> php_driver_tuple_from_data_type(D)
        [] D.t = "udt"    -> php_driver_user_type_from_data_type(D)
        [] D.t = "custom" -> php_driver_type_custom(D.name)
        [] OTHER          -> php_driver_type_scalar(D.t)

\* cass_value_get_X: the call chosen for a scalar type
Getter(t) ==
  CASE t \in {"ascii", "text", "varchar"} -> "string"
    [] t \in {"counter", "bigint", "timestamp", "time"} -> "int64"
    [] t = "smallint" -> "int16" [] t = "tinyint" -> "int8" [] t = "int" -> "int32"
    [] t = "date" -> "uint32" [] t \in {"blob", "varint"} -> "bytes"
    [] t \in {"uuid", "timeuuid"} -> "uuid"
    [] OTHER -> t

Failure == [cls |-> "failure"]
DecodeScalar(w, t) ==
  CASE w.enc # Getter(t) -> Failure
    [] w.enc = Getter(t) /\ t \in {"varint", "decimal"} -> Object(t, <<import_twos_complement(w.n)>>)
    [] OTHER -> Object(ClassOf(t), w.n)

RECURSIVE php_driver_value(_, _)
\* One failing element fails the container.
Whole(obj, vals) == IF Failure \in Range(vals) THEN Failure ELSE obj
DecodeList(w, D) ==
  LET vals == [i \in 1 .. Len(w.n) |-> php_driver_value(w.n[i], D.sub[1])]
  IN  Whole(Container(php_driver_type_from_data_type(D), vals), vals)
DecodeSet(w, D) ==
  LET vals == [i \in 1 .. Len(w.n) |-> php_driver_value(w.n[i], D.sub[1])]
  IN  Whole(TypeSet_create(php_driver_type_from_data_type(D), vals).obj, vals)
DecodeMap(w, D) ==
  LET vals == [i \in 1 .. Len(w.n) |-> php_driver_value(w.n[i], D.sub[2 - (i % 2)])]
  IN  Whole(TypeMap_create(php_driver_type_from_data_type(D), vals).obj, vals)
\* The index counts the nulls too, which are not set.
DecodeTuple(w, D) ==
  LET vals == [i \in 1 .. Len(w.n) |-> php_driver_value(w.n[i], D.sub[i])]
  IN  Whole(Container(php_driver_type_from_data_type(D), vals), vals)
DecodeUserType(w, D) ==
  LET vals == [i \in 1 .. Len(w.n) |-> php_driver_value(w.n[i], D.sub[i])]
  IN  Whole(Container(php_driver_type_from_data_type(D), vals), vals)

php_driver_value(w, D) ==
  CASE w.enc = "null"  -> Null
    [] w.enc # "null" /\ D.t \in Scalars -> DecodeScalar(w, D.t)
    [] w.enc # "null" /\ D.t = "list"  -> DecodeList(w, D)
    [] w.enc # "null" /\ D.t = "map"   -> DecodeMap(w, D)
    [] w.enc # "null" /\ D.t = "set"   -> DecodeSet(w, D)
    [] w.enc # "null" /\ D.t = "tuple" -> DecodeTuple(w, D)
    [] w.enc # "null" /\ D.t = "udt"   -> DecodeUserType(w, D)
    [] OTHER -> Null

\* All rows, or none once a column of one of them cannot be decoded.
php_driver_get_result(rows, D) ==
  LET vals == [i \in 1 .. Len(rows) |-> php_driver_value(rows[i], D)]
  IN  IF Failure \in Range(vals) THEN <<>> ELSE <<vals>>
=============================================================================
