----------------------------- MODULE ClassNames -----------------------------
(***************************************************************************)
(* The parser of util/types.c for the class names in which older servers   *)
(* describe the type of a column, token by token, and the type object made *)
(* of the tree it builds.  A type object is a record: its code, its sub    *)
(* types, the field names of a user type, and a name (of a user type, or   *)
(* the class of a custom type).                                            *)
(***************************************************************************)
EXTENDS Integers, Sequences

LOCAL INSTANCE SequencesExt

CONSTANT Hex   \* hexadecimal names, as a function to the names they spell

Type(t, sub, names, name) == [t |-> t, sub |-> sub, names |-> names, name |-> name]
NoName == <<>>     \* NULL; names are sequences of tokens
php_driver_type_scalar(t) == Type(t, <<>>, <<>>, NoName)
php_driver_type_custom(class) == Type("custom", <<>>, <<>>, class)
php_driver_type_collection(value) == Type("list", <<value>>, <<>>, NoName)
php_driver_type_set(value) == Type("set", <<value>>, <<>>, NoName)
php_driver_type_map(key, value) == Type("map", <<key, value>>, <<>>, NoName)
php_driver_type_tuple == Type("tuple", <<>>, <<>>, NoName)
php_driver_type_user_type == Type("udt", <<>>, <<>>, NoName)
Undef == php_driver_type_scalar("undef")
Crash == php_driver_type_scalar("crash")

php_driver_type_tuple_add(type, sub) == [type EXCEPT !.sub = Append(@, sub)]

\* A name the type has already is not added again, and nobody is told.
php_driver_type_user_type_add(type, name, sub) ==
  IF name \in Range(type.names) THEN type
  ELSE [type EXCEPT !.names = Append(@, name), !.sub = Append(@, sub)]

(***************************************************************************)
(* The tree: nodes in the order they are made, each with its parent and    *)
(* its children (first_child, next_sibling, last_child); 0 is NULL.        *)
(***************************************************************************)
php_driver_parse_node_new(parent) == [name |-> "", parent |-> parent, kids |-> <<>>]

NewClassParser == [state |-> "class", nodes |-> <<php_driver_parse_node_new(0)>>, node |-> 1]
ClassDone(p) == p.state \in {"end", "failed", "crashed"}

Punctuation == {"(", ")", ",", ":", "illegal", "end"}
Become(p, s) == [p EXCEPT !.state = s]

\* A child of `parent' after its last one, which becomes the current node.
AddNode(p, parent) ==
  IF parent = 0 THEN Become(p, "crashed")
  ELSE LET new == Len(p.nodes) + 1
       IN  [state |-> "class", node |-> new,
            nodes |-> [Append(p.nodes, php_driver_parse_node_new(parent))
                         EXCEPT ![parent].kids = Append(@, new)]]

AfterParens_ChildOfSibling(p, tok) ==
  CASE tok \in {",", ")"} /\ p.node = 0 -> Become(p, "crashed")
    [] tok \in {",", ")"} /\ p.node # 0 /\ p.nodes[p.node].parent = 0 -> Become(p, "failed")
    [] tok = "," /\ p.node # 0 /\ p.nodes[p.node].parent # 0 -> AddNode(p, p.node)
    [] tok = ")" /\ p.node # 0 /\ p.nodes[p.node].parent # 0 -> [p EXCEPT !.node = p.nodes[@].parent]
    [] tok = "end" -> Become(p, "end")
    [] OTHER -> Become(p, "failed")

\* What follows a closing parenthesis is only closed or continued; the
\* variant continues below the class that was closed.
AfterParens(p, tok) ==
  CASE tok \in {",", ")"} /\ p.node = 0 -> Become(p, "crashed")
    [] tok \in {",", ")"} /\ p.node # 0 /\ p.nodes[p.node].parent = 0 -> Become(p, "failed")
    [] tok = "," /\ p.node # 0 /\ p.nodes[p.node].parent # 0 -> AddNode(p, p.nodes[p.node].parent)
    [] tok = ")" /\ p.node # 0 /\ p.nodes[p.node].parent # 0 -> [p EXCEPT !.node = p.nodes[@].parent]
    [] tok = "end" -> Become(p, "end")
    [] OTHER -> Become(p, "failed")

AfterClass(p, tok) ==
  CASE tok = "(" -> AddNode(p, p.node)
    [] tok \in {",", ":"} -> AddNode(p, p.nodes[p.node].parent)
    [] tok = ")" -> [p EXCEPT !.state = "after parens", !.node = p.nodes[@].parent]
    [] tok = "end" -> Become(p, "end")
    [] OTHER -> Become(p, "failed")

\* One turn of the loop.
php_driver_parse_class_name(p, tok) ==
  CASE tok = "illegal" -> Become(p, "failed")
    [] tok # "illegal" /\ p.state = "after parens" -> AfterParens(p, tok)
    [] tok # "illegal" /\ p.state = "after class"  -> AfterClass(p, tok)
    [] OTHER -> IF tok \in Punctuation THEN Become(p, "failed")
                ELSE [p EXCEPT !.state = "after class", !.nodes[p.node].name = tok]

(***************************************************************************)
(* From the tree to the type.  Names are compared over the length of the   *)
(* name in the text: the common prefix "org" is every class.               *)
(***************************************************************************)
Prefix == "org"
Is(name, class) == name \in {class, Prefix}
Wrapper(name) == \E w \in {"FrozenType", "ReversedType", "CompositeType"} : Is(name, w)

\* In the order in which the code compares.
Classes ==
  <<<<"AsciiType", "ascii">>, <<"LongType", "bigint">>, <<"ShortType", "smallint">>,
    <<"ByteType", "tinyint">>, <<"BytesType", "blob">>, <<"BooleanType", "boolean">>,
    <<"CounterColumnType", "counter">>, <<"DecimalType", "decimal">>, <<"DurationType", "duration">>,
    <<"DoubleType", "double">>, <<"FloatType", "float">>, <<"InetAddressType", "inet">>,
    <<"Int32Type", "int">>, <<"UTF8Type", "varchar">>, <<"TimestampType", "timestamp">>,
    <<"DateType", "timestamp">>, <<"SimpleDateType", "date">>, <<"TimeType", "time">>,
    <<"UUIDType", "uuid">>, <<"IntegerType", "varint">>, <<"TimeUUIDType", "timeuuid">>,
    <<"MapType", "map">>, <<"SetType", "set">>, <<"ListType", "list">>,
    <<"TupleType", "tuple">>, <<"UserType", "udt">>>>
php_driver_lookup_type(name) ==
  LET hits == {i \in 1 .. Len(Classes) : Is(name, Classes[i][1])}
  IN  IF hits = {} THEN "custom" ELSE Classes[CHOOSE i \in hits : \A j \in hits : i <= j][2]

php_driver_from_hex(name) == IF name \in DOMAIN Hex THEN <<Hex[name]>> ELSE NoName

\* Siblings of node i after it.
Rest(nodes, i) ==
  LET kids == nodes[nodes[i].parent].kids
      at   == CHOOSE k \in 1 .. Len(kids) : kids[k] = i
  IN  IF nodes[i].parent = 0 THEN <<>> ELSE SubSeq(kids, at + 1, Len(kids))

\* The text of a node, its children and what comes after it.
RECURSIVE php_driver_node_dump_to(_, _)
php_driver_node_dump_to(nodes, i) ==
  LET inner == IF nodes[i].kids = <<>> THEN <<>>
               ELSE <<"(">> \o php_driver_node_dump_to(nodes, nodes[i].kids[1]) \o <<")">>
      after == Rest(nodes, i)
  IN  <<nodes[i].name>> \o inner
        \o (IF after = <<>> THEN <<>> ELSE <<",">> \o php_driver_node_dump_to(nodes, after[1]))

RECURSIVE php_driver_create_type(_, _)
RECURSIVE Fields(_, _, _)

\* keyspace, type name, and then names and types in turn; a name without a
\* type ends the list, a name that is no hexadecimal number the process.
Fields(nodes, kids, type) ==
  CASE kids = <<>> -> type
    [] kids # <<>> /\ php_driver_from_hex(nodes[kids[1]].name) = NoName -> Crash
    [] OTHER -> IF Len(kids) = 1 THEN type
                ELSE Fields(nodes, Tail(Tail(kids)),
                            php_driver_type_user_type_add(type, php_driver_from_hex(nodes[kids[1]].name)[1],
                                                          php_driver_create_type(nodes, kids[2])))

php_driver_user_type_from_node(nodes, i) ==
  LET kids == nodes[i].kids
      type == [php_driver_type_user_type EXCEPT
                 !.name = IF Len(kids) > 1 THEN php_driver_from_hex(nodes[kids[2]].name) ELSE NoName]
  IN  Fields(nodes, SubSeq(kids, 3, Len(kids)), type)

php_driver_tuple_from_node(nodes, i) ==
  LET Add(type, kid) == php_driver_type_tuple_add(type, php_driver_create_type(nodes, kid))
  IN  FoldLeft(Add, php_driver_type_tuple, nodes[i].kids)

php_driver_create_type(nodes, i) ==
  LET kids == nodes[i].kids
      Kid(k) == IF k > Len(kids) THEN Undef ELSE php_driver_create_type(nodes, kids[k])
      t == php_driver_lookup_type(nodes[i].name)
  IN  CASE i = 0 -> Undef
        [] i # 0 /\ Wrapper(nodes[i].name) -> Kid(1)
        [] OTHER ->
             CASE t = "custom" -> php_driver_type_custom(php_driver_node_dump_to(nodes, i))
               [] t = "map"    -> php_driver_type_map(Kid(1), Kid(2))
               [] t = "list"   -> php_driver_type_collection(Kid(1))
               [] t = "set"    -> php_driver_type_set(Kid(1))
               [] t = "tuple"  -> php_driver_tuple_from_node(nodes, i)
               [] t = "udt"    -> php_driver_user_type_from_node(nodes, i)
               [] OTHER        -> php_driver_type_scalar(t)

\* The wrappers around the type of a column, outermost first.
RECURSIVE Unwrap(_, _)
Unwrap(nodes, c) ==
  IF c.node = 0 \/ ~Wrapper(nodes[c.node].name) THEN c
  ELSE LET kids == nodes[c.node].kids
           rev  == Is(nodes[c.node].name, "ReversedType")
       IN  Unwrap(nodes, [node |-> IF kids = <<>> THEN 0 ELSE kids[1],
                          reversed |-> c.reversed \/ rev,
                          frozen |-> c.frozen \/ (~rev /\ Is(nodes[c.node].name, "FrozenType"))])

php_driver_parse_column_type(p) ==
  LET c == Unwrap(p.nodes, [node |-> 1, reversed |-> FALSE, frozen |-> FALSE])
  IN  IF p.state # "end" \/ c.node = 0 THEN [ok |-> FALSE, reversed |-> FALSE, frozen |-> FALSE, type |-> Undef]
      ELSE [ok |-> TRUE, reversed |-> c.reversed, frozen |-> c.frozen,
            type |-> php_driver_create_type(p.nodes, c.node)]
=============================================================================
