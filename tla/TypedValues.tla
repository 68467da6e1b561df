---------------------------- MODULE TypedValues ----------------------------
(***************************************************************************)
(* Typed values in use: a program builds a type (by the static methods of  *)
(* Type, or from the class name of a column), makes a value of it, binds   *)
(* the value to a request and reads it back from a result; or it reads a   *)
(* value of a server's type first and binds that.                          *)
(***************************************************************************)
EXTENDS Types

LOCAL INSTANCE SequencesExt
LOCAL INSTANCE FiniteSetsExt

CONSTANTS NestedTypes,  \* the scalar types used within other types
          FieldNames,   \* the field names of a user type, in order
          Strings,      \* strings, as sequences of characters; NUL is 0
          Ints,         \* PHP integers
          MaxDepth,     \* bound: containers within containers
          MaxArgs,      \* bound: arguments of create
          Tokens,       \* the tokens of class names
          MaxTokens     \* bound: tokens of a text

VARIABLES types,    \* the types built, the last one first
          value,    \* <<>>, or <<v>>: the value made of the first one
          bound,    \* <<>>, or <<r>>: what binding the value came to
          decoded,  \* <<>>, or <<v>>: the value read back
          exc,      \* how the last call ended
          text, parser

vars == <<types, value, bound, decoded, exc, text, parser>>

(***************************************************************************)
(* What a program can pass to create.                                      *)
(***************************************************************************)
Payload(class) == CASE class = "string" -> Strings [] class = "int" -> {<<n>> : n \in Ints}
                    [] class = "boolean" -> {<<0>>, <<1>>} [] OTHER -> {<<1>>}
Hashable == {"int", "varchar", "text", "ascii", "boolean", "double", "bigint", "counter"}
UpTo(S, n) == UNION {[1 .. k -> S] : k \in 0 .. n}

RECURSIVE Example(_)
Example(T) ==
  CASE T.t \in Scalars -> Object(ClassOf(T.t), CHOOSE n \in Payload(ClassOf(T.t)) : TRUE)
    [] T.t = "map"     -> Container(T, <<<<Example(T.sub[1]), Example(T.sub[2])>>>>)
    [] OTHER           -> Container(T, [i \in 1 .. Len(T.sub) |-> Example(T.sub[i])])

\* Types like T: another sub type, fewer or renamed fields.
Near(T) == {php_driver_type_scalar("int"), php_driver_type_scalar("varchar")} \cup
  IF T.t \notin Containers THEN {}
  ELSE {[T EXCEPT !.sub[i] = php_driver_type_scalar(t)] : i \in 1 .. Len(T.sub), t \in NestedTypes}
       \cup (IF T.t = "udt" THEN {[T EXCEPT !.names = Reverse(@)]} ELSE {})
       \cup (IF T.t = "tuple" /\ Len(T.sub) > 1 THEN {[T EXCEPT !.sub = Front(@)]} ELSE {})

RECURSIVE Pool(_)
\* The arguments of T's create that Elem gives for every sub type.
Args(T, Elem(_)) ==
  LET S(i) == Elem(T.sub[i])
  IN  CASE T.t \in {"list", "set"} -> UpTo(S(1), MaxArgs)
        [] T.t = "map"   -> {<<>>, <<Null>>} \cup {<<k, v>> : k \in S(1), v \in S(2)}
        [] T.t = "tuple" -> {<<>>, <<Null>>}
                              \cup (IF Len(T.sub) = 1 THEN {<<v>> : v \in S(1)}
                                    ELSE {<<v, w>> : v \in S(1), w \in S(2)})
        [] T.t = "udt"   -> {<<>>, <<<<"unknown", Null>>>>}
                              \cup UNION {{<<<<T.names[i], v>>>> : v \in S(i)} : i \in 1 .. Len(T.names)}
                              \cup (IF Len(T.names) < 2 THEN {}
                                    ELSE {<<<<T.names[2], w>>, <<T.names[1], v>>>> : v \in S(1), w \in S(2)})
Inner(T) == Pool(T) \cup {Null}
Pool(T) ==
  IF T.t \in Scalars THEN {Object(ClassOf(T.t), n) : n \in Payload(ClassOf(T.t))}
  ELSE IF T.t \in Containers THEN
         {c.obj : c \in {c \in {Create(T, args) : args \in Args(T, Inner)} : c.exc = "none"}}
  ELSE {}
Outer(T) == Inner(T) \cup {Example(U) : U \in Near(T)}

RECURSIVE Depth(_)
Depth(T) == IF T.t \notin Containers THEN 0 ELSE 1 + Max({0} \cup {Depth(u) : u \in Range(T.sub)})
RECURSIVE Parts(_)
Parts(T) == {T} \cup UNION {Parts(u) : u \in Range(T.sub)}
Codes(T) == {u.t : u \in Parts(T)}
-----------------------------------------------------------------------------
Init == /\ types = <<>> /\ value = <<>> /\ bound = <<>> /\ decoded = <<>>
        /\ exc = "none" /\ text = <<>> /\ parser = NewClassParser

Building == value = <<>> /\ text = <<>> /\ exc = "none"
Built(ts) == types' = ts /\ exc' = "none" /\ UNCHANGED <<value, bound, decoded, text, parser>>
Throws == exc' = "throws" /\ UNCHANGED <<types, value, bound, decoded, text, parser>>

php_driver_type_validate(T) == T.t # "custom"
MayNest == /\ Building /\ types # <<>>
           /\ \A T \in Range(types) : Depth(T) < MaxDepth /\ (Depth(T) > 0 => Codes(T) \subseteq NestedTypes \cup Containers)
AllValid == \A T \in Range(types) : php_driver_type_validate(T)

Type_scalar(t) == /\ Building /\ Len(types) < 2 /\ (types # <<>> => t \in NestedTypes)
                  /\ Built(<<php_driver_type_scalar(t)>> \o types)
Type_collection == MayNest /\ Len(types) = 1 /\ AllValid /\ Built(<<php_driver_type_collection(types[1])>>)
Type_set == /\ MayNest /\ Len(types) = 1 /\ AllValid /\ types[1].t \in Hashable
            /\ Built(<<php_driver_type_set(types[1])>>)
Type_map == /\ MayNest /\ Len(types) = 2 /\ AllValid /\ types[1].t \in Hashable
            /\ Built(<<php_driver_type_map(types[1], types[2])>>)
Type_tuple == MayNest /\ AllValid /\ Built(<<FoldLeft(php_driver_type_tuple_add, php_driver_type_tuple, types)>>)
Type_userType ==
  LET Add(type, i) == php_driver_type_user_type_add(type, FieldNames[i], types[i])
  IN  MayNest /\ AllValid
      /\ Built(<<FoldLeft(Add, php_driver_type_user_type, [i \in 1 .. Len(types) |-> i])>>)
\* All five check their arguments first: a custom type is not accepted.
InvalidSubType == MayNest /\ ~AllValid /\ Throws

\* withName and withKeyspace: a copy under another name.
TypeUserType_withName ==
  /\ Building /\ Len(types) = 1 /\ types[1].t = "udt" /\ types[1].name = NoName
  /\ Built(<<[types[1] EXCEPT !.name = <<"renamed">>]>>)

\* The class name of a column, one token at a time, and its type at the end.
ParseToken(tok) ==
  /\ types = <<>> /\ value = <<>> /\ exc = "none" /\ ~ClassDone(parser)
  /\ tok = "end" \/ Len(text) < MaxTokens
  /\ parser' = php_driver_parse_class_name(parser, tok)
  /\ text' = Append(text, tok)
  /\ UNCHANGED <<types, value, bound, decoded, exc>>

ColumnType ==
  /\ parser.state = "end" /\ exc = "none"
  /\ LET c == php_driver_parse_column_type(parser)
     IN  \/ /\ c.ok /\ Codes(c.type) \cap {"undef", "crash"} = {} /\ Depth(c.type) <= MaxDepth
            /\ types' = <<c.type>> /\ text' = <<>> /\ parser' = NewClassParser
            /\ UNCHANGED <<value, bound, decoded, exc>>
         \/ ~c.ok /\ Throws

\* T->create(args)
MakeValue ==
  /\ Building /\ Len(types) = 1 /\ types[1].t \in Containers
  /\ "custom" \notin Codes(types[1])
  /\ \E args \in Args(types[1], Outer) :
       LET c == Create(types[1], args)
       IN  value' = <<c.obj>> /\ exc' = c.exc /\ decoded' = decoded
           /\ bound' = <<>> /\ UNCHANGED <<types, text, parser>>

\* A program that gets no exception goes on with the object it got.
BindValue ==
  /\ value # <<>> /\ exc # "throws" /\ bound = <<>>
  /\ bound' = <<ContainerFrom(value[1])>>
  /\ UNCHANGED <<types, value, decoded, exc, text, parser>>

\* The row comes back with the data type the program bound it as.
ReadValue ==
  /\ bound # <<>> /\ bound[1].out = "ok" /\ decoded = <<>>
  /\ LET rows == php_driver_get_result(<<bound[1].w>>, types[1])
     IN  decoded' = IF rows = <<>> THEN <<Failure>> ELSE <<rows[1][1]>>
  /\ UNCHANGED <<types, value, bound, exc, text, parser>>

\* A value of a type that only a server has: it holds custom types.
Custom == php_driver_type_custom(<<"C">>)
ServerTypes == LET list == php_driver_type_collection(Custom)
               IN  {list, php_driver_type_collection(list),
                    php_driver_type_tuple_add(php_driver_type_tuple_add(php_driver_type_tuple, list), Custom)}
RECURSIVE Sent(_)
Sent(D) == CASE D.t = "custom" -> {NoWire, Wire("bytes", <<1>>)}
             [] D.t = "list"   -> {Wire("collection", s) : s \in UpTo(Sent(D.sub[1]), 2)}
             [] D.t = "tuple"  -> {Wire("tuple", <<a, b>>) : a \in Sent(D.sub[1]), b \in Sent(D.sub[2])}
ServerValue ==
  /\ Building /\ types = <<>>
  /\ \E D \in ServerTypes : \E w \in Sent(D) :
       types' = <<php_driver_type_from_data_type(D)>> /\ value' = <<php_driver_value(w, D)>>
  /\ UNCHANGED <<bound, decoded, exc, text, parser>>

Next == \/ \E t \in Scalars : Type_scalar(t)
        \/ Type_collection \/ Type_set \/ Type_map \/ Type_tuple \/ Type_userType
        \/ InvalidSubType \/ TypeUserType_withName
        \/ \E tok \in Tokens : ParseToken(tok)
        \/ ColumnType \/ MakeValue \/ BindValue \/ ReadValue \/ ServerValue

Spec == Init /\ [][Next]_vars
-----------------------------------------------------------------------------
\* A text the parser accepts is the text of its tree, as far as it goes:
\* nested parentheses, commas after them and the colons of user types attach
\* every name to the class it was written in.  Missing closing parentheses
\* are accepted at the end, and one too many.
Written == LET t == [i \in 1 .. Len(text) - 1 |-> IF text[i] = ":" THEN "," ELSE text[i]]
               Count(c) == Len(SelectSeq(t, LAMBDA x : x = c))
           IN  IF Count(")") > Count("(") THEN Front(t)
               ELSE t \o [i \in 1 .. Count("(") - Count(")") |-> ")"]
ParsedAsWritten == parser.state = "end" => php_driver_node_dump_to(parser.nodes, 1) = Written

\* What a value is once it went through the encodings that lose something:
\* an int of 32 bits, a string in a user type up to its first NUL.
RECURSIVE Expected(_, _)
Expected(v, in) ==
  CASE v = Null -> v
    [] v # Null /\ v.cls = "int" -> [v EXCEPT !.n = <<Wrap(IntBits, @[1])>>]
    [] v # Null /\ v.cls = "string" /\ in = "udt" -> [v EXCEPT !.n = UpToNul(@)]
    [] v # Null /\ v.cls = "map" ->
         [v EXCEPT !.vals = [i \in 1 .. Len(@) |-> [j \in 1 .. 2 |-> Expected(@[i][j], "map")]]]
    [] v # Null /\ v.cls \in Containers \ {"map"} ->
         [v EXCEPT !.vals = [i \in 1 .. Len(@) |-> Expected(@[i], v.cls)]]
    [] OTHER -> v

\* A type but for the names of user types and for the alias text.
RECURSIVE Canonical(_)
Canonical(T) == [T EXCEPT !.t = IF @ = "text" THEN "varchar" ELSE @, !.name = NoName,
                          !.sub = [i \in 1 .. Len(@) |-> Canonical(@[i])]]
\* The same values, in containers of the same types.
RECURSIVE Same(_, _)
Same(v, w) ==
  IF v = Null \/ w = Null \/ v.cls \notin Containers THEN v = w
  ELSE /\ v.cls = w.cls /\ Canonical(v.type) = Canonical(w.type)
       /\ Len(v.vals) = Len(w.vals)
       /\ \A i \in 1 .. Len(v.vals) :
            IF v.cls = "map" THEN \A j \in 1 .. 2 : Same(v.vals[i][j], w.vals[i][j])
            ELSE Same(v.vals[i], w.vals[i])

\* Lists take null from create although no collection can hold it.
RECURSIVE NullFree(_)
NullFree(v) ==
  IF v = Null \/ v.cls \notin Containers THEN TRUE
  ELSE \A i \in 1 .. Len(v.vals) :
         IF v.cls = "map" THEN NullFree(v.vals[i][1]) /\ NullFree(v.vals[i][2])
         ELSE NullFree(v.vals[i]) /\ (v.cls \in {"list", "set"} => v.vals[i] # Null)

\* Every value that create accepted, of any nesting, can be bound and is read
\* back as it was, in types with the same fields as those it was made of: what
\* collections.c writes by the types of the values, which only compare equal
\* to that of the column, result.c reads by the data type of the column.
BoundAsDecoded ==
  value # <<>> /\ "custom" \notin Codes(types[1]) /\ NullFree(value[1]) =>
    /\ bound # <<>> => bound[1].out = "ok"
    /\ decoded # <<>> => Same(Expected(value[1], "none"), decoded[1])

\* The containers within a value, itself not counted, that bind on their own.
RECURSIVE Inside(_)
Inside(v) ==
  LET Of(u) == IF u = Null \/ u.cls \notin Containers THEN 0
               ELSE Inside(u) + (IF ContainerFrom(u).out = "ok" THEN 1 ELSE 0)
  IN  FoldLeft(LAMBDA a, u : a + (IF v.cls = "map" THEN Of(u[1]) + Of(u[2]) ELSE Of(u)), 0, v.vals)
\* Binding loses the handles of the nested containers it appended, all of
\* them when it succeeds, and no other handle, also when it fails half way.
HandlesAccounted ==
  bound # <<>> => /\ bound[1].lost <= Inside(value[1])
                  /\ bound[1].out = "ok" => bound[1].lost = Inside(value[1])
=============================================================================
