---------------------------- MODULE MC_Requests ----------------------------
EXTENDS Requests

L(n) == [type |-> "long", v |-> n]
D(n) == [type |-> "double", v |-> n]
S(parts) == [type |-> "string", parts |-> parts]
A(items) == [type |-> "array", items |-> items]
Other(type) == [type |-> type]

MCZvals == {L(0), L(1), L(128), L(129), L(65535), L(65536), L(IntRange \div 2), L(-1),
            D(0), D(1), D(5), D(-2), S(<<"a", "b">>), Other("null"), Other("retry"),
            Other("ssl"), Other("timestamp_gen"), Other("object"), A(<<>>)}
MCLists == {<<>>, <<S(<<"h1">>)>>, <<S(<<"h1">>), S(<<"h2", "h3">>)>>, <<S(<<"h1">>), L(1)>>}

Args(values) == [i \in 1..Len(values) |-> <<L(i - 1), values[i]>>]
Cut == S(<<"x", "y">>)                                    \* a NUL between x and y
MCArguments ==
  {A(<<>>), A(Args(<<L(9)>>)), A(Args(<<Cut, L(IntRange \div 2), L(-IntRange)>>)),
   A(Args(<<L(9), Other("object")>>)), A(<<<<L(3), L(9)>>>>),
   A(<<<<S(<<"m">>), Other("null")>>, <<Cut, S(<<"a">>)>>>>), A(<<<<S(<<"z">>), Other("true")>>>>),
   A(<<<<L(1), Cut>>, <<S(<<"m">>), D(5)>>>>), Other("null")}
MCMarkers == <<[name |-> "m", types |-> {"long", "double"}], [name |-> "x", types |-> {"string"}]>>

Full == [consistency |-> L(6), serial_consistency |-> L(9), page_size |-> L(128),
         paging_state_token |-> S(<<"t">>), timeout |-> D(5),
         arguments |-> A(Args(<<L(9), S(<<"b">>)>>)),
         retry_policy |-> Other("retry"), timestamp |-> L(9)]
Bad == [consistency |-> L(129), serial_consistency |-> L(6), page_size |-> L(0),
        paging_state_token |-> L(1), timeout |-> D(-2), arguments |-> Other("null"),
        retry_policy |-> L(1), timestamp |-> D(5)]
Only(f, key) == [k \in {key} |-> f[k]]
MCOptionArrays ==
  {<<>>, Full, Only([page_size |-> L(IntRange \div 2)], "page_size"),
   Only([arguments |-> A(Args(<<A(<<>>), L(9)>>))], "arguments"),
   Only([arguments |-> A(<<<<Cut, S(<<"b">>)>>, <<S(<<"m">>), L(9)>>>>)], "arguments"),
   Only([retry_policy |-> Other("object")], "retry_policy"),
   Only([timestamp |-> [type |-> "numeric", v |-> 9]], "timestamp")}
  \cup {Only(Full, key) : key \in DOMAIN Full}
  \cup {[Full EXCEPT ![key] = Bad[key]] : key \in DOMAIN Full}

(* How the last call ended matters only if it left the process undefined. *)
WithoutOutcome == <<builder, withs, given, cluster, session, prepared, batch, sent, asked, Running>>
=============================================================================
