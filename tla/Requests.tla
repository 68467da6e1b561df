----------------------------- MODULE Requests -----------------------------
(***************************************************************************)
(* From a cluster builder to a request: the builder is configured and      *)
(* built, the cluster connects (connect, or connectAsync and get), and the *)
(* session prepares and executes statements and batches with execution     *)
(* options.  What PHP code asked for is remembered beside what the session *)
(* hands to the C/C++ driver.  Waiting, failing and sharing are the        *)
(* business of PersistentSession and PagedRows.                            *)
(***************************************************************************)
EXTENDS ClusterBuilder

CONSTANTS Zvals, Lists,     \* arguments of the with* methods
          OptionArrays,     \* arrays of execution options: key -> PHP value
          Arguments,        \* arguments of a batch entry: arrays of <<key, PHP value>>, and others
          Markers,          \* the prepared statement's: names and the types of PHP values they take
          MaxWith,          \* bound: with* calls on the builder
          MaxAdd            \* bound: entries of the batch

(* What a PHP value holds: a long is a number, a string has parts (at its  *)
(* commas where lists are joined, at its NULs where it is bound), an array *)
(* has items, each with a key, and no number or name is NULL.              *)
PhpValue(z) == \/ z \in [type : {"long"}, v : Int]
               \/ z \in [type : {"string"}, parts : Seq(STRING)] /\ z.parts # <<>>
               \/ z.type \notin {"long", "string"}

PhpArray(z) == /\ Len(z.items) \in Nat
               /\ \A i \in 1..Len(z.items) : PhpValue(z.items[i][1]) /\ PhpValue(z.items[i][2])

ASSUME ValueAssumption ==
  /\ NULL \notin Int \cup LocalDC
  /\ \A z \in Zvals : Is(z, "string") => z.parts # NULL
  /\ \A z \in Arguments : Is(z, "array") => PhpArray(z)
  /\ \A a \in OptionArrays : "arguments" \in DOMAIN a /\ Is(a["arguments"], "array")
                              => PhpArray(a["arguments"])

VARIABLES
  builder, withs,    \* the builder and how many with* calls it has seen
  given,             \* the settings build gave to the CassCluster
  cluster, session,  \* the DefaultCluster and the DefaultSession, or NULL
  prepared,          \* the PreparedStatements at hand: "none", "pending" or "ready"
  batch,             \* the entries of a BatchStatement
  sent,              \* the request handed to the driver by the last call, or NULL
  outcome,           \* how the last call ended
  asked              \* history: accepted defaults, refused methods, the last call

requestVars == <<builder, withs, given, cluster, session, prepared, batch, sent, outcome, asked>>

Nothing == [default_consistency |-> NULL, default_page_size |-> NULL, refused |-> {},
            statement |-> NULL, options |-> NULL]

RequestsInit ==
  /\ builder = php_driver_cluster_builder_new /\ withs = 0
  /\ given = <<>>
  /\ cluster = NULL /\ session = NULL
  /\ prepared = "none"
  /\ batch = <<>>
  /\ sent = NULL /\ outcome = "returned"
  /\ asked = Nothing

Running == outcome # "undefined"

-----------------------------------------------------------------------------
With(name, result) ==
  /\ builder' = result.builder /\ withs' = withs + 1
  /\ outcome' = IF result.ok THEN "returned" ELSE "thrown"
  /\ asked' = IF ~result.ok THEN [asked EXCEPT !.refused = @ \cup {name}]
              ELSE CASE name = "withDefaultConsistency" ->
                          [asked EXCEPT !.default_consistency = result.builder.default_consistency]
                     [] name = "withDefaultPageSize" ->
                          [asked EXCEPT !.default_page_size = result.builder.default_page_size]
                     [] OTHER -> asked
  /\ UNCHANGED <<given, cluster, session, prepared, batch, sent>>

(* build copies the defaults and configures the new cluster; a setting the *)
(* driver refuses throws, and the cluster object is lost.                  *)
build ==
  /\ builder # NULL /\ cluster = NULL
  /\ \/ /\ cluster' = Built(builder) /\ given' = DriverCalls(builder)
        /\ builder' = NULL /\ outcome' = "returned"
        /\ asked' = [asked EXCEPT !.refused = {}]
     \/ /\ \E i \in 1..Len(DriverCalls(builder)) : DriverCalls(builder)[i][1] \in MayThrow
        /\ outcome' = "thrown"
        /\ UNCHANGED <<cluster, given, builder, asked>>
  /\ UNCHANGED <<withs, session, prepared, batch, sent>>

php_driver_default_session_new(via) ==
  [via |-> via, persist |-> FALSE, default_consistency |-> LOCAL_ONE,
   default_page_size |-> 5000, default_timeout |-> NULL]

(* connect copies a default timeout only onto one that is already there;   *)
(* FutureSession::get copies nothing but persist.                          *)
Connected ==
  LET new == php_driver_default_session_new("connect") IN
  [new EXCEPT !.default_consistency = cluster.default_consistency,
              !.default_page_size = cluster.default_page_size,
              !.persist = cluster.persist,
              !.default_timeout = IF @ # NULL THEN cluster.default_timeout ELSE @]

FutureConnected == [php_driver_default_session_new("future") EXCEPT !.persist = cluster.persist]

connect ==
  /\ cluster # NULL /\ session = NULL
  /\ session' \in {Connected, FutureConnected}
  /\ cluster' = NULL /\ given' = <<>> /\ withs' = 0
  /\ outcome' = "returned"
  /\ UNCHANGED <<builder, prepared, batch, sent, asked>>

-----------------------------------------------------------------------------
(* build_from_array: which values each key takes, in the order of its      *)
(* tests.  The one for a retry policy joins its conditions with the wrong  *)
(* operator: it looks at the class of what is no object, which is          *)
(* undefined, and takes any object for a policy, whose use is undefined.   *)
Valid(key, z) ==
  CASE key = "consistency" -> php_driver_get_consistency(z)
    [] key = "serial_consistency" -> php_driver_get_serial_consistency(z)
    [] key = "page_size" -> Long(z, 1, AnyLong)
    [] key = "paging_state_token" -> Is(z, "string")
    [] key = "timeout" -> Is(z, "null") \/ Seconds(z)
    [] key = "arguments" -> Is(z, "array")
    [] key = "retry_policy" -> z.type \in {"retry", "object"}
    [] key = "timestamp" -> z.type \in {"long", "numeric"}

Undefined(a) == /\ "retry_policy" \in DOMAIN a /\ ~Valid("retry_policy", a["retry_policy"])
                /\ \A key \in DOMAIN a \ {"retry_policy", "timestamp"} : Valid(key, a[key])

Foreign(a) == "retry_policy" \in DOMAIN a /\ Is(a["retry_policy"], "object")

BuildsLocal(a) == \A key \in DOMAIN a : Valid(key, a[key])

Contents(z) == CASE z.type \in {"long", "double", "numeric"} -> z.v
                 [] z.type = "string" -> z.parts
                 [] z.type = "array" -> z.items
                 [] OTHER -> z.type

(* An option, or NULL when the array lacks it (-1 and UNDEF in the code).  *)
Option(a, key) == IF key \in DOMAIN a THEN Contents(a[key]) ELSE NULL
PageSize(a) == IF Option(a, "page_size") # NULL /\ SignedInt(Option(a, "page_size")) >= 0
                 THEN SignedInt(Option(a, "page_size")) ELSE NULL

(* An option overrides the session's default, the other way round in the   *)
(* variant.                                                                *)
Chosen_DefaultWins(option, default) == IF default # NULL THEN default ELSE option

Chosen(option, default) == IF option # NULL THEN option ELSE default

-----------------------------------------------------------------------------
(* bind_argument_by_index and by_name: a long is bound as an int32, a name *)
(* or a string up to its first NUL byte.  An object of a foreign class, or *)
(* an array, returns FAILURE and throws nothing; what the driver refuses   *)
(* throws: a position beyond the places the statement was made with, and   *)
(* for a prepared statement a name it lacks or a type its marker cannot    *)
(* take.  (The objects the extension binds are data here; the collections  *)
(* among them are the business of TypedValues.)                            *)
UpToNul(z) == IF Is(z, "string") THEN [z EXCEPT !.parts = <<Head(@)>>] ELSE z
Bound(z) == IF Is(z, "long") THEN [z EXCEPT !.v = SignedInt(@)] ELSE UpToNul(z)

Takes(statement, args, key, z) ==
  LET named == {m \in 1..Len(Markers) : IF Is(key, "long") THEN m = key.v + 1
                                        ELSE Markers[m].name = Head(key.parts)}
  IN IF statement = "prepared"
       THEN named # {} /\ \A m \in named : z.type \in Markers[m].types \cup {"null"}
       ELSE Is(key, "long") => key.v \in 0 .. Len(args) - 1

BindFails(statement, args, i) ==
  CASE args[i][2].type \in {"object", "array"} -> "silent"
    [] ~Takes(statement, args, args[i][1], args[i][2]) -> "thrown"
    [] OTHER -> "no"

(* bind_arguments stops at the first failure.                              *)
BindOutcome(statement, args) ==
  LET failing == {i \in 1..Len(args) : BindFails(statement, args, i) # "no"} IN
  IF failing = {} THEN "sent"
  ELSE BindFails(statement, args, CHOOSE i \in failing : \A j \in failing : i <= j)

(* The variant takes the position of every key, as if none had a name.     *)
create_statement_Positional(statement, args) ==
  [statement |-> statement,
   values |-> [i \in 1..Len(args) |-> <<[type |-> "long", v |-> i - 1], Bound(args[i][2])>>]]

create_statement(statement, args) ==
  [statement |-> statement,
   values |-> [i \in 1..Len(args) |-> <<UpToNul(args[i][1]), Bound(args[i][2])>>]]

(* How long execute waits for the answer; executeAsync does not wait.      *)
Timeout(a) == Chosen(Option(a, "timeout"), session.default_timeout)

(* create_single: what the options leave open is not set on the statement. *)
create_single(statement, args, a) ==
  [kind |-> "single", statements |-> <<create_statement(statement, args)>>,
   consistency |-> Chosen(Option(a, "consistency"), session.default_consistency),
   timeout |-> Timeout(a),
   serial_consistency |-> Option(a, "serial_consistency"),
   page_size |-> LET n == Chosen(PageSize(a), session.default_page_size) IN
                 IF n >= 0 THEN n ELSE NULL,
   paging_state_token |-> Option(a, "paging_state_token"),
   retry_policy |-> Option(a, "retry_policy"), timestamp |-> Option(a, "timestamp")]

(* create_batch: every entry with its own arguments, in the order added.   *)
(* Arguments, serial consistency, page size and token of the options are   *)
(* not looked at.                                                          *)
create_batch(a) ==
  [kind |-> "batch",
   statements |-> [i \in 1..Len(batch) |-> create_statement(batch[i].statement, batch[i].args.items)],
   consistency |-> Chosen(Option(a, "consistency"), session.default_consistency),
   timeout |-> Timeout(a),
   serial_consistency |-> NULL, page_size |-> NULL, paging_state_token |-> NULL,
   retry_policy |-> Option(a, "retry_policy"), timestamp |-> Option(a, "timestamp")]

(* The first entry that fails decides.  Arguments of an entry that are no   *)
(* array are read as if they were one.                                     *)
EntryOutcome(entry) ==
  IF Is(entry.args, "array") THEN BindOutcome(entry.statement, entry.args.items) ELSE "undefined"

BatchOutcome ==
  LET failing == {i \in 1..Len(batch) : EntryOutcome(batch[i]) # "sent"} IN
  IF failing = {} THEN "sent"
  ELSE EntryOutcome(batch[CHOOSE i \in failing : \A j \in failing : i <= j])

-----------------------------------------------------------------------------
(* Session::execute and executeAsync; a string is a simple statement.      *)
OwnArguments(a) == IF "arguments" \in DOMAIN a THEN a["arguments"].items ELSE <<>>

Execute(statement, a) ==
  LET end == IF Undefined(a) THEN "undefined"
             ELSE IF ~BuildsLocal(a) THEN "thrown"
             ELSE IF Foreign(a) THEN "undefined"
             ELSE IF statement = "batch" THEN BatchOutcome
             ELSE BindOutcome(statement, OwnArguments(a))
  IN
  /\ Running /\ session # NULL /\ sent = NULL
  /\ statement = "prepared" => prepared = "ready"
  /\ statement = "batch" <=> batch # <<>>
  /\ outcome' = end
  /\ sent' = IF end # "sent" THEN NULL
             ELSE IF statement = "batch" THEN create_batch(a)
             ELSE create_single(statement, OwnArguments(a), a)
  /\ asked' = IF end = "sent" THEN [asked EXCEPT !.statement = statement, !.options = a] ELSE asked
  /\ UNCHANGED <<builder, withs, given, cluster, session, prepared, batch>>

(* The result is delivered or thrown; the next call starts afresh.         *)
Answer ==
  /\ sent # NULL
  /\ sent' = NULL /\ outcome' \in {"returned", "thrown"} /\ batch' = <<>>
  /\ asked' = [asked EXCEPT !.statement = NULL, !.options = NULL]
  /\ UNCHANGED <<builder, withs, given, cluster, session, prepared>>

(* BatchStatement::add takes simple statements (as strings too), prepared  *)
(* ones, and any arguments.                                                *)
add(statement, args) ==
  /\ Running /\ session # NULL /\ sent = NULL /\ Len(batch) < MaxAdd
  /\ statement = "prepared" => prepared = "ready"
  /\ \/ /\ statement \in {"simple", "prepared"}
        /\ batch' = Append(batch, [statement |-> statement, args |-> args])
        /\ outcome' = "returned"
     \/ /\ statement \notin {"simple", "prepared"}
        /\ outcome' = "thrown" /\ UNCHANGED batch
  /\ UNCHANGED <<builder, withs, given, cluster, session, prepared, sent, asked>>

(* Session::prepare: the options count only for their timeout, but all of  *)
(* them are checked.                                                       *)
prepare(a) ==
  /\ Running /\ session # NULL /\ sent = NULL /\ batch = <<>> /\ prepared = "none"
  /\ \/ /\ Undefined(a) /\ outcome' = "undefined" /\ UNCHANGED prepared
     \/ /\ ~Undefined(a) /\ outcome' = "thrown" /\ UNCHANGED prepared
     \/ /\ BuildsLocal(a) /\ outcome' = "returned" /\ prepared' = "ready"
  /\ UNCHANGED <<builder, withs, given, cluster, session, batch, sent, asked>>

prepareAsync ==
  /\ Running /\ session # NULL /\ sent = NULL /\ batch = <<>> /\ prepared = "none"
  /\ prepared' = "pending" /\ outcome' = "returned"
  /\ UNCHANGED <<builder, withs, given, cluster, session, batch, sent, asked>>

(* FuturePreparedStatement::get creates an object of the interface         *)
(* Statement, which fails, and writes the prepared statement through the   *)
(* null it was left with.  A timeout or an error throws before that.       *)
FuturePreparedStatementGet ==
  /\ Running /\ prepared = "pending" /\ sent = NULL
  /\ \/ outcome' = "thrown" /\ UNCHANGED prepared
     \/ outcome' = "undefined" /\ prepared' = "none"
  /\ UNCHANGED <<builder, withs, given, cluster, session, batch, sent, asked>>

RequestsNext ==
  \/ builder # NULL /\ withs < MaxWith
        /\ \E c \in Calls(builder, Zvals, Lists) : With(c[1], c[2])
  \/ build \/ connect
  \/ \E statement \in {"simple", "prepared", "batch"}, a \in OptionArrays :
        Execute(statement, a)
  \/ Answer
  \/ \E statement \in {"simple", "prepared", "batch"}, args \in Arguments :
        add(statement, args)
  \/ \E a \in OptionArrays : prepare(a)
  \/ prepareAsync
  \/ FuturePreparedStatementGet

RequestsSpec == RequestsInit /\ [][RequestsNext]_requestVars

-----------------------------------------------------------------------------
(* No sequence of accepted and refused with* calls leaves settings that do *)
(* not go together: a local data centre exactly for the data-centre-aware  *)
(* policy, a password exactly for a user name, no keepalive delay when     *)
(* keepalive is off, and fewer maximal than core connections only after a  *)
(* withConnectionsPerHost that threw and yet kept its core.                *)
ConsistentSettings ==
  builder # NULL =>
    /\ builder.load_balancing_policy = "dc_aware" <=> builder.local_dc # NULL
    /\ builder.username = NULL <=> builder.password = NULL
    /\ ~builder.enable_tcp_keepalive => builder.tcp_keepalive_delay = 0
    /\ builder.core_connections_per_host > builder.max_connections_per_host
         => "withConnectionsPerHost" \in asked.refused

(* What the caller gave as an option, or else as a default of the cluster  *)
(* the session was connected from.                                         *)
Wanted(key, field, otherwise) ==
  IF key \in DOMAIN asked.options THEN Contents(asked.options[key])
  ELSE IF session.via = "connect" /\ asked[field] # NULL THEN asked[field] ELSE otherwise

(* What the driver can be given as it is: no long wider than an int, no    *)
(* name or string with a NUL in it.                                        *)
Whole(z) == /\ Is(z, "long") => z.v \in -(IntRange \div 2) .. IntRange \div 2 - 1
            /\ Is(z, "string") => Len(z.parts) = 1

(* The statement holds the arguments given: each under its own position or *)
(* name and with its own value, exactly if these are whole.                *)
Faithful(q, statement, args) ==
  /\ q.statement = statement
  /\ Len(q.values) = Len(args)
  /\ \A j \in 1..Len(args) :
       /\ args[j][2].type \notin {"object", "array"}
       /\ q.values[j][1] = args[j][1] <=> (Is(args[j][1], "string") => Whole(args[j][1]))
       /\ q.values[j][2] = args[j][2] <=> Whole(args[j][2])

(* A request that reaches the driver is the one the caller described: its  *)
(* consistency and page size are the option's, else the default given to   *)
(* the builder (for sessions from connect), else the documented default;   *)
(* its timeout is the option's, else none (no default timeout reaches a    *)
(* session); a batch holds the added statements in their order, and every  *)
(* statement its own arguments, whatever their types, by position or name; *)
(* nothing is sent when an option or an argument of any statement is       *)
(* refused.  Page sizes that an int cannot hold are left out.              *)
RequestAsAsked ==
  sent # NULL =>
    LET a == asked.options
        list == IF sent.kind = "batch"
                  THEN [i \in 1..Len(batch) |-> [batch[i] EXCEPT !.args = @.items]]
                  ELSE <<[statement |-> asked.statement, args |-> OwnArguments(a)]>>
        wanted == Wanted("page_size", "default_page_size", 5000)
    IN /\ sent.consistency = Wanted("consistency", "default_consistency", LOCAL_ONE)
       /\ sent.kind = "single" /\ wanted < IntRange \div 2 =>
            sent.page_size = IF wanted < 0 THEN NULL ELSE wanted
       /\ sent.timeout = Option(a, "timeout")
       /\ Len(sent.statements) = Len(list)
       /\ \A i \in 1..Len(list) :
            Faithful(sent.statements[i], list[i].statement, list[i].args)
       /\ BuildsLocal(a)

(* Cluster\Builder: the default consistency is for all requests.           *)
DefaultsHonoured ==
  sent # NULL /\ "consistency" \notin DOMAIN asked.options /\ asked.default_consistency # NULL
    => sent.consistency = asked.default_consistency
=============================================================================
