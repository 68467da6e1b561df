-------------------------- MODULE ClusterBuilder --------------------------
(***************************************************************************)
(* Cluster\Builder: every with* method as a function from the builder (a   *)
(* record of its fields) and the PHP arguments to the builder after the    *)
(* call and whether the call was accepted, and what build hands over.      *)
(*                                                                         *)
(* A PHP value is a record of its type and its contents: a number v, the   *)
(* parts of a string (separated by commas where hosts or data centres are  *)
(* listed) or the items of an array.  A double counts in halves of a       *)
(* millisecond (or of a second, for the heartbeat interval).  An int of    *)
(* the C code has IntRange values (2^32 in the build).                     *)
(***************************************************************************)
EXTENDS Integers, Sequences, SequencesExt, Null

CONSTANT IntRange

ASSUME IntRangeAssumption == IntRange \in Nat /\ IntRange % 2 = 0 /\ IntRange > 20000

UnsignedInt(n) == n % IntRange
SignedInt(n) == LET m == (n + IntRange \div 2) % IntRange IN m - IntRange \div 2

Is(z, type) == z.type = type
Long(z, low, high) == Is(z, "long") /\ z.v \in low..high
AnyLong == 4 * IntRange * 1000          \* bound: no argument is larger

(* A number of seconds above zero: its milliseconds, in an unsigned int.   *)
Seconds(z) == z.type \in {"long", "double"} /\ z.v > 0
Millis(z) == UnsignedInt(IF Is(z, "long") THEN z.v * 1000 ELSE (z.v + 1) \div 2)

(* The consistency levels, SERIAL and LOCAL_SERIAL being 8 and 9.          *)
Consistency == 0..10
SerialConsistency == {8, 9}
LOCAL_ONE == 10

php_driver_get_consistency(z) == Is(z, "long") /\ z.v \in Consistency
php_driver_get_serial_consistency(z) == Is(z, "long") /\ z.v \in SerialConsistency

-----------------------------------------------------------------------------
php_driver_cluster_builder_new ==
  [contact_points |-> <<"127.0.0.1">>, port |-> 9042,
   load_balancing_policy |-> "default", local_dc |-> NULL,
   used_hosts_per_remote_dc |-> 0, allow_remote_dcs_for_local_cl |-> FALSE,
   use_token_aware_routing |-> TRUE, username |-> NULL, password |-> NULL,
   connect_timeout |-> 5000, request_timeout |-> 12000, ssl_options |-> NULL,
   default_consistency |-> LOCAL_ONE, default_page_size |-> 5000,
   default_timeout |-> NULL, persist |-> TRUE, protocol_version |-> 4,
   io_threads |-> 1, core_connections_per_host |-> 1, max_connections_per_host |-> 2,
   reconnect_interval |-> 2000, enable_latency_aware_routing |-> TRUE,
   enable_tcp_nodelay |-> TRUE, enable_tcp_keepalive |-> FALSE,
   tcp_keepalive_delay |-> 0, retry_policy |-> NULL, timestamp_gen |-> NULL,
   enable_schema |-> TRUE, blacklist_hosts |-> NULL, whitelist_hosts |-> NULL,
   blacklist_dcs |-> NULL, whitelist_dcs |-> NULL,
   enable_hostname_resolution |-> FALSE, enable_randomized_contact_points |-> TRUE,
   connection_heartbeat_interval |-> 30]

(* A call that throws returns before it changes anything.                  *)
Refused(b) == [ok |-> FALSE, builder |-> b]
When(accepted, b, changed) == IF accepted THEN [ok |-> TRUE, builder |-> changed]
                                          ELSE Refused(b)

(* A list of strings is joined with commas; an empty list is refused by    *)
(* the parameter parser, a value that is not a string by the loop.         *)
Strings(args) == args # <<>> /\ \A i \in 1..Len(args) : Is(args[i], "string")
Joined(args) == FlattenSeq([i \in 1..Len(args) |-> args[i].parts])

withDefaultConsistency(b, z) ==
  When(php_driver_get_consistency(z), b, [b EXCEPT !.default_consistency = z.v])

withDefaultPageSize(b, z) ==
  When(Is(z, "null") \/ Long(z, 1, AnyLong), b,
       [b EXCEPT !.default_page_size = IF Is(z, "null") THEN -1 ELSE SignedInt(z.v)])

withDefaultTimeout(b, z) ==
  When(Is(z, "null") \/ Seconds(z), b,
       [b EXCEPT !.default_timeout = IF Is(z, "null") THEN NULL ELSE z])

withContactPoints(b, args) == When(Strings(args), b, [b EXCEPT !.contact_points = Joined(args)])
withBlackListHosts(b, args) == When(Strings(args), b, [b EXCEPT !.blacklist_hosts = Joined(args)])
withWhiteListHosts(b, args) == When(Strings(args), b, [b EXCEPT !.whitelist_hosts = Joined(args)])
withBlackListDCs(b, args) == When(Strings(args), b, [b EXCEPT !.blacklist_dcs = Joined(args)])
withWhiteListDCs(b, args) == When(Strings(args), b, [b EXCEPT !.whitelist_dcs = Joined(args)])

withPort(b, z) == When(Long(z, 1, 65535), b, [b EXCEPT !.port = z.v])

(* The variant keeps the local data centre of an earlier policy.           *)
withRoundRobinLoadBalancingPolicy_KeepsDC(b) ==
  When(TRUE, b, [b EXCEPT !.load_balancing_policy = "round_robin"])

withRoundRobinLoadBalancingPolicy(b) ==
  When(TRUE, b, [b EXCEPT !.local_dc = NULL, !.load_balancing_policy = "round_robin"])

withDatacenterAwareRoundRobinLoadBalancingPolicy(b, dc, hosts, allow) ==
  When(Long(hosts, 0, AnyLong), b,
       [b EXCEPT !.load_balancing_policy = "dc_aware", !.local_dc = dc,
                 !.used_hosts_per_remote_dc = UnsignedInt(hosts.v),
                 !.allow_remote_dcs_for_local_cl = allow])

withTokenAwareRouting(b, enabled) == When(TRUE, b, [b EXCEPT !.use_token_aware_routing = enabled])

withCredentials(b, username, password) ==
  When(Is(username, "string") /\ Is(password, "string"), b,
       [b EXCEPT !.username = username.parts, !.password = password.parts])

withConnectTimeout(b, z) == When(Seconds(z), b, [b EXCEPT !.connect_timeout = Millis(z)])
withRequestTimeout(b, z) ==
  When(z.type \in {"long", "double"}, b, [b EXCEPT !.request_timeout = Millis(z)])

withSSL(b, ssl) == When(Is(ssl, "ssl"), b, [b EXCEPT !.ssl_options = ssl.type])
withPersistentSessions(b, enabled) == When(TRUE, b, [b EXCEPT !.persist = enabled])
withProtocolVersion(b, z) ==
  When(Long(z, 1, AnyLong), b, [b EXCEPT !.protocol_version = SignedInt(z.v)])
withIOThreads(b, z) == When(Long(z, 1, 128), b, [b EXCEPT !.io_threads = z.v])

(* The core connections are stored before max is looked at, and stay when  *)
(* max is refused.                                                         *)
withConnectionsPerHost(b, core, max) ==
  LET changed == [b EXCEPT !.core_connections_per_host = core.v] IN
  IF ~Long(core, 1, 128) THEN Refused(b)
  ELSE When(Is(max, "null") \/ Long(max, core.v, 128), changed,
            [changed EXCEPT !.max_connections_per_host = IF Is(max, "null") THEN core.v ELSE max.v])

withReconnectInterval(b, z) == When(Seconds(z), b, [b EXCEPT !.reconnect_interval = Millis(z)])
withLatencyAwareRouting(b, enabled) ==
  When(TRUE, b, [b EXCEPT !.enable_latency_aware_routing = enabled])
withTCPNodelay(b, enabled) == When(TRUE, b, [b EXCEPT !.enable_tcp_nodelay = enabled])

withTCPKeepalive(b, z) ==
  When(Is(z, "null") \/ Seconds(z), b,
       [b EXCEPT !.enable_tcp_keepalive = ~Is(z, "null"),
                 !.tcp_keepalive_delay = IF Is(z, "null") THEN 0 ELSE Millis(z)])

withRetryPolicy(b, policy) == When(Is(policy, "retry"), b, [b EXCEPT !.retry_policy = policy.type])
withTimestampGenerator(b, gen) ==
  When(Is(gen, "timestamp_gen"), b, [b EXCEPT !.timestamp_gen = gen.type])
withSchemaMetadata(b, enabled) == When(TRUE, b, [b EXCEPT !.enable_schema = enabled])
withHostnameResolution(b, enabled) ==
  When(TRUE, b, [b EXCEPT !.enable_hostname_resolution = enabled])
withRandomizedContactPoints(b, enabled) ==
  When(TRUE, b, [b EXCEPT !.enable_randomized_contact_points = enabled])

withConnectionHeartbeatInterval(b, z) ==
  When(z.type \in {"long", "double"} /\ z.v >= 0, b,
       [b EXCEPT !.connection_heartbeat_interval =
          UnsignedInt(IF Is(z, "long") THEN z.v ELSE (z.v + 1) \div 2)])

-----------------------------------------------------------------------------
(* The names given as the local data centre.                               *)
LocalDC == {"dc1"}

(* Every call of a with* method with arguments from the sets given: pairs  *)
(* of the method's name and its result.                                    *)
Calls(b, zvals, lists) ==
  UNION {
    {<<"withDefaultConsistency", withDefaultConsistency(b, z)>> : z \in zvals},
    {<<"withDefaultPageSize", withDefaultPageSize(b, z)>> : z \in zvals},
    {<<"withDefaultTimeout", withDefaultTimeout(b, z)>> : z \in zvals},
    {<<"withPort", withPort(b, z)>> : z \in zvals},
    {<<"withConnectTimeout", withConnectTimeout(b, z)>> : z \in zvals},
    {<<"withRequestTimeout", withRequestTimeout(b, z)>> : z \in zvals},
    {<<"withSSL", withSSL(b, z)>> : z \in zvals},
    {<<"withProtocolVersion", withProtocolVersion(b, z)>> : z \in zvals},
    {<<"withIOThreads", withIOThreads(b, z)>> : z \in zvals},
    {<<"withReconnectInterval", withReconnectInterval(b, z)>> : z \in zvals},
    {<<"withTCPKeepalive", withTCPKeepalive(b, z)>> : z \in zvals},
    {<<"withRetryPolicy", withRetryPolicy(b, z)>> : z \in zvals},
    {<<"withTimestampGenerator", withTimestampGenerator(b, z)>> : z \in zvals},
    {<<"withConnectionHeartbeatInterval", withConnectionHeartbeatInterval(b, z)>> : z \in zvals},
    {<<"withCredentials", withCredentials(b, y, z)>> : y, z \in zvals},
    {<<"withConnectionsPerHost", withConnectionsPerHost(b, y, z)>> : y, z \in zvals},
    {<<"withRoundRobinLoadBalancingPolicy", withRoundRobinLoadBalancingPolicy(b)>>},
    {<<"withDatacenterAwareRoundRobinLoadBalancingPolicy",
       withDatacenterAwareRoundRobinLoadBalancingPolicy(b, dc, z, e)>> :
       dc \in LocalDC, z \in zvals, e \in BOOLEAN},
    {<<"withContactPoints", withContactPoints(b, l)>> : l \in lists},
    {<<"withBlackListHosts", withBlackListHosts(b, l)>> : l \in lists},
    {<<"withWhiteListHosts", withWhiteListHosts(b, l)>> : l \in lists},
    {<<"withBlackListDCs", withBlackListDCs(b, l)>> : l \in lists},
    {<<"withWhiteListDCs", withWhiteListDCs(b, l)>> : l \in lists},
    UNION {{<<"withTokenAwareRouting", withTokenAwareRouting(b, e)>>,
            <<"withPersistentSessions", withPersistentSessions(b, e)>>,
            <<"withLatencyAwareRouting", withLatencyAwareRouting(b, e)>>,
            <<"withTCPNodelay", withTCPNodelay(b, e)>>,
            <<"withSchemaMetadata", withSchemaMetadata(b, e)>>,
            <<"withHostnameResolution", withHostnameResolution(b, e)>>,
            <<"withRandomizedContactPoints", withRandomizedContactPoints(b, e)>>} : e \in BOOLEAN}}

-----------------------------------------------------------------------------
(* build: the calls made on the new CassCluster, in order, each with its   *)
(* values; optional ones are left out.                                     *)
Optional(condition, call) == IF condition THEN <<call>> ELSE <<>>

DriverCalls(b) ==
     Optional(b.load_balancing_policy = "round_robin", <<"load_balance_round_robin">>)
  \o Optional(b.load_balancing_policy = "dc_aware",
              <<"load_balance_dc_aware", b.local_dc, b.used_hosts_per_remote_dc,
                b.allow_remote_dcs_for_local_cl>>)
  \o Optional(b.blacklist_hosts # NULL, <<"blacklist_filtering", b.blacklist_hosts>>)
  \o Optional(b.whitelist_hosts # NULL, <<"whitelist_filtering", b.whitelist_hosts>>)
  \o Optional(b.blacklist_dcs # NULL, <<"blacklist_dc_filtering", b.blacklist_dcs>>)
  \o Optional(b.whitelist_dcs # NULL, <<"whitelist_dc_filtering", b.whitelist_dcs>>)
  \o <<<<"token_aware_routing", b.use_token_aware_routing>>>>
  \o Optional(b.username # NULL, <<"credentials", b.username, b.password>>)
  \o <<<<"connect_timeout", b.connect_timeout>>, <<"request_timeout", b.request_timeout>>>>
  \o Optional(b.ssl_options # NULL, <<"ssl", b.ssl_options>>)
  \o <<<<"contact_points", b.contact_points>>, <<"port", b.port>>,
       <<"protocol_version", b.protocol_version>>, <<"num_threads_io", b.io_threads>>,
       <<"core_connections_per_host", b.core_connections_per_host>>,
       <<"max_connections_per_host", b.max_connections_per_host>>,
       <<"reconnect_wait_time", b.reconnect_interval>>,
       <<"latency_aware_routing", b.enable_latency_aware_routing>>,
       <<"tcp_nodelay", b.enable_tcp_nodelay>>,
       <<"tcp_keepalive", b.enable_tcp_keepalive, b.tcp_keepalive_delay>>,
       <<"use_schema", b.enable_schema>>,
       <<"use_hostname_resolution", b.enable_hostname_resolution>>,
       <<"use_randomized_contact_points", b.enable_randomized_contact_points>>,
       <<"connection_heartbeat_interval", b.connection_heartbeat_interval>>>>
  \o Optional(b.timestamp_gen # NULL, <<"timestamp_gen", b.timestamp_gen>>)
  \o Optional(b.retry_policy # NULL, <<"retry_policy", b.retry_policy>>)

(* The calls whose failure makes build throw; hostname resolution may be   *)
(* missing from the driver, which is only warned about.                    *)
MayThrow == {"load_balance_dc_aware", "contact_points", "port", "protocol_version",
             "num_threads_io", "core_connections_per_host", "max_connections_per_host",
             "use_hostname_resolution", "use_randomized_contact_points"}

(* The fields of the DefaultCluster that sessions take over.               *)
Built(b) == [persist |-> b.persist, default_consistency |-> b.default_consistency,
             default_page_size |-> b.default_page_size, default_timeout |-> b.default_timeout]
=============================================================================
