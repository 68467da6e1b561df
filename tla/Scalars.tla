------------------------------ MODULE Scalars ------------------------------
(***************************************************************************)
(* Date, Time, Timestamp, Duration, Uuid, Timeuuid and Blob, as operators: *)
(* what a constructor stores and what the methods give back.               *)
(***************************************************************************)
EXTENDS Numbers

CONSTANTS Milli,        \* milliseconds in a second, microseconds in a millisecond
          DaySeconds,   \* seconds in a day
          NsPerSecond   \* nanoseconds in a second

ASSUME UnitsAssumption == {Milli, DaySeconds, NsPerSecond} \subseteq Nat \ {0}

LastNs == DaySeconds * NsPerSecond - 1  \* NUM_NANOSECONDS_PER_DAY

\* The driver library: days since the epoch, and seconds of date and time.
cass_date_from_epoch(seconds) == seconds \div DaySeconds
cass_time_from_epoch(seconds) == (seconds % DaySeconds) * NsPerSecond
cass_date_time_to_epoch(date, time) == date * DaySeconds + time \div NsPerSecond

Date_init(z) == IF z.kind = "long" THEN Ok(cass_date_from_epoch(z.n)) ELSE Throw("invalid")
Date_seconds(d) == cass_date_time_to_epoch(d, 0)
Date_toDateTime(d, time) == cass_date_time_to_epoch(d, time)
Date_fromDateTime(seconds) == cass_date_from_epoch(seconds)

Time_init(z) ==
  LET r == CASE z.kind = "long"   -> Ok(z.n)
             [] z.kind = "string" -> php_driver_parse_bigint(z.s)
             [] OTHER             -> Throw("invalid")
  IN  IF r.exc = "none" /\ r.v \notin 0 .. LastNs THEN Throw("invalid") ELSE r
Time_seconds(t) == t \div NsPerSecond
Time_fromDateTime(seconds) == cass_time_from_epoch(seconds)

Timestamp_init(seconds, microseconds) ==
  Wrap(LongBits, Quot(microseconds, Milli) + seconds * Milli)
Timestamp_time(ts) == Quot(ts, Milli)
Timestamp_properties(ts) ==
  LET sec == Quot(ts, Milli) IN [seconds |-> sec, microseconds |-> (ts - sec * Milli) * Milli]
Timestamp_microtime(ts) == LET sec == Quot(ts, Milli) IN [sec |-> sec, usec |-> ts - sec * Milli]
Timestamp_toDateTime(ts) == Quot(ts, Milli)

\* get_param: every kind of number is held against the limits of the field.
get_param(z, w) ==
  LET r == CASE z.kind \in {"long", "same"} -> Ok(z.n)
             [] z.kind = "double"           -> Ok(z.n)
             [] z.kind = "string"           -> php_driver_parse_bigint(z.s)
             [] OTHER                       -> Throw("invalid")
  IN  IF r.exc = "none" /\ ~Fits(w, r.v) THEN Throw("invalid") ELSE r

SameSign(S) == (\A n \in S : n <= 0) \/ (\A n \in S : n >= 0)
Duration_init(months, days, nanos) ==
  LET m == get_param(months, IntBits)
      d == get_param(days, IntBits)
      n == get_param(nanos, LongBits)
  IN  CASE m.exc # "none" -> m
        [] m.exc = "none" /\ d.exc # "none" -> d
        [] m.exc = "none" /\ d.exc = "none" /\ n.exc # "none" -> n
        [] OTHER -> IF SameSign({m.v, d.v, n.v}) THEN Ok(<<m.v, d.v, n.v>>)
                    ELSE Throw("bad_function_call")

\* The text: one sign in front and three magnitudes, computed in the width
\* of the field.
Magnitude(w, n) == IF n < 0 THEN Wrap(w, -n) ELSE n
php_driver_duration_to_string(dur) ==
  [neg |-> \E i \in 1 .. 3 : dur[i] < 0,
   parts |-> <<Magnitude(IntBits, dur[1]), Magnitude(IntBits, dur[2]), Magnitude(LongBits, dur[3])>>]

\* A UUID text is its version, or not a UUID.
Uuid_init(z) == CASE z.kind = "none" -> Ok(4)
                  [] z.kind = "uuid" -> Ok(z.version)
                  [] OTHER           -> Throw("invalid")
\* The value of a Timeuuid is its time in milliseconds; 0 is now, and the
\* time of every text.
Timeuuid_init(z) == CASE z.kind = "none" -> Ok(0)
                      [] z.kind = "long" -> IF z.n < 0 THEN Throw("invalid") ELSE Ok(z.n)
                      [] z.kind = "uuid" -> IF z.version # 1 THEN Throw("invalid") ELSE Ok(0)
                      [] OTHER           -> Throw("invalid")
Timeuuid_time(ms) == ms \div Milli
Timeuuid_toDateTime(ms) == ms \div Milli

Blob_init(bytes) == bytes
Blob_toBinaryString(blob) == blob
php_driver_bytes_to_hex(blob) ==
  [i \in 1 .. 2 * Len(blob) |->
     IF i % 2 = 1 THEN blob[(i + 1) \div 2] \div 16 ELSE blob[i \div 2] % 16]
=============================================================================
