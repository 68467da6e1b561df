------------------------------- MODULE Values -------------------------------
(***************************************************************************)
(* The value classes in use: a program constructs a value, self, of some   *)
(* class from a PHP value, a second one, num, and calls one method; or it  *)
(* writes self out (text, wire bytes, a date) and reads that back; or it   *)
(* gives the constructor of Inet a text, which is parsed token by token.   *)
(***************************************************************************)
EXTENDS Scalars, InetParser

CONSTANTS Classes,              \* the classes a behaviour picks one of
          VarintMags,           \* magnitudes of varints that are not longs
          IntParts, FracParts,  \* the digits a decimal's text has before and after the dot
          Exponents,            \* its exponents
          Fractions,            \* doubles given to Decimal, as m / 2^k
          Seconds,              \* the times given to Date and Timestamp
          Microseconds,         \* those given to Timestamp
          Params,               \* the integers given to Duration
          Blobs                 \* the bytes given to Blob

ASSUME InputsAssumption ==
  /\ VarintMags \subseteq Nat
  /\ IntParts \cup FracParts \subseteq Seq(0 .. 9)
  /\ Exponents \subseteq Int \ {NoExponent, MissingExponent}
  /\ Fractions \subseteq [m : Int, k : Nat]
  /\ Seconds \cup Params \subseteq Int /\ Microseconds \subseteq Nat
  /\ Blobs \subseteq Seq(0 .. 255)

VARIABLES cls,
          self, num,    \* <<>>, or <<v>> once the value v is constructed
          out,          \* the last call: its name, what went in, what came out
          ip            \* the parser of Inet's constructor

vars == <<cls, self, num, out, ip>>

None == "none"
Call(op, in, r) == [op |-> op, in |-> in, r |-> r]
NoCall == Call(None, <<>>, Ok(0))

Narrow  == {"Tinyint", "Smallint"}
Integer == Narrow \cup {"Bigint", "Varint"}
Numeric == Integer \cup {"Decimal", "Float"}
Width(c) == CASE c = "Tinyint" -> TinyBits [] c = "Smallint" -> SmallBits [] OTHER -> LongBits

(***************************************************************************)
(* What PHP code can pass.                                                 *)
(***************************************************************************)
Longs   == IntMin(LongBits) .. IntMax(LongBits)
Texts   == [neg : BOOLEAN, mag : {NoDigits} \cup 0 .. Pow(2, LongBits) + 1 \cup VarintMags,
            junk : BOOLEAN]
NoValue == {[kind |-> "nan"], [kind |-> "other"]}
PhpInts == [kind : {"long"}, n : Longs]

DecimalTexts ==
  {t \in [neg : BOOLEAN, int : IntParts, dots : 0 .. 2, frac : FracParts,
          exp : {NoExponent, MissingExponent} \cup Exponents] :
     t.dots = 0 => t.frac = <<>>}

Inputs(c) ==
  (IF c \in Numeric \cup {"Date", "Time", "Uuid", "Timeuuid"} THEN NoValue ELSE {}) \cup
  CASE c \in {"Decimal"} -> PhpInts \cup [kind : {"text"}, t : DecimalTexts]
                              \cup {[kind |-> "fraction", m |-> f.m, k |-> f.k] : f \in Fractions}
    [] c \in Integer \cup {"Float"} ->
         PhpInts \cup [kind : {"double"}, n : -Pow(2, LongBits) .. Pow(2, LongBits)]
           \cup [kind : {"string"}, s : Texts]
           \cup (IF c = "Float" THEN [kind : {"same"}, n : {0}]
                 ELSE [kind : {"same"}, n : IntMin(Width(c)) .. IntMax(Width(c))])
    [] c = "Time" -> PhpInts \cup [kind : {"string"}, s : Texts]
    [] c = "Date" -> [kind : {"long"}, n : Seconds]
    [] c \in {"Uuid", "Timeuuid"} ->
         {[kind |-> "none"]} \cup [kind : {"uuid"}, version : 1 .. 5] \cup [kind : {"long"}, n : {-1, 3}]
    [] OTHER -> {}

\* Second operands: decimals without exponent keep the products in range.
Operands(c) ==
  {z \in Inputs(c) : z.kind = "long" \/ (z.kind = "text" /\ z.t.exp = NoExponent)}

\* The constructor of every class, as a set of outcomes.
Init_(c, z) ==
  CASE c = "Tinyint"  -> {Tinyint_init(z)}
    [] c = "Smallint" -> {Smallint_init(z)}
    [] c = "Bigint"   -> {Bigint_init(z)}
    [] c = "Varint"   -> {Varint_init(z)}
    [] c = "Decimal"  -> {Decimal_init(z)}
    [] c = "Float"    -> Float_init(z)
    [] c = "Time"     -> {Time_init(z)}
    [] c = "Date"     -> {Date_init(z)}
    [] c = "Uuid"     -> {Uuid_init(z)}
    [] c = "Timeuuid" -> {Timeuuid_init(z)}

BinaryOps == {"add", "sub", "mul", "div", "mod", "compare"}
UnaryOps  == {"abs", "neg", "sqrt", "toInt", "limits", "kind"}
FixedWidth == Narrow \cup {"Bigint"}
\* The methods of the classes that have them all; compare and the limits are
\* those of the fixed widths, and only Float tells its kind.
Has(c, op) == /\ op \in {"compare", "limits"} => c \in FixedWidth
              /\ op = "kind" => c = "Float"

\* The method `op' of class c called on a with argument b.
Binary(c, op, a, b) ==
  CASE c = "Tinyint"  -> {CASE op = "add" -> Tinyint_add(a, b) [] op = "sub" -> Tinyint_sub(a, b)
                            [] op = "mul" -> Tinyint_mul(a, b) [] op = "div" -> Tinyint_div(a, b)
                            [] op = "mod" -> Tinyint_mod(a, b) [] op = "compare" -> Ok(Tinyint_compare(a, b))}
    [] c = "Smallint" -> {CASE op = "add" -> Smallint_add(a, b) [] op = "sub" -> Smallint_sub(a, b)
                            [] op = "mul" -> Smallint_mul(a, b) [] op = "div" -> Smallint_div(a, b)
                            [] op = "mod" -> Smallint_mod(a, b) [] op = "compare" -> Ok(Smallint_compare(a, b))}
    [] c = "Bigint"   -> {CASE op = "add" -> Bigint_add(a, b) [] op = "sub" -> Bigint_sub(a, b)
                            [] op = "mul" -> Bigint_mul(a, b) [] op = "div" -> Bigint_div(a, b)
                            [] op = "mod" -> Bigint_mod(a, b) [] op = "compare" -> Ok(Bigint_compare(a, b))}
    [] c = "Varint"   -> {CASE op = "add" -> Varint_add(a, b) [] op = "sub" -> Varint_sub(a, b)
                            [] op = "mul" -> Varint_mul(a, b) [] op = "div" -> Varint_div(a, b)
                            [] op = "mod" -> Varint_mod(a, b)}
    [] c = "Decimal"  -> {CASE op = "add" -> Decimal_add(a, b) [] op = "sub" -> Decimal_sub(a, b)
                            [] op = "mul" -> Decimal_mul(a, b) [] op = "div" -> Decimal_div(a, b)
                            [] op = "mod" -> Decimal_mod(a, b)}
    [] c = "Float"    -> CASE op = "add" -> Float_add(a, b) [] op = "sub" -> Float_sub(a, b)
                           [] op = "mul" -> Float_mul(a, b) [] op = "div" -> Float_div(a, b)
                           [] op = "mod" -> Float_mod(a, b)

Unary(c, op, a) ==
  CASE c = "Tinyint"  -> {CASE op = "abs" -> Tinyint_abs(a)  [] op = "neg" -> Tinyint_neg(a)
                            [] op = "sqrt" -> Tinyint_sqrt(a) [] op = "toInt" -> Ok(a)
                            [] op = "limits" -> Ok(<<Tinyint_min, Tinyint_max>>)}
    [] c = "Smallint" -> {CASE op = "abs" -> Smallint_abs(a)  [] op = "neg" -> Smallint_neg(a)
                            [] op = "sqrt" -> Smallint_sqrt(a) [] op = "toInt" -> Ok(a)
                            [] op = "limits" -> Ok(<<Smallint_min, Smallint_max>>)}
    [] c = "Bigint"   -> {CASE op = "abs" -> Bigint_abs(a)  [] op = "neg" -> Bigint_neg(a)
                            [] op = "sqrt" -> Bigint_sqrt(a) [] op = "toInt" -> Bigint_to_long(a)
                            [] op = "limits" -> Ok(<<Bigint_min, Bigint_max>>)}
    [] c = "Varint"   -> {CASE op = "abs" -> Varint_abs(a)  [] op = "neg" -> Varint_neg(a)
                            [] op = "sqrt" -> Varint_sqrt(a) [] op = "toInt" -> Varint_to_long(a)}
    [] c = "Decimal"  -> {CASE op = "abs" -> Decimal_abs(a)  [] op = "neg" -> Decimal_neg(a)
                            [] op = "sqrt" -> Decimal_sqrt(a) [] op = "toInt" -> Decimal_to_long(a)}
    [] c = "Float"    -> CASE op = "abs" -> Float_abs(a)  [] op = "neg" -> Float_neg(a)
                           [] op = "sqrt" -> Float_sqrt(a) [] op = "toInt" -> {Float_toInt(a)}
                           [] op = "kind" -> {Ok(<<Float_isNaN(a), Float_isInfinite(a), Float_isFinite(a)>>)}

(***************************************************************************)
(* Writing a value out and reading it back.                                *)
(***************************************************************************)
Read(r, F(_)) == IF r.exc = "none" THEN F(r.v) ELSE r
AsInteger(t) == [neg |-> t.neg, mag |-> Spelled(t.int, 10), junk |-> FALSE]

ThroughText(c, v) ==
  CASE c = "Decimal" -> Read(Decimal_to_string(v), php_driver_parse_decimal)
    [] c = "Varint"  -> php_driver_parse_varint(AsInteger(php_driver_format_integer(v)))
    [] c = "Bigint"  -> php_driver_parse_bigint(AsInteger(php_driver_format_integer(v)))
    [] OTHER -> LET t == php_driver_duration_to_string(v)
                IN  Ok([i \in 1 .. 3 |-> IF t.neg THEN -t.parts[i] ELSE t.parts[i]])

\* bind by export_twos_complement, decode by import_twos_complement
ThroughWire(c, v) ==
  IF c = "Decimal" THEN Ok([v EXCEPT !.v = import_twos_complement(export_twos_complement(@))])
                   ELSE Ok(import_twos_complement(export_twos_complement(v)))
-----------------------------------------------------------------------------
Init == /\ cls \in Classes
        /\ self = <<>> /\ num = <<>> /\ out = NoCall /\ ip = NewParser

\* new C(value), by a class that takes one PHP value.
Construct(z) ==
  /\ self = <<>> /\ out.op = None
  /\ \E r \in Init_(cls, z) :
       /\ out' = Call("new", z, r)
       /\ self' = IF r.exc = "none" THEN <<r.v>> ELSE <<>>
  /\ UNCHANGED <<cls, num, ip>>

\* The other operand: any value of the class a long or a text gives.
Operand(z) ==
  /\ cls \in Numeric /\ self # <<>> /\ num = <<>>
  /\ \E r \in Init_(cls, z) : r.exc = "none" /\ num' = <<r.v>>
  /\ out' = NoCall
  /\ UNCHANGED <<cls, self, ip>>

\* self->op(num).  Decimal's add and sub leave the operands aligned.
BinaryCall(op) ==
  /\ num # <<>> /\ out.op = None /\ Has(cls, op)
  /\ \E r \in Binary(cls, op, self[1], num[1]) : out' = Call(op, self \o num, r)
  /\ LET p == IF cls = "Decimal" /\ op \in {"add", "sub"} THEN align_decimals(self[1], num[1])
                                                          ELSE [x |-> self[1], y |-> num[1]]
     IN  self' = <<p.x>> /\ num' = <<p.y>>
  /\ UNCHANGED <<cls, ip>>

UnaryCall(op) ==
  /\ cls \in Numeric /\ self # <<>> /\ num = <<>> /\ Has(cls, op)
  /\ \E r \in Unary(cls, op, self[1]) : out' = Call(op, self, r)
  /\ UNCHANGED <<cls, self, num, ip>>

WriteText == /\ cls \in {"Bigint", "Varint", "Decimal", "Duration"} /\ self # <<>> /\ num = <<>>
             /\ out' = Call("text", self, ThroughText(cls, self[1]))
             /\ UNCHANGED <<cls, self, num, ip>>

WriteWire == /\ cls \in {"Varint", "Decimal"} /\ self # <<>> /\ num = <<>>
             /\ out' = Call("wire", self, ThroughWire(cls, self[1]))
             /\ UNCHANGED <<cls, self, num, ip>>

\* new Timestamp(seconds, microseconds), then its fields given to a new one.
NewTimestamp(s, us) ==
  /\ cls = "Timestamp" /\ self = <<>>
  /\ self' = <<Timestamp_init(s, us)>>
  /\ LET p == Timestamp_properties(self'[1])
     IN  out' = Call("fields", <<s, us>>, Ok(Timestamp_init(p.seconds, p.microseconds)))
  /\ UNCHANGED <<cls, num, ip>>

\* The times a value tells, in seconds and in whatever is below a second.
Clock(c, v) ==
  CASE c = "Date"      -> [s |-> Date_seconds(v), sub |-> 0]
    [] c = "Time"      -> [s |-> Time_seconds(v), sub |-> v - Time_seconds(v) * NsPerSecond]
    [] c = "Timestamp" -> [s |-> Timestamp_time(v), sub |-> Timestamp_microtime(v).usec]
    [] c = "Timeuuid"  -> [s |-> Timeuuid_time(v), sub |-> v % Milli]

TellTime == /\ cls \in {"Date", "Time", "Timestamp", "Timeuuid"} /\ self # <<>>
            /\ out' = Call("clock", self, Ok(Clock(cls, self[1])))
            /\ UNCHANGED <<cls, self, num, ip>>

\* A date and a time of day to a DateTime, and back.
DateTime(d, t) ==
  /\ cls = "Date" /\ self # <<>> /\ num = <<>>
  /\ LET s == Date_toDateTime(d, t)
     IN  out' = Call("datetime", <<d, t>>, Ok(<<Date_fromDateTime(s), Time_fromDateTime(s)>>))
  /\ UNCHANGED <<cls, self, num, ip>>

NewDuration(m, d, n) ==
  /\ cls = "Duration" /\ self = <<>> /\ out.op = None
  /\ LET r == Duration_init(m, d, n)
     IN  /\ out' = Call("new", <<m, d, n>>, r)
         /\ self' = IF r.exc = "none" THEN <<r.v>> ELSE <<>>
  /\ UNCHANGED <<cls, num, ip>>

NewBlob(bytes) ==
  /\ cls = "Blob" /\ self = <<>>
  /\ self' = <<Blob_init(bytes)>>
  /\ out' = Call("hex", bytes, Ok(php_driver_bytes_to_hex(self'[1])))
  /\ UNCHANGED <<cls, num, ip>>

\* One token of the text given to Inet's constructor.
ParseToken(tok) ==
  /\ cls = "Inet" /\ ~Finished(ip)
  /\ ip' = ParseStep(ip, tok)
  /\ UNCHANGED <<cls, self, num, out>>

SomeParam == {[kind |-> "other"]} \cup [kind : {"long"}, n : Params]

Next == \/ \E z \in Inputs(cls) : Construct(z)
        \/ \E z \in Operands(cls) : Operand(z)
        \/ \E op \in BinaryOps : BinaryCall(op)
        \/ \E op \in UnaryOps : UnaryCall(op)
        \/ WriteText \/ WriteWire
        \/ \E s \in Seconds, us \in Microseconds : NewTimestamp(s, us)
        \/ TellTime
        \/ \E t \in 0 .. LastNs : self # <<>> /\ DateTime(self[1], t)
        \/ \E m, d, n \in SomeParam : NewDuration(m, d, n)
        \/ \E bytes \in Blobs : NewBlob(bytes)
        \/ \E tok \in NextTokens(ip) : ParseToken(tok)

Spec == Init /\ [][Next]_vars
-----------------------------------------------------------------------------
(***************************************************************************)
(* Properties.                                                             *)
(***************************************************************************)
\* The mathematical result of a method, where it has one.
Exact(op, a, b) ==
  CASE op = "add" -> a + b [] op = "sub" -> a - b [] op = "mul" -> a * b
    [] op = "div" -> Quot(a, b) [] op = "abs" -> Abs(a) [] op = "neg" -> -a
    [] op = "sqrt" -> ISqrt(a) [] op = "toInt" -> a [] op = "compare" -> Sign(a - b)
    [] op = "limits" -> <<IntMin(Width(cls)), IntMax(Width(cls))>>

FixedWidthExact(op, a, b, r) ==
  LET w == Width(cls)
  IN  CASE r.exc = "divide_by_zero" -> b = 0
        [] r.exc = "range"  -> (op = "sqrt" /\ a < 0) \/ ~Fits(w, Exact(op, a, b))
        [] r.exc = "SIGFPE" -> a = IntMin(w) /\ b = -1
        [] OTHER -> \/ r.v = Exact(op, a, b)
                    \/ cls = "Bigint" /\ op = "sqrt" /\ a >= Pow(2, DoubleBits - 1) /\ r.v = Exact(op, a, b) + 1
                    \/ cls = "Bigint" /\ op \in {"add", "sub", "mul", "neg"} /\ (r.v - Exact(op, a, b)) % Pow(2, w) = 0
                    \/ op = "div" /\ a = IntMin(w) /\ b = -1

Unscaled(d, scale) == d.v * Pow(10, scale - d.scale)
DecimalExact(op, a, b, r) ==
  IF op = "mul" THEN r = Decimal(a.v * b.v, a.scale + b.scale)
  ELSE r.v = Exact(op, Unscaled(a, r.scale), Unscaled(b, r.scale))

\* div and mod of one class fit together: a = (a div b) * b + (a mod b).  For
\* Varint this needs a positive divisor, where mpz_div rounds down and mpz_mod
\* is not negative; Bigint's overflow traps in both.
DivModAgree ==
  cls \in Integer /\ self # <<>> /\ num # <<>> =>
    LET a == self[1]
        b == num[1]
    IN  b # 0 /\ (cls = "Varint" => b > 0) /\ ~(a = IntMin(Width(cls)) /\ b = -1) =>
          \A q \in Binary(cls, "div", a, b), m \in Binary(cls, "mod", a, b) :
            a = q.v * b + m.v /\ Abs(m.v) < Abs(b)

\* Is the operand d of op, whose other operand is e, changed by the call?
Rescaled(op, d, e) == op \in {"add", "sub"} /\ d.scale < e.scale /\ d.v # 0

\* The methods of Tinyint and Smallint return the exact result or throw the
\* RangeException of a result outside the width, although they compute first
\* and check the wrapped result afterwards; those of Bigint return it modulo
\* 2^64, except that sqrt, computed in a double, may return one more than the
\* root of a number from 2^52 on (2^60 - 1 gives 2^30).  Decimals of any two
\* scales add, subtract and multiply exactly, but the operand of the smaller
\* scale is another number after add and sub (1.5 is 15.0 once 0.25 has been
\* added to it); no other operand changes.  div fits mod.  The smallest value
\* divided by -1 is excluded: Bigint traps there, the narrow ones return the
\* operand.
ArithmeticExact ==
  LET second == IF Len(out.in) = 2 THEN out.in[2] ELSE 0
  IN  /\ cls \in FixedWidth /\ out.op \in (BinaryOps \ {"mod"}) \cup UnaryOps =>
           FixedWidthExact(out.op, out.in[1], second, out.r)
      /\ cls = "Decimal" /\ out.op \in {"add", "sub", "mul"} =>
           DecimalExact(out.op, out.in[1], second, out.r.v)
      /\ cls = "Decimal" /\ out.op \in BinaryOps =>
           /\ self[1] # out.in[1] <=> Rescaled(out.op, out.in[1], second)
           /\ num[1] # second <=> Rescaled(out.op, second, out.in[1])
      /\ DivModAgree

\* A constructor stores the number it was given or throws, for every long,
\* double and text within 32 bits; wider ones are cut to 32 bits by Smallint
\* and Tinyint before their range is checked, and Bigint takes 2^63 and NaN.
ConstructExact ==
  out.op = "new" /\ cls \in Integer /\ out.r.exc = "none" =>
    LET z == out.in
        n == CASE z.kind = "string" -> IF z.s.neg THEN -z.s.mag ELSE z.s.mag
               [] z.kind = "nan"    -> out.r.v
               [] OTHER             -> z.n
    IN  \/ out.r.v = n
        \/ cls \in Narrow /\ ~Fits(IntBits, n)
        \/ cls = "Bigint" /\ z.kind = "double" /\ n = Pow(2, LongBits - 1)

\* Numbers whose lowest set bit imitates the power of two at the top of a byte.
Imitates(n) == n < 0 /\ LowestBit(-n) = 8 * (BitSize(-n) \div 8) - 1 /\ Pow(2, LowestBit(-n)) # -n

\* Decimals whose text cannot be read: a negative scale fails an assertion; a
\* zero is written "0E-7", which is taken for an octal number; and a dot with
\* an exponent, as in "9.5E-8", is refused.
Unreadable(d) ==
  LET ds == Len(Digits(Abs(d.v), 10))
  IN  d.scale < 0 \/ (ds - d.scale < -5 /\ (d.v = 0 \/ ds > 1))

\* The text, bytes and fields a value is written as give the same value when
\* they are read back, with these exceptions and no other.  Unreadable decimals
\* end in an exception or in abort, never in another number; a duration at the
\* limit of its width cannot be negated; and the negative varints such as -384
\* that export_twos_complement takes for a power of two are sent one byte short,
\* and every one of them comes back as another number.
RoundTrip ==
  /\ out.op = "text" =>
       \/ out.r = Ok(out.in[1]) /\ (cls = "Decimal" => ~Unreadable(out.in[1]))
       \/ cls = "Decimal" /\ Unreadable(out.in[1]) /\ out.r.exc # "none"
       \/ cls = "Duration" /\ \E i \in 1 .. 3 : out.in[1][i] \in {IntMin(IntBits), IntMin(LongBits)}
  /\ out.op = "wire" =>
       (out.r.v # out.in[1] <=> Imitates(IF cls = "Decimal" THEN out.in[1].v ELSE out.in[1]))
  /\ out.op = "fields" => out.r.v = self[1]
  /\ out.op = "clock" =>
       LET t == out.r.v
       IN  CASE cls = "Date" -> Date_init([kind |-> "long", n |-> t.s]) = Ok(self[1])
             [] cls = "Time" -> Time_fromDateTime(t.s) + t.sub = self[1]
             [] cls = "Timestamp" -> Timestamp_toDateTime(self[1]) = t.s /\ t.s * Milli + t.sub = self[1]
             [] OTHER -> Timeuuid_toDateTime(self[1]) = t.s /\ t.s * Milli + t.sub = self[1]
  /\ out.op = "datetime" =>
       out.r.v = <<out.in[1], (out.in[2] \div NsPerSecond) * NsPerSecond>>
  /\ out.op = "hex" =>
       /\ Blob_toBinaryString(self[1]) = out.in
       /\ \A i \in 1 .. Len(self[1]) : out.r.v[2 * i - 1] * 16 + out.r.v[2 * i] = self[1][i]

\* The bytes the token at position i stands for, two for a field and one for
\* a part of a dotted quad, and those of the first n tokens.
TokenBytes(text, i) ==
  LET dotted == (i < Len(text) /\ text[i + 1] = "dot") \/ (i > 1 /\ text[i - 1] = "dot")
  IN  IF text[i] \notin {"hex"} \cup Decimals THEN <<>>
      ELSE IF dotted THEN <<-i>> ELSE <<2 * i, 2 * i + 1>>
BytesTo(text, n) ==
  LET b[i \in 0 .. n] == IF i = 0 THEN <<>> ELSE b[i - 1] \o TokenBytes(text, i)
  IN  b[n]

\* The bytes of the address a text spells, with zeros in the place of "::".
Compression(text) == {i \in 1 .. Len(text) - 1 : text[i] = "colon" /\ text[i + 1] = "colon"}
Spelling(text) ==
  LET bytes  == BytesTo(text, Len(text))
      before == Len(BytesTo(text, CHOOSE i \in Compression(text) : TRUE))
  IN  IF Compression(text) = {} THEN bytes
      ELSE SubSeq(bytes, 1, before) \o Zeros(V6Length - Len(bytes))
             \o SubSeq(bytes, before + 1, Len(bytes))

\* Inet's parser never writes outside the address; what it accepts is stored
\* as it was written; and it accepts every text php_driver_format_address
\* writes.
AddressAsWritten ==
  /\ ip.top < V6Length
  /\ ip.state = "accepted" =>
       [i \in 1 .. ip.len |-> ip.addr[i - 1]] = Spelling(ip.text)
  /\ ip.state = "rejected" =>
       \A n \in {V4Length, V6Length} : ip.text # php_driver_format_address(n) \o <<"end">>
=============================================================================
