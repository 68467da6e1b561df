------------------------------ MODULE Numbers ------------------------------
(***************************************************************************)
(* The numeric value classes (Bigint, Smallint, Tinyint, Varint, Decimal,  *)
(* Float) and the conversions of util/math.c, as operators: one per method *)
(* of a class.  An outcome is the value returned, or the exception thrown; *)
(* "SIGFPE" and "abort" end the process, "undefined" reads memory that is  *)
(* not an object.  Integers keep their width, whatever the width is.       *)
(***************************************************************************)
EXTENDS Positional

CONSTANTS TinyBits, SmallBits,  \* widths of cass_int8_t and cass_int16_t
          IntBits, LongBits,    \* of cass_int32_t, and of cass_int64_t and long
          DoubleBits,           \* significant bits of a double
          MpfBits               \* precision of an mpf_t

ASSUME WidthsAssumption ==
  /\ {TinyBits, SmallBits, IntBits, LongBits, MpfBits} \subseteq Nat \ {0, 1}
  /\ TinyBits < SmallBits /\ SmallBits < IntBits /\ IntBits < LongBits
  /\ DoubleBits \in Nat /\ LongBits <= 2 * DoubleBits

Ok(v)    == [exc |-> "none", v |-> v]
Throw(e) == [exc |-> e, v |-> 0]

IntMin(w) == -Pow(2, w - 1)
IntMax(w) == Pow(2, w - 1) - 1
Fits(w, n) == n \in IntMin(w) .. IntMax(w)

\* The conversion of C to a signed integer of w bits.
Wrap(w, n) == ((n - IntMin(w)) % Pow(2, w)) + IntMin(w)

\* The cast of a double to a signed integer of w bits on amd64.
Truncated(w, n) == IF Fits(w, n) THEN n ELSE IntMin(w)

Abs(n) == IF n < 0 THEN -n ELSE n
Sign(n) == IF n < 0 THEN -1 ELSE IF n = 0 THEN 0 ELSE 1

\* The / and % of C, and mpz_div (which rounds down) and mpz_mod.
Quot(a, b) == Sign(a) * Sign(b) * (Abs(a) \div Abs(b))
Rem(a, b)  == a - b * Quot(a, b)
mpz_div(a, b) == IF b > 0 THEN a \div b ELSE (-a) \div (-b)
mpz_mod(a, b) == a % Abs(b)
ISqrt(n) == CHOOSE r \in 0 .. n : r * r <= n /\ n < (r + 1) * (r + 1)

\* A long as a double: to the nearest number of DoubleBits significant bits,
\* to the even one of two.
ToDouble(n) ==
  LET unit == Pow(2, Places(n, 2) - DoubleBits)
      q    == n \div unit
      rest == 2 * (n % unit)
  IN  IF Places(n, 2) <= DoubleBits THEN n
      ELSE IF rest > unit \/ (rest = unit /\ q % 2 = 1) THEN (q + 1) * unit ELSE q * unit

\* sqrt of the integral double m, cast back: the root is rounded to a double,
\* with so many bits behind the point, before they are cut off.
SqrtToLong(m) ==
  LET unit == Pow(2, DoubleBits - Places(ISqrt(m), 2))
      x    == m * unit * unit
      s    == ISqrt(x)
  IN  (IF x <= s * s + s THEN s ELSE s + 1) \div unit

(***************************************************************************)
(* util/math.c: text to numbers.  A text is the magnitude it spells, its   *)
(* sign, and whether other characters follow.                              *)
(***************************************************************************)
NoDigits == -1   \* the magnitude of a text that has none

\* strtoul: saturates at ULONG_MAX and sets ERANGE.
strtoul(s) == IF s.mag = NoDigits THEN 0
              ELSE IF s.mag >= Pow(2, LongBits) THEN Pow(2, LongBits) - 1 ELSE s.mag

ParseInteger(w, s) ==
  LET temp   == strtoul(s) % Pow(2, w)
      erange == \/ s.mag # NoDigits /\ s.mag >= Pow(2, LongBits)
                \/ temp > IntMax(w) + (IF s.neg THEN 1 ELSE 0)
  IN  IF erange THEN Throw("range")
      ELSE IF s.mag = NoDigits \/ s.junk THEN Throw("invalid")
      ELSE Ok(IF s.neg THEN -temp ELSE temp)

php_driver_parse_int(s)    == ParseInteger(IntBits, s)
php_driver_parse_bigint(s) == ParseInteger(LongBits, s)

php_driver_parse_varint(s) ==
  IF s.mag = NoDigits \/ s.junk THEN Throw("invalid")
  ELSE Ok(IF s.neg THEN -s.mag ELSE s.mag)

(***************************************************************************)
(* The text of a decimal: digits before and after dots, an exponent.       *)
(***************************************************************************)
NoExponent == 1000        \* no "e" in the text
MissingExponent == 1001   \* an "e" and no digits

DecimalText(neg, int, dots, frac, exp) ==
  [neg |-> neg, int |-> int, dots |-> dots, frac |-> frac, exp |-> exp]

\* Behind a dot one byte too many is copied: the "e" of an exponent is taken
\* for a digit, and the text is refused.
php_driver_parse_decimal(t) ==
  LET digits == t.int \o t.frac
      octal  == t.int # <<>> /\ t.int[1] = 0 /\ t.dots = 0
      value  == (IF t.neg THEN -1 ELSE 1) * Spelled(digits, IF octal THEN 8 ELSE 10)
  IN  IF t.dots > 1 THEN Throw("invalid")
      ELSE IF octal
           THEN IF t.exp # NoExponent \/ \E i \in 1 .. Len(t.int) : t.int[i] > 7
                THEN Throw("invalid") ELSE Ok([v |-> value, scale |-> 0])
      ELSE IF digits = <<>> \/ t.exp = MissingExponent THEN Throw("invalid")
      ELSE IF t.dots = 1 /\ t.exp # NoExponent THEN Throw("invalid")
      ELSE Ok([v |-> value,
               scale |-> Len(t.frac) - (IF t.exp = NoExponent THEN 0 ELSE t.exp)])

Zeros(n) == [i \in 1 .. n |-> 0]

php_driver_format_decimal_Unpadded(v, scale) ==
  LET ds    == Digits(Abs(v), 10)
      point == Len(ds) - scale
  IN  IF scale < 0 THEN Throw("abort")
      ELSE IF point <= 0 THEN Ok(DecimalText(v < 0, <<0>>, 1, ds, NoExponent))
      ELSE Ok(DecimalText(v < 0, SubSeq(ds, 1, point), 1, SubSeq(ds, point + 1, Len(ds)), NoExponent))

\* Plain below seven leading places, scientific from there; a negative scale
\* fails the assertion.
php_driver_format_decimal(v, scale) ==
  LET ds    == Digits(Abs(v), 10)
      point == Len(ds) - scale
  IN  IF scale = 0 THEN Ok(DecimalText(v < 0, ds, 0, <<>>, NoExponent))
      ELSE IF scale < 0 THEN Throw("abort")
      ELSE IF point - 1 >= -6
           THEN IF point <= 0
                THEN Ok(DecimalText(v < 0, <<0>>, 1, Zeros(-point) \o ds, NoExponent))
                ELSE Ok(DecimalText(v < 0, SubSeq(ds, 1, point), 1,
                                    SubSeq(ds, point + 1, Len(ds)), NoExponent))
      ELSE IF Len(ds) = 1 THEN Ok(DecimalText(v < 0, ds, 0, <<>>, point - 1))
      ELSE Ok(DecimalText(v < 0, <<ds[1]>>, 1, Tail(ds), point - 1))

php_driver_format_integer(v) == DecimalText(v < 0, Digits(Abs(v), 10), 0, <<>>, NoExponent)

(***************************************************************************)
(* Varints on the wire: two's complement, most significant byte first.     *)
(***************************************************************************)
Bytes(n) == Digits(n, 256)

import_twos_complement(data) ==
  Spelled(data, 256) - (IF data[1] >= 128 THEN Pow(256, Len(data)) ELSE 0)

\* mpz_sizeinbase(n, 2), and mpz_scan1(n, 0): the position of the lowest bit set.
BitSize(n)   == Places(n, 2)
LowestBit(n) == Twos(n)

export_twos_complement(n) ==
  IF n = 0 THEN <<0>>
  ELSE IF n > 0 THEN <<0>> \o Bytes(n)
  ELSE LET size == BitSize(-n) \div 8 + 1
           used == IF LowestBit(-n) = 8 * (size - 1) - 1 THEN size - 1 ELSE size
       IN  Bytes(Abs(n + Pow(256, used)))   \* mpz_export takes the absolute value

(***************************************************************************)
(* Bigint: 64 bits, wrapping; the smallest value divided by -1 traps.      *)
(* A PHP value z is a long, a double (its integral part; NaN is a kind of  *)
(* its own), a string, an object of the class, or something else.          *)
(***************************************************************************)
Bigint_init_Unchecked(z) ==
  CASE z.kind \in {"long", "same"} -> Ok(z.n)
    [] z.kind = "double" -> Ok(Truncated(LongBits, z.n))
    [] z.kind = "string" -> php_driver_parse_bigint(z.s)
    [] OTHER -> Throw("invalid")
Bigint_init(z) ==
  CASE z.kind = "long"   -> Ok(z.n)
    [] z.kind = "nan"    -> Ok(IntMin(LongBits))
    \* INT64_MAX as a double is 2^63, and the comparison is strict
    [] z.kind = "double" -> IF Abs(z.n) > Pow(2, LongBits - 1) THEN Throw("range")
                            ELSE Ok(Truncated(LongBits, z.n))
    [] z.kind = "string" -> php_driver_parse_bigint(z.s)
    [] z.kind = "same"   -> Ok(z.n)
    [] OTHER             -> Throw("invalid")

Trap(w, a, b, r) == IF a = IntMin(w) /\ b = -1 THEN Throw("SIGFPE") ELSE Ok(r)

Bigint_add(a, b) == Ok(Wrap(LongBits, a + b))
Bigint_sub(a, b) == Ok(Wrap(LongBits, a - b))
Bigint_mul(a, b) == Ok(Wrap(LongBits, a * b))
Bigint_div(a, b) == IF b = 0 THEN Throw("divide_by_zero") ELSE Trap(LongBits, a, b, Quot(a, b))
Bigint_mod(a, b) == IF b = 0 THEN Throw("divide_by_zero") ELSE Trap(LongBits, a, b, Rem(a, b))
Bigint_abs(a)    == IF a = IntMin(LongBits) THEN Throw("range") ELSE Ok(Abs(a))
Bigint_neg(a)    == Ok(Wrap(LongBits, -a))
Bigint_sqrt(a)   == IF a < 0 THEN Throw("range") ELSE Ok(SqrtToLong(ToDouble(a)))
Bigint_to_long(a) == IF Fits(LongBits, a) THEN Ok(a) ELSE Throw("range")
Bigint_min       == IntMin(LongBits)
Bigint_max       == IntMax(LongBits)
Bigint_compare(a, b) == Sign(a - b)

(***************************************************************************)
(* Smallint and Tinyint: computed in int, stored in w bits, checked after. *)
(***************************************************************************)
NarrowInit(w, z) ==
  LET InRange(n) == IF Fits(w, n) THEN Ok(n) ELSE Throw("range")
  IN  CASE z.kind = "same"   -> Ok(z.n)
        [] z.kind = "long"   -> InRange(Wrap(IntBits, z.n))
        [] z.kind = "double" -> InRange(Truncated(IntBits, z.n))
        [] z.kind = "nan"    -> InRange(IntMin(IntBits))
        [] z.kind = "string" -> LET r == php_driver_parse_int(z.s)
                                IN  IF r.exc = "none" THEN InRange(r.v) ELSE r
        [] OTHER             -> Throw("invalid")

Checked(r, ok) == IF ok THEN Ok(r) ELSE Throw("range")
NarrowAdd(w, a, b) == LET r == Wrap(w, a + b) IN Checked(r, r - b = a)
NarrowSub(w, a, b) == LET r == Wrap(w, a - b) IN Checked(r, r + b = a)
NarrowMul_Unchecked(w, a, b) == LET r == Wrap(w, a * b) IN Checked(r, Fits(w, r))
NarrowMul(w, a, b) == LET r == Wrap(w, a * b) IN Checked(r, b = 0 \/ Quot(r, b) = a)
NarrowDiv(w, a, b) == IF b = 0 THEN Throw("divide_by_zero") ELSE Ok(Wrap(w, Quot(a, b)))
NarrowMod(w, a, b) == IF b = 0 THEN Throw("divide_by_zero") ELSE Ok(Wrap(w, Rem(a, b)))

Smallint_init(z)   == NarrowInit(SmallBits, z)
Smallint_add(a, b) == NarrowAdd(SmallBits, a, b)
Smallint_sub(a, b) == NarrowSub(SmallBits, a, b)
Smallint_mul(a, b) == NarrowMul(SmallBits, a, b)
Smallint_div(a, b) == NarrowDiv(SmallBits, a, b)
Smallint_mod(a, b) == NarrowMod(SmallBits, a, b)
Smallint_abs(a)    == IF a = IntMin(SmallBits) THEN Throw("range") ELSE Ok(Abs(a))
Smallint_neg(a)    == IF a = IntMin(SmallBits) THEN Throw("range") ELSE Ok(-a)
Smallint_sqrt(a)   == IF a < 0 THEN Throw("range") ELSE Ok(ISqrt(a))
Smallint_min       == IntMin(SmallBits)
Smallint_max       == IntMax(SmallBits)
Smallint_compare(a, b) == Sign(a - b)

Tinyint_init(z)   == NarrowInit(TinyBits, z)
Tinyint_add(a, b) == NarrowAdd(TinyBits, a, b)
Tinyint_sub(a, b) == NarrowSub(TinyBits, a, b)
Tinyint_mul(a, b) == NarrowMul(TinyBits, a, b)
Tinyint_div(a, b) == NarrowDiv(TinyBits, a, b)
Tinyint_mod(a, b) == NarrowMod(TinyBits, a, b)
Tinyint_abs(a)    == IF a = IntMin(TinyBits) THEN Throw("range") ELSE Ok(Abs(a))
Tinyint_neg(a)    == IF a = IntMin(TinyBits) THEN Throw("range") ELSE Ok(-a)
Tinyint_sqrt(a)   == IF a < 0 THEN Throw("range") ELSE Ok(ISqrt(a))
Tinyint_min       == IntMin(TinyBits)
Tinyint_max       == IntMax(TinyBits)
Tinyint_compare(a, b) == Sign(a - b)

(***************************************************************************)
(* Varint: unbounded; a NaN or an infinity given to mpz_set_d traps.       *)
(***************************************************************************)
Varint_init(z) ==
  CASE z.kind \in {"long", "double", "same"} -> Ok(z.n)
    [] z.kind = "nan"    -> Throw("SIGFPE")
    [] z.kind = "string" -> php_driver_parse_varint(z.s)
    [] OTHER             -> Throw("invalid")

Varint_add(a, b) == Ok(a + b)
Varint_sub(a, b) == Ok(a - b)
Varint_mul(a, b) == Ok(a * b)
Varint_div(a, b) == IF b = 0 THEN Throw("divide_by_zero") ELSE Ok(mpz_div(a, b))
Varint_mod(a, b) == IF b = 0 THEN Throw("divide_by_zero") ELSE Ok(mpz_mod(a, b))
Varint_abs(a)    == Ok(Abs(a))
Varint_neg(a)    == Ok(-a)
Varint_sqrt(a)   == IF a < 0 THEN Throw("range") ELSE Ok(ISqrt(a))
Varint_to_long(a) == IF Fits(LongBits, a) THEN Ok(a) ELSE Throw("range")

(***************************************************************************)
(* Decimal: an unscaled integer and a scale.  A double is m / 2^k.         *)
(***************************************************************************)
Decimal(v, scale) == [v |-> v, scale |-> scale]

\* How often the fraction m / 2^k can be halved, and what is left.
Halvings(m, k) == CHOOSE h \in 0 .. k : /\ h = k \/ (m \div Pow(2, h)) % 2 # 0
                                       /\ \A i \in 0 .. h - 1 : (m \div Pow(2, i)) % 2 = 0
from_double(m, k) ==
  LET h == Halvings(m, k) IN Decimal((m \div Pow(2, h)) * Pow(5, k - h), k - h)

Decimal_init(z) ==
  CASE z.kind = "long"     -> Ok(Decimal(z.n, 0))
    [] z.kind = "nan"      -> Throw("invalid")
    [] z.kind = "double"   -> Ok(from_double(z.n, 0))
    [] z.kind = "fraction" -> Ok(from_double(z.m, z.k))
    [] z.kind = "text"     -> php_driver_parse_decimal(z.t)
    [] z.kind = "same"     -> Ok(z.d)
    [] OTHER               -> Throw("invalid")

\* Brings two decimals to one scale by changing the operands themselves: the
\* unscaled value is multiplied, the scale kept.
align_decimals(x, y) ==
  [x |-> IF x.scale < y.scale THEN [x EXCEPT !.v = @ * Pow(10, y.scale - x.scale)] ELSE x,
   y |-> IF y.scale < x.scale THEN [y EXCEPT !.v = @ * Pow(10, x.scale - y.scale)] ELSE y]

Larger(a, b) == IF a > b THEN a ELSE b
Decimal_add(x, y) == LET p == align_decimals(x, y)
                     IN  Ok(Decimal(p.x.v + p.y.v, Larger(x.scale, y.scale)))
Decimal_sub(x, y) == LET p == align_decimals(x, y)
                     IN  Ok(Decimal(p.x.v - p.y.v, Larger(x.scale, y.scale)))
Decimal_mul(x, y) == Ok(Decimal(x.v * y.v, x.scale + y.scale))
Decimal_div(x, y) == Throw("runtime")
Decimal_mod(x, y) == Throw("runtime")
Decimal_abs(x)    == Ok(Decimal(Abs(x.v), x.scale))
Decimal_neg(x)    == Ok(Decimal(-x.v, x.scale))
Decimal_sqrt(x)   == Throw("runtime")

\* x as MpfBits of fraction: 1 / 10^scale is cut off before it is multiplied.
to_mpf(x) == IF x.scale > 0 THEN x.v * (Pow(2, MpfBits) \div Pow(10, x.scale))
                            ELSE x.v * Pow(10, -x.scale) * Pow(2, MpfBits)
Decimal_to_long(x) == LET n == Quot(to_mpf(x), Pow(2, MpfBits))
                      IN  IF Fits(LongBits, n) THEN Ok(n) ELSE Throw("range")
Decimal_to_string(x) == php_driver_format_decimal(x.v, x.scale)

(***************************************************************************)
(* Float: which of zero, finite, infinite and NaN a result may be, with    *)
(* its sign; rounding, overflow and underflow are a choice.                *)
(***************************************************************************)
NaN == [s |-> 1, m |-> "nan"]
Signed(s, ms) == {[s |-> s, m |-> m] : m \in ms}
FloatValues == Signed(1, {"zero", "fin", "inf", "nan"}) \cup Signed(-1, {"zero", "fin", "inf"})
EitherIs(a, b, m) == a.m = m \/ b.m = m
Some(S) == {Ok(f) : f \in S}

Float_init(z) ==
  CASE z.kind = "long"   -> Some(Signed(IF z.n < 0 THEN -1 ELSE 1, {IF z.n = 0 THEN "zero" ELSE "fin"}))
    [] z.kind = "double" -> Some(Signed(IF z.n < 0 THEN -1 ELSE 1,
                                   {IF z.n = 0 THEN "zero" ELSE "fin", "inf"}))
    [] z.kind = "nan"    -> {Ok(NaN)}
    [] z.kind = "string" -> IF z.s.mag = NoDigits \/ z.s.junk THEN {Throw("invalid")}
                            ELSE {Throw("range")} \cup Some(Signed(IF z.s.neg THEN -1 ELSE 1,
                                   {IF z.s.mag = 0 THEN "zero" ELSE "fin"}))
    \* copies from return_value, which a constructor call leaves without object
    [] z.kind = "same"   -> {Throw("undefined")}
    [] OTHER             -> {Throw("invalid")}

Float_add(a, b) ==
  Some(IF EitherIs(a, b, "nan") \/ (a.m = "inf" /\ b.m = "inf" /\ a.s # b.s) THEN {NaN}
       ELSE IF a.m = "inf" THEN {a} ELSE IF b.m = "inf" THEN {b}
       ELSE IF a.m = "zero" /\ b.m = "zero" THEN Signed(IF a.s = b.s THEN a.s ELSE 1, {"zero"})
       ELSE IF a.s = b.s THEN Signed(a.s, {"fin", "inf"})
       ELSE FloatValues \ {f \in FloatValues : f.m \in {"nan", "inf"}})
Float_neg(a)    == {Ok(IF a.m = "nan" THEN a ELSE [a EXCEPT !.s = -@])}
Float_sub(a, b) == Float_add(a, (CHOOSE r \in Float_neg(b) : TRUE).v)
Float_mul(a, b) ==
  Some(IF EitherIs(a, b, "nan") \/ (EitherIs(a, b, "zero") /\ EitherIs(a, b, "inf")) THEN {NaN}
       ELSE Signed(a.s * b.s, IF EitherIs(a, b, "inf") THEN {"inf"}
                              ELSE IF EitherIs(a, b, "zero") THEN {"zero"} ELSE {"zero", "fin", "inf"}))
Float_div(a, b) ==
  IF b.m = "zero" THEN {Throw("divide_by_zero")}
  ELSE Some(IF EitherIs(a, b, "nan") \/ (a.m = "inf" /\ b.m = "inf") THEN {NaN}
            ELSE Signed(a.s * b.s, IF a.m = "inf" THEN {"inf"}
                                   ELSE IF a.m = "zero" \/ b.m = "inf" THEN {"zero"}
                                   ELSE {"zero", "fin", "inf"}))
Float_mod(a, b) ==
  IF b.m = "zero" THEN {Throw("divide_by_zero")}
  ELSE Some(IF EitherIs(a, b, "nan") \/ a.m = "inf" THEN {NaN}
            ELSE Signed(a.s, IF a.m = "zero" \/ b.m = "inf" THEN {a.m} ELSE {"zero", "fin"}))
Float_abs(a)  == {Ok([a EXCEPT !.s = 1])}
Float_sqrt(a) == {IF a.s = -1 /\ a.m # "zero" THEN Throw("range") ELSE Ok(a)}
Float_toInt(a) == IF a.m \in {"inf", "nan"} THEN Throw("undefined") ELSE Ok(0)
Float_isNaN(a) == a.m = "nan"
Float_isInfinite(a) == a.m = "inf"
Float_isFinite(a) == a.m \notin {"inf", "nan"}
=============================================================================
