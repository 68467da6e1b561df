SPECIFICATION Spec
CONSTANTS
  TinyBits = 2
  SmallBits = 3
  IntBits = 4
  LongBits = 5
  DoubleBits = 3
  MpfBits = 20
  V6Length = 8
  V4Length = 4
  Milli = 3
  DaySeconds = 4
  NsPerSecond = 2
  Classes <- MCClasses
  VarintMags <- MCVarintMags
  IntParts <- MCIntParts
  FracParts <- MCFracParts
  Exponents <- MCExponents
  Fractions <- MCFractions
  Seconds <- MCSeconds
  Microseconds <- MCMicroseconds
  Params <- MCParams
  Blobs <- MCBlobs
INVARIANTS
  ArithmeticExact ConstructExact RoundTrip AddressAsWritten
CHECK_DEADLOCK FALSE
