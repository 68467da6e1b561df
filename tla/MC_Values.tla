----------------------------- MODULE MC_Values -----------------------------
EXTENDS Values
MCClasses == Numeric \cup {"Date", "Time", "Timestamp", "Duration", "Uuid", "Timeuuid", "Blob", "Inet"}
MCVarintMags == {127, 128, 129, 255, 256, 384, 640, 32767, 32768, 32769}
MCIntParts == {<<>>, <<0>>, <<0, 9>>, <<7>>, <<1, 2>>}
MCFracParts == {<<>>, <<5>>}
MCExponents == {-8, -7, 2}
MCFractions == [m : {-3, 1, 6}, k : 1 .. 3]
MCSeconds == -7 .. 7
MCMicroseconds == {0, 1, Milli, 3 * Milli - 1}
MCParams == {IntMin(IntBits) - 1, IntMin(IntBits), -1, 0, 2, IntMax(IntBits) + 1}
MCBlobs == UNION {[1 .. n -> {0, 9, 16, 255}] : n \in 0 .. 2}
=============================================================================
