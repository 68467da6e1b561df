----------------------------- MODULE Positional -----------------------------
(***************************************************************************)
(* Numbers written in a base: what strtoul, the mpz functions of GMP and   *)
(* the printing of a number agree on.  Powers and the number a sequence of *)
(* digits spells are recursive functions, the rest is explicit, so that    *)
(* the value classes built on them can be proved about.                    *)
(***************************************************************************)
EXTENDS Integers, Sequences

Pow(b, n) == LET p[i \in 0 .. n] == IF i = 0 THEN 1 ELSE b * p[i - 1] IN p[n]

\* The number a sequence of digits spells, the most significant one first.
Spelled(ds, base) ==
  LET s[i \in 0 .. Len(ds)] == IF i = 0 THEN 0 ELSE s[i - 1] * base + ds[i]
  IN  s[Len(ds)]

\* How many digits n has (mpz_sizeinbase), and the digits.
Places(n, base) == CHOOSE k \in 1 .. n + 1 : n < Pow(base, k) /\ (k = 1 \/ Pow(base, k - 1) <= n)
Digits(n, base) ==
  LET len == Places(n, base)
  IN  [i \in 1 .. len |-> (n \div Pow(base, len - i)) % base]

\* How often two divides n.
Twos(n) == CHOOSE k \in 0 .. n : n % Pow(2, k) = 0 /\ n % Pow(2, k + 1) # 0
=============================================================================
