---------------------------- MODULE Values_proofs ----------------------------
(***************************************************************************)
(* What the value classes compute, for any widths of the integer types,    *)
(* any lengths of addresses and units of time, and any values: arithmetic  *)
(* and constructors are exact, and what is written is read back.           *)
(***************************************************************************)
EXTENDS Values, SequenceTheorems, WellFoundedInduction, TLAPS

-----------------------------------------------------------------------------
(* Induction over the natural numbers, for sets instead of predicates.     *)

LEMMA FirstIn ==
  ASSUME NEW S \in SUBSET Nat, S # {}
  PROVE  \E i \in S : \A j \in S : i <= j
<1> DEFINE R == {ss \in Nat \X Nat : ss[1] < ss[2]}
<1>1. PICK m \in S : \A k \in S : ~(<<k, m>> \in R)
  <2>1. IsWellFoundedOn(R, Nat)
    BY NatLessThanWellFounded DEF OpToRel
  <2> HIDE DEF R
  <2> QED
    BY <2>1, WFMin
<1>2. ASSUME NEW k \in S PROVE m <= k
  <2>1. <<k, m>> \in Nat \X Nat /\ <<k, m>>[1] = k /\ <<k, m>>[2] = m
    OBVIOUS
  <2>2. k < m => <<k, m>> \in R
    BY <2>1
  <2> QED
    BY <1>1, <2>2
<1> QED
  BY <1>2

(* A set with 0 and the successor of each of its elements is Nat.          *)
LEMMA AllNat ==
  ASSUME NEW S \in SUBSET Nat, 0 \in S, \A n \in S : n + 1 \in S
  PROVE  \A n \in Nat : n \in S
<1> SUFFICES ASSUME Nat \ S # {} PROVE FALSE
  OBVIOUS
<1>1. PICK m \in Nat \ S : \A k \in Nat \ S : m <= k
  BY FirstIn
<1>2. m - 1 \in Nat
  BY <1>1
<1>3. m - 1 \in S
  BY <1>1, <1>2
<1> QED
  BY <1>1, <1>3

-----------------------------------------------------------------------------
(* Powers.                                                                 *)

PowLoop(b, n, p) == p = [i \in 0 .. n |-> IF i = 0 THEN 1 ELSE b * p[i - 1]]

LEMMA PowLoopExists ==
  ASSUME NEW b \in Int
  PROVE  \A n \in Nat : \E p : PowLoop(b, n, p) /\ p \in [0 .. n -> Int]
<1> DEFINE S == {n \in Nat : \E p : PowLoop(b, n, p) /\ p \in [0 .. n -> Int]}
<1>1. 0 \in S
  <2>1. PICK p : p = [i \in 0 .. 0 |-> 1]
    OBVIOUS
  <2>2. PowLoop(b, 0, p) /\ p \in [0 .. 0 -> Int]
    BY <2>1 DEF PowLoop
  <2> QED
    BY <2>2
<1>2. ASSUME NEW n \in S PROVE n + 1 \in S
  <2>1. PICK p : PowLoop(b, n, p) /\ p \in [0 .. n -> Int]
    OBVIOUS
  <2>2. PICK q : q = [i \in 0 .. n + 1 |-> IF i = n + 1 THEN b * p[n] ELSE p[i]]
    OBVIOUS
  <2>3. q \in [0 .. n + 1 -> Int]
    BY <2>1, <2>2
  <2>4. \A i \in 0 .. n : q[i] = p[i]
    BY <2>2
  <2>5. \A i \in 0 .. n + 1 : q[i] = IF i = 0 THEN 1 ELSE b * q[i - 1]
    BY <2>1, <2>2, <2>4 DEF PowLoop
  <2>6. PowLoop(b, n + 1, q)
    BY <2>3, <2>5 DEF PowLoop
  <2> QED
    BY <2>3, <2>6
<1> HIDE DEF S
<1>3. S \in SUBSET Nat
  BY DEF S
<1>4. \A n \in Nat : n \in S
  BY <1>1, <1>2, <1>3, AllNat
<1> QED
  BY <1>4 DEF S

(* Two such loops agree as far as both go.                                 *)
LEMMA PowLoopUnique ==
  ASSUME NEW b \in Int, NEW n \in Nat, NEW m \in Nat, NEW p, NEW q,
         PowLoop(b, n, p), PowLoop(b, m, q), n <= m
  PROVE  \A i \in 0 .. n : p[i] = q[i]
<1> DEFINE S == {i \in Nat : i > n \/ p[i] = q[i]}
<1>1. 0 \in S
  BY DEF PowLoop
<1>2. ASSUME NEW i \in S PROVE i + 1 \in S
  BY DEF PowLoop
<1> HIDE DEF S
<1>3. S \in SUBSET Nat
  BY DEF S
<1>4. \A i \in Nat : i \in S
  BY <1>1, <1>2, <1>3, AllNat
<1> QED
  BY <1>4 DEF S

(* The recursive function Pow is what it says.                             *)
LEMMA PowIs ==
  ASSUME NEW b \in Int, NEW n \in Nat
  PROVE  \E p : PowLoop(b, n, p) /\ p \in [0 .. n -> Int] /\ Pow(b, n) = p[n]
<1>1. PICK p : PowLoop(b, n, p) /\ p \in [0 .. n -> Int]
  BY PowLoopExists
<1>2. PICK q : q = CHOOSE r : PowLoop(b, n, r)
  OBVIOUS
<1>3. PowLoop(b, n, q)
  BY <1>1, <1>2
<1>4. Pow(b, n) = q[n]
  BY <1>2 DEF Pow, PowLoop
<1>5. \A i \in 0 .. n : q[i] = p[i]
  BY <1>1, <1>3, PowLoopUnique
<1>6. q = p
  BY <1>1, <1>3, <1>5 DEF PowLoop
<1> QED
  BY <1>1, <1>4, <1>6

LEMMA PowInt == \A b \in Int : \A n \in Nat : Pow(b, n) \in Int
BY PowIs

LEMMA PowZero == \A b \in Int : Pow(b, 0) = 1
<1> SUFFICES ASSUME NEW b \in Int PROVE Pow(b, 0) = 1
  OBVIOUS
<1>1. PICK p : PowLoop(b, 0, p) /\ Pow(b, 0) = p[0]
  BY PowIs
<1> QED
  BY <1>1 DEF PowLoop

LEMMA PowNext ==
  ASSUME NEW b \in Int, NEW n \in Nat
  PROVE  Pow(b, n + 1) = b * Pow(b, n)
<1>1. PICK p : PowLoop(b, n, p) /\ Pow(b, n) = p[n]
  BY PowIs
<1>2. PICK q : PowLoop(b, n + 1, q) /\ Pow(b, n + 1) = q[n + 1]
  <2>1. n + 1 \in Nat
    OBVIOUS
  <2> QED
    BY <2>1, PowIs
<1>3. q[n] = p[n]
  BY <1>1, <1>2, PowLoopUnique
<1>4. q[n + 1] = b * q[n]
  BY <1>2 DEF PowLoop
<1> QED
  BY <1>1, <1>2, <1>3, <1>4

LEMMA PowPos ==
  ASSUME NEW b \in Nat, b > 0
  PROVE  \A n \in Nat : Pow(b, n) \in Nat /\ Pow(b, n) > 0
<1> DEFINE S == {n \in Nat : Pow(b, n) \in Nat /\ Pow(b, n) > 0}
<1>1. 0 \in S
  BY PowZero
<1>2. ASSUME NEW n \in S PROVE n + 1 \in S
  <2>1. Pow(b, n + 1) = b * Pow(b, n)
    BY PowNext
  <2>2. PICK p \in Nat : p = Pow(b, n) /\ p > 0
    OBVIOUS
  <2>3. b * p \in Nat /\ b * p > 0
    BY <2>2
  <2> QED
    BY <2>1, <2>2, <2>3
<1> HIDE DEF S
<1>3. S \in SUBSET Nat
  BY DEF S
<1>4. \A n \in Nat : n \in S
  BY <1>1, <1>2, <1>3, AllNat
<1> QED
  BY <1>4 DEF S

LEMMA PowTwo == \A n \in Nat : Pow(2, n) \in Nat /\ Pow(2, n) > 0
<1>1. 2 \in Nat /\ 2 > 0
  OBVIOUS
<1> QED
  BY <1>1, PowPos

(* A power of a base from two is larger than its exponent.                 *)
LEMMA PowExceeds ==
  ASSUME NEW b \in Nat, b > 1
  PROVE  \A n \in Nat : Pow(b, n) > n
<1> DEFINE S == {n \in Nat : Pow(b, n) > n}
<1>1. 0 \in S
  BY PowZero
<1>2. ASSUME NEW n \in S PROVE n + 1 \in S
  <2>1. Pow(b, n + 1) = b * Pow(b, n)
    BY PowNext
  <2>2. PICK p \in Nat : p = Pow(b, n) /\ p > n
    BY PowPos
  <2>3. b * p >= 2 * p
    BY <2>2
  <2>4. 2 * p > n + 1 /\ b * p \in Int
    BY <2>2
  <2> QED
    BY <2>1, <2>2, <2>3, <2>4
<1> HIDE DEF S
<1>3. S \in SUBSET Nat
  BY DEF S
<1>4. \A n \in Nat : n \in S
  BY <1>1, <1>2, <1>3, AllNat
<1> QED
  BY <1>4 DEF S

LEMMA PowAdd ==
  ASSUME NEW b \in Int, NEW m \in Nat
  PROVE  \A n \in Nat : Pow(b, m + n) = Pow(b, m) * Pow(b, n)
<1> DEFINE S == {n \in Nat : Pow(b, m + n) = Pow(b, m) * Pow(b, n)}
<1>0. PICK c \in Int : c = Pow(b, m)
  BY PowInt
<1>1. 0 \in S
  BY <1>0, PowZero
<1>2. ASSUME NEW n \in S PROVE n + 1 \in S
  <2>1. Pow(b, n + 1) = b * Pow(b, n)
    BY PowNext
  <2>2. Pow(b, m + n + 1) = b * Pow(b, m + n)
    <3>1. m + n \in Nat
      OBVIOUS
    <3> QED
      BY <3>1, PowNext
  <2>3. PICK d \in Int : d = Pow(b, n)
    BY PowInt
  <2>4. b * (c * d) = c * (b * d)
    OBVIOUS
  <2>5. m + (n + 1) = m + n + 1
    OBVIOUS
  <2> QED
    BY <1>0, <2>1, <2>2, <2>3, <2>4, <2>5
<1> HIDE DEF S
<1>3. S \in SUBSET Nat
  BY DEF S
<1>4. \A n \in Nat : n \in S
  BY <1>1, <1>2, <1>3, AllNat
<1> QED
  BY <1>4 DEF S

LEMMA PowMonotone ==
  ASSUME NEW b \in Nat, b > 0, NEW m \in Nat, NEW n \in Nat, m <= n
  PROVE  Pow(b, m) <= Pow(b, n)
<1>1. n - m \in Nat /\ m + (n - m) = n
  OBVIOUS
<1>2. Pow(b, n) = Pow(b, m) * Pow(b, n - m)
  BY <1>1, PowAdd
<1>3. PICK c \in Nat, d \in Nat : c = Pow(b, m) /\ d = Pow(b, n - m) /\ c > 0 /\ d > 0
  BY <1>1, PowPos
<1>4. c <= c * d
  BY <1>3
<1> QED
  BY <1>2, <1>3, <1>4

(* A byte is eight bits.                                                   *)
LEMMA PowBytes == \A n \in Nat : Pow(256, n) = Pow(2, 8 * n)
<1> DEFINE S == {n \in Nat : Pow(256, n) = Pow(2, 8 * n)}
<1>0. Pow(2, 8) = 256
  <2>1. Pow(2, 1) = 2
    <3>1. Pow(2, 0 + 1) = 2 * Pow(2, 0)
      BY PowNext
    <3> QED
      BY <3>1, PowZero
  <2>2. Pow(2, 1 + 1) = 4
    BY <2>1, PowNext
  <2>3. Pow(2, 2 + 2) = 16
    BY <2>2, PowAdd
  <2>4. Pow(2, 4 + 4) = 256
    BY <2>3, PowAdd
  <2> QED
    BY <2>4
<1>1. 0 \in S
  BY PowZero
<1>2. ASSUME NEW n \in S PROVE n + 1 \in S
  <2>1. Pow(256, n + 1) = 256 * Pow(256, n)
    BY PowNext
  <2>2. 8 * n \in Nat /\ 8 * n + 8 = 8 * (n + 1)
    OBVIOUS
  <2>3. Pow(2, 8 * n + 8) = Pow(2, 8 * n) * Pow(2, 8)
    BY <2>2, PowAdd
  <2>4. Pow(2, 8 * n) \in Int
    BY <2>2, PowInt
  <2> QED
    BY <1>0, <2>1, <2>2, <2>3, <2>4
<1> HIDE DEF S
<1>3. S \in SUBSET Nat
  BY DEF S
<1>4. \A n \in Nat : n \in S
  BY <1>1, <1>2, <1>3, AllNat
<1> QED
  BY <1>4 DEF S

-----------------------------------------------------------------------------
(* Division.                                                               *)

LEMMA DivMod ==
  ASSUME NEW a \in Int, NEW m \in Nat, m > 0
  PROVE  /\ a \div m \in Int /\ a % m \in 0 .. m - 1
         /\ a = m * (a \div m) + (a % m)
<1>1. a \div m \in Int /\ a % m \in Int
  OBVIOUS
<1>2. a % m >= 0
  OBVIOUS
<1>3. a % m < m
  OBVIOUS
<1>4. a = m * (a \div m) + (a % m)
  OBVIOUS
<1> QED
  BY <1>1, <1>2, <1>3, <1>4

LEMMA DivParts ==
  ASSUME NEW a \in Int, NEW m \in Nat, m > 0
  PROVE  \E q \in Int, e \in 0 .. m - 1 : q = a \div m /\ a = m * q + e
BY DivMod

(* A multiple of m that is within m of 0 is 0.                             *)
LEMMA SmallMultiple ==
  ASSUME NEW m \in Nat, m > 0, NEW k \in Int, -m < m * k, m * k < m
  PROVE  k = 0
<1>1. k >= 1 => m * k >= m
  OBVIOUS
<1>2. k <= -1 => m * k <= -m
  OBVIOUS
<1>3. m * k \in Int
  OBVIOUS
<1> QED
  BY <1>1, <1>2, <1>3

(* The quotient and the remainder are determined.                          *)
LEMMA DivModUnique ==
  ASSUME NEW m \in Nat, m > 0, NEW q \in Int, NEW r \in 0 .. m - 1
  PROVE  (m * q + r) \div m = q /\ (m * q + r) % m = r
<1>1. PICK a \in Int : a = m * q + r
  OBVIOUS
<1>2. PICK d \in Int, e \in 0 .. m - 1 : d = a \div m /\ e = a % m /\ a = m * d + e
  BY DivMod
<1>3. m * (d - q) = r - e
  <2>1. m * (d - q) = m * d - m * q
    OBVIOUS
  <2>2. m * d \in Int /\ m * q \in Int
    OBVIOUS
  <2> QED
    BY <1>1, <1>2, <2>1, <2>2
<1>4. d - q = 0
  <2>1. d - q \in Int /\ -m < r - e /\ r - e < m
    OBVIOUS
  <2> QED
    BY <1>3, <2>1, SmallMultiple
<1>5. d = q
  BY <1>4
<1>6. e = r
  BY <1>1, <1>2, <1>5
<1> QED
  BY <1>1, <1>2, <1>5, <1>6

(* Dividing twice is dividing by the product.                              *)
LEMMA DivDiv ==
  ASSUME NEW a \in Int, NEW m \in Nat, m > 0, NEW b \in Nat, b > 0
  PROVE  (a \div m) \div b = a \div (b * m)
<1>1. PICK d \in Int, e \in 0 .. m - 1 : d = a \div m /\ a = m * d + e
  BY DivMod
<1>2. PICK f \in Int, g \in 0 .. b - 1 : f = d \div b /\ d = b * f + g
  BY DivMod
<1>3. PICK n \in Nat : n = b * m /\ n > 0
  OBVIOUS
<1>4. m * g + e \in 0 .. n - 1
  <2>1. m * g + e \in Nat
    OBVIOUS
  <2>2. m * g <= m * (b - 1)
    OBVIOUS
  <2>3. m * (b - 1) = n - m
    BY <1>3
  <2> QED
    BY <2>1, <2>2, <2>3
<1>5. a = n * f + (m * g + e)
  <2>1. m * (b * f + g) = (b * m) * f + m * g
    OBVIOUS
  <2>2. m * d = n * f + m * g
    BY <1>2, <1>3, <2>1
  <2>3. m * d \in Int /\ n * f \in Int /\ m * g \in Int
    OBVIOUS
  <2> QED
    BY <1>1, <2>2, <2>3
<1>6. a \div n = f
  BY <1>3, <1>4, <1>5, DivModUnique
<1> QED
  BY <1>1, <1>2, <1>3, <1>6

-----------------------------------------------------------------------------
(* Digits.                                                                 *)

LEMMA PlacesIs ==
  ASSUME NEW n \in Nat, NEW b \in Nat, b > 1
  PROVE  /\ Places(n, b) \in Nat /\ Places(n, b) > 0
         /\ n < Pow(b, Places(n, b))
         /\ Places(n, b) = 1 \/ Pow(b, Places(n, b) - 1) <= n
<1>1. PICK S : S = {k \in Nat : k > 0 /\ n < Pow(b, k)}
  OBVIOUS
<1>2. n + 1 \in S
  <2>1. n + 1 \in Nat /\ n + 1 > 0
    OBVIOUS
  <2>2. Pow(b, n + 1) > n + 1 /\ Pow(b, n + 1) \in Int
    BY <2>1, PowExceeds, PowInt
  <2> QED
    BY <1>1, <2>1, <2>2
<1>3. PICK k \in S : \A j \in S : k <= j
  BY <1>1, <1>2, FirstIn
<1>4. k = 1 \/ Pow(b, k - 1) <= n
  <2>1. k > 1 => k - 1 \notin S /\ k - 1 \in Nat /\ k - 1 > 0
    BY <1>1, <1>3
  <2>2. k > 1 => Pow(b, k - 1) \in Int
    BY <2>1, PowInt
  <2> QED
    BY <1>1, <1>3, <2>1, <2>2
<1>5. k \in 1 .. n + 1 /\ n < Pow(b, k) /\ (k = 1 \/ Pow(b, k - 1) <= n)
  BY <1>1, <1>2, <1>3, <1>4
<1>6. PICK c : c = Places(n, b)
  OBVIOUS
<1>7. c \in 1 .. n + 1 /\ n < Pow(b, c) /\ (c = 1 \/ Pow(b, c - 1) <= n)
  BY <1>5, <1>6 DEF Places
<1> QED
  BY <1>6, <1>7

(* No other number of places will do.                                      *)
LEMMA PlacesUnique ==
  ASSUME NEW n \in Nat, NEW b \in Nat, b > 1, NEW k \in Nat, k > 0,
         n < Pow(b, k), Pow(b, k - 1) <= n
  PROVE  Places(n, b) = k
<1>1. PICK c \in Nat : /\ c = Places(n, b) /\ c > 0 /\ n < Pow(b, c)
                       /\ c = 1 \/ Pow(b, c - 1) <= n
  BY PlacesIs
<1>2. /\ Pow(b, k) \in Int /\ Pow(b, k - 1) \in Int /\ Pow(b, c) \in Int
      /\ Pow(b, c - 1) \in Int
  <2>1. k - 1 \in Nat /\ c - 1 \in Nat
    BY <1>1
  <2>2. \A m \in Nat : Pow(b, m) \in Int
    BY PowInt
  <2> QED
    BY <2>1, <2>2
<1>3. ~(c < k)
  <2>1. c < k => c <= k - 1 /\ k - 1 \in Nat
    OBVIOUS
  <2>2. c < k => Pow(b, c) <= Pow(b, k - 1)
    BY <2>1, PowMonotone
  <2> QED
    BY <1>1, <1>2, <2>2
<1>4. ~(k < c)
  <2>1. k < c => k <= c - 1 /\ c - 1 \in Nat /\ c # 1
    OBVIOUS
  <2>2. k < c => Pow(b, k) <= Pow(b, c - 1)
    BY <2>1, PowMonotone
  <2> QED
    BY <1>1, <1>2, <2>1, <2>2
<1> QED
  BY <1>1, <1>3, <1>4

LEMMA DigitsAre ==
  ASSUME NEW n \in Nat, NEW b \in Nat, b > 1
  PROVE  /\ Digits(n, b) \in Seq(0 .. b - 1)
         /\ Len(Digits(n, b)) = Places(n, b)
         /\ \A i \in 1 .. Places(n, b) :
              Digits(n, b)[i] = (n \div Pow(b, Places(n, b) - i)) % b
<1>1. PICK c \in Nat : c = Places(n, b) /\ c > 0
  BY PlacesIs
<1>2. PICK ds : ds = [i \in 1 .. c |-> (n \div Pow(b, c - i)) % b]
  OBVIOUS
<1>3. Digits(n, b) = ds
  BY <1>1, <1>2 DEF Digits
<1>4. ASSUME NEW i \in 1 .. c PROVE (n \div Pow(b, c - i)) % b \in 0 .. b - 1
  <2>1. c - i \in Nat
    OBVIOUS
  <2>2. PICK p \in Nat : p = Pow(b, c - i) /\ p > 0
    BY <2>1, PowPos
  <2>3. n \div p \in Int
    BY <2>2, DivMod
  <2> QED
    BY <2>2, <2>3, DivMod
<1>5. ds \in [1 .. c -> 0 .. b - 1]
  BY <1>2, <1>4
<1>6. ds \in Seq(0 .. b - 1)
  BY <1>5, SeqDef
<1>7. Len(ds) = c
  BY <1>5, <1>6, LenProperties
<1> QED
  BY <1>1, <1>2, <1>3, <1>6, <1>7

(* Spelled computes from the most significant digit on.                    *)
SpellLoop(ds, n, b, s) == s = [i \in 0 .. n |-> IF i = 0 THEN 0 ELSE s[i - 1] * b + ds[i]]

LEMMA SpellLoopExists ==
  ASSUME NEW ds \in Seq(Int), NEW b \in Int
  PROVE  \A n \in Nat : n <= Len(ds) =>
           \E s : SpellLoop(ds, n, b, s) /\ s \in [0 .. n -> Int]
<1> DEFINE S == {n \in Nat : n <= Len(ds) =>
                   \E s : SpellLoop(ds, n, b, s) /\ s \in [0 .. n -> Int]}
<1>0. Len(ds) \in Nat /\ \A i \in 1 .. Len(ds) : ds[i] \in Int
  BY LenProperties, ElementOfSeq
<1>1. 0 \in S
  <2>1. PICK s : s = [i \in 0 .. 0 |-> 0]
    OBVIOUS
  <2>2. SpellLoop(ds, 0, b, s) /\ s \in [0 .. 0 -> Int]
    BY <2>1 DEF SpellLoop
  <2> QED
    BY <2>2
<1>2. ASSUME NEW n \in S, n + 1 <= Len(ds)
      PROVE  \E s : SpellLoop(ds, n + 1, b, s) /\ s \in [0 .. n + 1 -> Int]
  <2>1. PICK s : SpellLoop(ds, n, b, s) /\ s \in [0 .. n -> Int]
    BY <1>0, <1>2
  <2>2. PICK t : t = [i \in 0 .. n + 1 |-> IF i = n + 1 THEN s[n] * b + ds[n + 1] ELSE s[i]]
    OBVIOUS
  <2>3. t \in [0 .. n + 1 -> Int]
    <3>1. s[n] * b + ds[n + 1] \in Int
      BY <1>0, <1>2, <2>1
    <3> QED
      BY <2>1, <2>2, <3>1
  <2>4. \A i \in 0 .. n : t[i] = s[i]
    BY <2>2
  <2>5. ASSUME NEW i \in 0 .. n + 1
        PROVE  t[i] = IF i = 0 THEN 0 ELSE t[i - 1] * b + ds[i]
    <3>1. \A j \in 0 .. n : s[j] = IF j = 0 THEN 0 ELSE s[j - 1] * b + ds[j]
      BY <2>1 DEF SpellLoop
    <3>2. CASE i = n + 1
      <4>1. t[i] = s[n] * b + ds[n + 1] /\ t[n] = s[n] /\ i - 1 = n /\ i # 0
        BY <2>2, <2>4, <3>2
      <4> QED
        BY <3>2, <4>1
    <3>3. CASE i \in 1 .. n
      <4>1. t[i] = s[i] /\ t[i - 1] = s[i - 1] /\ i # 0 /\ i \in 0 .. n
        BY <2>4, <3>3
      <4> QED
        BY <3>1, <4>1
    <3>4. CASE i = 0
      BY <2>4, <3>1, <3>4
    <3> QED
      BY <3>2, <3>3, <3>4
  <2>6. SpellLoop(ds, n + 1, b, t)
    BY <2>3, <2>5 DEF SpellLoop
  <2> QED
    BY <2>3, <2>6
<1>3. \A n \in S : n + 1 \in S
  BY <1>2, SMTT(30)
<1> HIDE DEF S
<1>4. S \in SUBSET Nat
  BY DEF S
<1>5. \A n \in Nat : n \in S
  BY <1>1, <1>3, <1>4, AllNat
<1> QED
  BY <1>5 DEF S

(* Whatever satisfies the recurrence ends with what Spelled returns.       *)
LEMMA SpelledIs ==
  ASSUME NEW ds \in Seq(Int), NEW b \in Int, NEW s,
         s[0] = 0, \A i \in 1 .. Len(ds) : s[i] = s[i - 1] * b + ds[i]
  PROVE  Spelled(ds, b) = s[Len(ds)] /\ Spelled(ds, b) \in Int
<1>0. Len(ds) \in Nat /\ Len(ds) <= Len(ds)
  BY LenProperties
<1>1. PICK r : SpellLoop(ds, Len(ds), b, r) /\ r \in [0 .. Len(ds) -> Int]
  BY <1>0, SpellLoopExists
<1>2. PICK q : q = CHOOSE t : SpellLoop(ds, Len(ds), b, t)
  OBVIOUS
<1>3. SpellLoop(ds, Len(ds), b, q)
  BY <1>1, <1>2
<1>4. Spelled(ds, b) = q[Len(ds)]
  BY <1>2 DEF Spelled, SpellLoop
<1> DEFINE S == {i \in Nat : i > Len(ds) \/ (q[i] = s[i] /\ r[i] = s[i])}
<1>5. 0 \in S
  BY <1>0, <1>1, <1>3 DEF SpellLoop
<1>6. ASSUME NEW i \in S PROVE i + 1 \in S
  BY <1>0, <1>1, <1>3 DEF SpellLoop
<1> HIDE DEF S
<1>7. S \in SUBSET Nat
  BY DEF S
<1>8. \A i \in Nat : i \in S
  BY <1>5, <1>6, <1>7, AllNat
<1>9. q[Len(ds)] = s[Len(ds)] /\ r[Len(ds)] = s[Len(ds)]
  BY <1>0, <1>8 DEF S
<1> QED
  BY <1>0, <1>1, <1>4, <1>9

LEMMA SpelledInt ==
  ASSUME NEW ds \in Seq(Int), NEW b \in Int
  PROVE  Spelled(ds, b) \in Int
<1>0. Len(ds) \in Nat /\ Len(ds) <= Len(ds)
  BY LenProperties
<1>1. PICK r : SpellLoop(ds, Len(ds), b, r) /\ r \in [0 .. Len(ds) -> Int]
  BY <1>0, SpellLoopExists
<1>2. r[0] = 0 /\ \A i \in 1 .. Len(ds) : r[i] = r[i - 1] * b + ds[i]
  BY <1>0, <1>1, SMTT(30) DEF SpellLoop
<1> QED
  BY <1>2, SpelledIs

(* The digits of a number spell it, and zeros in front change nothing:     *)
(* what php_driver_format_decimal and export_twos_complement rely on.      *)
LEMMA SpelledDigits ==
  ASSUME NEW n \in Nat, NEW b \in Nat, b > 1, NEW z \in Nat
  PROVE  Spelled(Zeros(z) \o Digits(n, b), b) = n
<1>0. b > 0
  OBVIOUS
<1>1. PICK c \in Nat : c = Places(n, b) /\ c > 0 /\ n < Pow(b, c)
  BY PlacesIs
<1>2. PICK ds \in Seq(0 .. b - 1) :
        /\ ds = Digits(n, b) /\ Len(ds) = c
        /\ \A i \in 1 .. c : ds[i] = (n \div Pow(b, c - i)) % b
  BY <1>1, DigitsAre
<1>3. Zeros(z) \in Seq(0 .. b - 1) /\ Len(Zeros(z)) = z
  <2>1. Zeros(z) \in [1 .. z -> 0 .. b - 1]
    BY DEF Zeros
  <2>2. Zeros(z) \in Seq(0 .. b - 1)
    BY <2>1, SeqDef
  <2> QED
    BY <2>1, <2>2, LenProperties
<1>4. PICK es : es = Zeros(z) \o ds
  OBVIOUS
<1>5. /\ es \in Seq(0 .. b - 1) /\ Len(es) = z + c
      /\ \A i \in 1 .. z + c : es[i] = IF i <= z THEN 0 ELSE ds[i - z]
  <2>1. es \in Seq(0 .. b - 1) /\ Len(es) = z + c
    BY <1>2, <1>3, <1>4, ConcatProperties
  <2>2. \A i \in 1 .. z + c : es[i] = IF i <= z THEN Zeros(z)[i] ELSE ds[i - z]
    BY <1>2, <1>3, <1>4, SMTT(30)
  <2> QED
    BY <2>1, <2>2 DEF Zeros
<1>6. PICK s : s = [i \in 0 .. z + c |-> IF i <= z THEN 0 ELSE n \div Pow(b, z + c - i)]
  OBVIOUS
<1>7. n \div Pow(b, c) = 0
  <2>1. PICK p \in Nat : p = Pow(b, c) /\ p > 0
    BY <1>0, PowPos
  <2>2. n = p * 0 + n /\ n \in 0 .. p - 1
    BY <1>1, <2>1
  <2> QED
    BY <2>1, <2>2, DivModUnique, SMTT(30)
<1>8. \A i \in z .. z + c : s[i] = n \div Pow(b, z + c - i)
  <2>1. z + c - z = c
    OBVIOUS
  <2> QED
    BY <1>6, <1>7, <2>1
<1>9. ASSUME NEW i \in 1 .. z + c PROVE s[i] = s[i - 1] * b + es[i]
  <2>1. CASE i <= z
    <3>1. s[i] = 0 /\ s[i - 1] = 0 /\ es[i] = 0
      BY <1>5, <1>6, <2>1
    <3> QED
      BY <3>1
  <2>2. CASE i > z
    <3>1. PICK k \in Nat : k = z + c - i
      BY <2>2
    <3>2. s[i] = n \div Pow(b, k) /\ s[i - 1] = n \div Pow(b, k + 1)
      <4>1. z + c - (i - 1) = k + 1 /\ i - 1 \in z .. z + c /\ i \in z .. z + c
        BY <2>2, <3>1
      <4> QED
        BY <1>8, <3>1, <4>1
    <3>3. es[i] = (n \div Pow(b, k)) % b
      <4>1. i - z \in 1 .. c /\ c - (i - z) = k
        BY <2>2, <3>1
      <4> QED
        BY <1>2, <1>5, <2>2, <4>1, SMTT(30)
    <3>4. PICK p \in Nat : p = Pow(b, k) /\ p > 0
      BY <1>0, PowPos
    <3>5. Pow(b, k + 1) = b * p
      BY <3>4, PowNext
    <3>6. PICK q \in Int : q = n \div p
      BY <3>4, DivMod
    <3>7. n \div (b * p) = q \div b
      <4>1. n \in Int /\ b > 0 /\ p > 0
        BY <1>0, <3>4
      <4>2. (n \div p) \div b = n \div (b * p)
        BY <4>1, DivDiv
      <4> QED
        BY <3>6, <4>2
    <3>8. q = b * (q \div b) + (q % b) /\ q \div b \in Int
      BY DivMod
    <3>9. (q \div b) * b = b * (q \div b)
      BY <3>8
    <3> QED
      BY <3>2, <3>3, <3>4, <3>5, <3>6, <3>7, <3>8, <3>9
  <2> QED
    BY <2>1, <2>2
<1>10. s[0] = 0
  BY <1>6
<1>11. es \in Seq(Int)
  <2>1. 0 .. b - 1 \subseteq Int
    OBVIOUS
  <2> QED
    BY <1>5, <2>1
<1>12. Spelled(es, b) = s[z + c]
  <2>1. \A i \in 1 .. Len(es) : s[i] = s[i - 1] * b + es[i]
    BY <1>5, <1>9
  <2>2. Spelled(es, b) = s[Len(es)]
    <3> HIDE DEF Zeros
    <3> QED
      BY <1>10, <1>11, <2>1, SpelledIs
  <2> QED
    BY <1>5, <2>2
<1>13. s[z + c] = n
  <2>1. s[z + c] = n \div Pow(b, 0)
    <3>1. z + c - (z + c) = 0 /\ z + c \in z .. z + c
      OBVIOUS
    <3> QED
      BY <1>8, <3>1
  <2>2. Pow(b, 0) = 1
    BY PowZero
  <2>3. n \div 1 = n
    OBVIOUS
  <2> QED
    BY <2>1, <2>2, <2>3
<1> QED
  BY <1>2, <1>4, <1>12, <1>13

(* A text of digits without zeros in front.                                *)
LEMMA SpelledBack ==
  ASSUME NEW n \in Nat, NEW b \in Nat, b > 1
  PROVE  Spelled(Digits(n, b), b) = n
<1>1. Digits(n, b) \in Seq(0 .. b - 1)
  BY DigitsAre
<1>2. Zeros(0) = <<>>
  BY DEF Zeros
<1>3. Zeros(0) \o Digits(n, b) = Digits(n, b)
  BY <1>1, <1>2, ConcatEmptySeq
<1> QED
  BY <1>3, SpelledDigits

(* The first digit is what is left of the number; it is not zero unless    *)
(* the number is.                                                          *)
LEMMA LeadingDigit ==
  ASSUME NEW n \in Nat, NEW b \in Nat, b > 1
  PROVE  /\ Digits(n, b)[1] = n \div Pow(b, Places(n, b) - 1)
         /\ n # 0 => Digits(n, b)[1] # 0
<1>1. PICK c \in Nat : /\ c = Places(n, b) /\ c > 0 /\ n < Pow(b, c)
                       /\ c = 1 \/ Pow(b, c - 1) <= n
  BY PlacesIs
<1>2. c - 1 \in Nat /\ b > 0
  BY <1>1
<1>3. PICK p \in Nat : p = Pow(b, c - 1) /\ p > 0
  BY <1>2, PowPos
<1>4. n < b * p
  <2>1. Pow(b, (c - 1) + 1) = b * Pow(b, c - 1)
    BY <1>2, PowNext
  <2>2. (c - 1) + 1 = c
    OBVIOUS
  <2> QED
    BY <1>1, <1>3, <2>1, <2>2
<1>5. PICK q \in Int, e \in 0 .. p - 1 : q = n \div p /\ n = p * q + e
  <2>1. n \in Int
    OBVIOUS
  <2>2. n \div p \in Int /\ n % p \in 0 .. p - 1 /\ n = p * (n \div p) + (n % p)
    BY <1>3, <2>1, DivMod
  <2> QED
    BY <2>2
<1>6. q \in 0 .. b - 1
  <2>1. q < 0 => p * q <= -p
    BY <1>3
  <2>2. q >= b => p * q >= b * p
    BY <1>3
  <2>3. p * q \in Int /\ b * p \in Int
    OBVIOUS
  <2> QED
    BY <1>4, <1>5, <2>1, <2>2, <2>3
<1>7. q % b = q
  <2>1. b * 0 + q = q
    BY <1>6
  <2> QED
    BY <1>2, <1>6, <2>1, DivModUnique
<1>8. Digits(n, b)[1] = q
  <2>1. Digits(n, b)[1] = (n \div Pow(b, c - 1)) % b
    BY <1>1, DigitsAre
  <2> QED
    BY <1>3, <1>5, <1>7, <2>1
<1>9. n # 0 => q # 0
  <2>1. c = 1 => p = 1
    BY <1>3, PowZero
  <2>2. n # 0 => p <= n
    BY <1>1, <1>3, <2>1
  <2>3. q = 0 => n = e
    BY <1>5
  <2> QED
    BY <1>5, <2>2, <2>3
<1> QED
  BY <1>1, <1>3, <1>5, <1>8, <1>9

(* The lowest bit of a positive number exists.                             *)
LEMMA TwosIs ==
  ASSUME NEW n \in Nat, n > 0
  PROVE  /\ Twos(n) \in Nat /\ n % Pow(2, Twos(n)) = 0
         /\ n % Pow(2, Twos(n) + 1) # 0
<1>1. PICK S : S = {k \in Nat : n % Pow(2, k + 1) # 0}
  OBVIOUS
<1>2. n \in S
  <2>1. n + 1 \in Nat
    OBVIOUS
  <2>2. PICK p \in Nat : p = Pow(2, n + 1) /\ p > n + 1
    BY <2>1, PowPos, PowExceeds
  <2>3. p * 0 + n = n /\ n \in 0 .. p - 1 /\ p > 0
    BY <2>2
  <2>4. n % p = n
    BY <2>3, DivModUnique
  <2> QED
    BY <1>1, <2>2, <2>4
<1>3. PICK k \in S : \A j \in S : k <= j
  BY <1>1, <1>2, FirstIn
<1>4. n % Pow(2, k) = 0
  <2>1. CASE k = 0
    <3>1. Pow(2, k) = 1 /\ n % 1 = 0
      BY <2>1, PowZero
    <3> QED
      BY <3>1
  <2>2. CASE k > 0
    <3>1. k - 1 \in Nat /\ k - 1 \notin S /\ (k - 1) + 1 = k
      BY <1>1, <1>3, <2>2
    <3> QED
      BY <1>1, <3>1
  <2> QED
    BY <1>1, <2>1, <2>2
<1>5. k \in 0 .. n /\ n % Pow(2, k) = 0 /\ n % Pow(2, k + 1) # 0
  BY <1>1, <1>2, <1>3, <1>4
<1>6. PICK t : t = Twos(n)
  OBVIOUS
<1>7. t \in 0 .. n /\ n % Pow(2, t) = 0 /\ n % Pow(2, t + 1) # 0
  BY <1>5, <1>6 DEF Twos
<1> QED
  BY <1>6, <1>7

(* The bytes of a number that fills them: 256^u - m with m at most half of *)
(* it has u bytes, and the first one has its highest bit set.              *)
LEMMA NegativeBytes ==
  ASSUME NEW u \in Nat, u > 0, NEW m \in Nat, m > 0, 2 * m <= Pow(256, u)
  PROVE  import_twos_complement(Bytes(Abs(-m + Pow(256, u)))) = -m
<1>1. PICK p \in Nat, h \in Nat : /\ p = Pow(256, u) /\ h = Pow(256, u - 1) /\ h > 0
                                  /\ p = 256 * h
  <2>1. u - 1 \in Nat /\ (u - 1) + 1 = u
    OBVIOUS
  <2>2. Pow(256, u) = 256 * Pow(256, u - 1)
    BY <2>1, PowNext
  <2> QED
    BY <2>1, <2>2, PowPos
<1>2. PICK n \in Nat : n = p - m
  BY <1>1
<1>3. Abs(-m + Pow(256, u)) = n
  BY <1>1, <1>2 DEF Abs
<1>4. h <= n /\ n < p
  BY <1>1, <1>2
<1>5. Places(n, 256) = u
  BY <1>1, <1>4, PlacesUnique
<1>6. PICK ds : ds = Digits(n, 256)
  OBVIOUS
<1>7. Len(ds) = u
  BY <1>5, <1>6, DigitsAre
<1>8. ds[1] = n \div h
  BY <1>1, <1>5, <1>6, LeadingDigit
<1>9. ds[1] >= 128
  <2>1. PICK q \in Int, e \in 0 .. h - 1 : q = n \div h /\ n = h * q + e
    <3>1. n \in Int
      OBVIOUS
    <3>2. n \div h \in Int /\ n % h \in 0 .. h - 1 /\ n = h * (n \div h) + (n % h)
      BY <1>1, <3>1, DivMod
    <3> QED
      BY <3>2
  <2>2. q <= 127 => h * q <= 127 * h
    BY <1>1
  <2>3. h * q \in Int
    OBVIOUS
  <2>4. 2 * n >= 256 * h /\ n < h * q + h
    BY <1>1, <1>2, <2>1
  <2>5. q >= 128
    BY <2>2, <2>3, <2>4
  <2> QED
    BY <1>8, <2>1, <2>5
<1>10. Spelled(ds, 256) = n
  BY <1>6, SpelledBack
<1> QED
  BY <1>1, <1>2, <1>3, <1>6, <1>7, <1>9, <1>10 DEF import_twos_complement, Bytes

(* export_twos_complement and import_twos_complement are inverse, but for  *)
(* the numbers whose lowest bit imitates a power of two.                   *)
LEMMA WireExact ==
  ASSUME NEW n \in Int, ~Imitates(n)
  PROVE  import_twos_complement(export_twos_complement(n)) = n
<1>1. CASE n = 0
  <2>1. export_twos_complement(n) = <<0>>
    BY <1>1 DEF export_twos_complement
  <2>2. Spelled(<<0>>, 256) = 0
    <3>1. PICK s : s = [i \in 0 .. 1 |-> 0]
      OBVIOUS
    <3>2. /\ <<0>> \in Seq(Int) /\ Len(<<0>>) = 1 /\ s[0] = 0 /\ s[1] = 0
          /\ \A i \in 1 .. 1 : s[i] = s[i - 1] * 256 + <<0>>[i]
      BY <3>1
    <3>3. PICK ds : ds = <<0>>
      OBVIOUS
    <3>4. /\ ds \in Seq(Int) /\ Len(ds) = 1
          /\ \A i \in 1 .. Len(ds) : s[i] = s[i - 1] * 256 + ds[i]
      BY <3>2, <3>3
    <3>5. Spelled(ds, 256) = s[Len(ds)]
      <4>1. PICK b \in Int : b = 256
        OBVIOUS
      <4>2. \A i \in 1 .. Len(ds) : s[i] = s[i - 1] * b + ds[i]
        BY <3>4, <4>1
      <4>3. s[0] = 0 /\ ds \in Seq(Int)
        BY <3>2, <3>4
      <4>4. Spelled(ds, b) = s[Len(ds)]
        BY <4>2, <4>3, SpelledIs
      <4> QED
        BY <4>1, <4>4
    <3> QED
      BY <3>2, <3>3, <3>4, <3>5
  <2> QED
    BY <1>1, <2>1, <2>2 DEF import_twos_complement
<1>2. CASE n > 0
  <2>1. export_twos_complement(n) = <<0>> \o Digits(n, 256)
    BY <1>2 DEF export_twos_complement, Bytes
  <2>2. <<0>> = Zeros(1)
    BY DEF Zeros
  <2>3. Spelled(<<0>> \o Digits(n, 256), 256) = n
    BY <1>2, <2>2, SpelledDigits
  <2>4. (<<0>> \o Digits(n, 256))[1] = 0
    <3>1. n \in Nat
      BY <1>2
    <3>2. PICK ds, S : ds = Digits(n, 256) /\ ds \in Seq(S)
      <4>1. PICK b \in Nat : b = 256
        OBVIOUS
      <4>2. b > 1
        BY <4>1
      <4>3. Digits(n, b) \in Seq(0 .. b - 1)
        BY <3>1, <4>2, DigitsAre
      <4> QED
        BY <4>1, <4>3
    <3>3. (<<0>> \o ds)[1] = 0
      BY <3>2
    <3> QED
      BY <3>2, <3>3
  <2> QED
    BY <2>1, <2>3, <2>4 DEF import_twos_complement
<1>3. CASE n < 0
  <2>1. PICK m \in Nat : m = -n /\ m > 0
    BY <1>3
  <2>2. PICK l \in Nat : l = BitSize(m) /\ l > 0 /\ m < Pow(2, l)
    BY <2>1, PlacesIs DEF BitSize
  <2>3. PICK size \in Nat : size = l \div 8 + 1
    BY <2>2
  <2>4. PICK used : used = IF LowestBit(m) = 8 * (size - 1) - 1 THEN size - 1 ELSE size
    OBVIOUS
  <2>5. export_twos_complement(n) = Bytes(Abs(-m + Pow(256, used)))
    <3>1. ~(n = 0) /\ ~(n > 0) /\ -n = m /\ n = -m
      BY <1>3, <2>1
    <3> QED
      BY <2>2, <2>3, <2>4, <3>1 DEF export_twos_complement
  <2>6. used \in Nat /\ used > 0 /\ 2 * m <= Pow(256, used)
    <3>1. CASE LowestBit(m) = 8 * (size - 1) - 1
      <4>1. LowestBit(m) \in Nat
        BY <2>1, TwosIs DEF LowestBit
      <4>2. used = size - 1 /\ used \in Nat /\ used > 0
        BY <2>3, <2>4, <3>1, <4>1
      <4>3. Pow(2, LowestBit(m)) = m
        <5>1. LowestBit(-n) = 8 * (BitSize(-n) \div 8) - 1
          BY <2>1, <2>2, <2>3, <3>1
        <5> QED
          BY <1>3, <2>1, <5>1 DEF Imitates
      <4>4. Pow(2, LowestBit(m) + 1) = 2 * m
        BY <4>1, <4>3, PowNext
      <4>5. LowestBit(m) + 1 = 8 * used
        BY <3>1, <4>2
      <4>6. Pow(256, used) = 2 * m
        BY <4>2, <4>4, <4>5, PowBytes
      <4> QED
        BY <4>2, <4>6
    <3>2. CASE LowestBit(m) # 8 * (size - 1) - 1
      <4>1. used = size /\ size > 0
        BY <2>3, <2>4, <3>2
      <4>2. 8 * size \in Nat /\ l + 1 \in Nat /\ l + 1 <= 8 * size
        BY <2>3
      <4>3. Pow(2, l + 1) = 2 * Pow(2, l)
        BY PowNext
      <4>4. Pow(2, l + 1) <= Pow(2, 8 * size)
        BY <4>2, PowMonotone
      <4>5. Pow(2, l) \in Int /\ Pow(2, 8 * size) \in Int
        BY <4>2, PowInt
      <4>6. Pow(256, size) = Pow(2, 8 * size)
        BY PowBytes
      <4> QED
        BY <2>2, <4>1, <4>3, <4>4, <4>5, <4>6
    <3> QED
      BY <3>1, <3>2
  <2>7. import_twos_complement(Bytes(Abs(-m + Pow(256, used)))) = -m
    BY <2>1, <2>6, NegativeBytes
  <2> QED
    BY <2>1, <2>5, <2>7
<1> QED
  BY <1>1, <1>2, <1>3

(* Those numbers never come back.                                          *)
LEMMA WireWrong ==
  ASSUME NEW n \in Int, Imitates(n)
  PROVE  import_twos_complement(export_twos_complement(n)) # n
<1>1. PICK m \in Nat : m = -n /\ n = -m /\ m > 0
  BY DEF Imitates
<1>2. PICK l \in Nat : /\ l = BitSize(m) /\ l > 0
                       /\ l = 1 \/ Pow(2, l - 1) <= m
  BY <1>1, PlacesIs DEF BitSize
<1>3. PICK t \in Nat : t = LowestBit(m) /\ m % Pow(2, t) = 0 /\ m % Pow(2, t + 1) # 0
  BY <1>1, TwosIs DEF LowestBit
<1>4. PICK w \in Nat : w = l \div 8 /\ t = 8 * w - 1 /\ Pow(2, t) # m
  <2>1. t = 8 * (l \div 8) - 1 /\ Pow(2, t) # m
    BY <1>1, <1>2, <1>3 DEF Imitates
  <2>2. l \div 8 \in Nat
    BY <1>2
  <2> QED
    BY <2>1, <2>2
<1>5. w > 0 /\ 8 * w <= l
  BY <1>2, <1>4
<1>6. PICK g \in Nat : g = Pow(2, t) /\ g > 0 /\ Pow(2, t + 1) = 2 * g
  <2>1. Pow(2, t) \in Nat /\ Pow(2, t) > 0
    BY PowTwo
  <2>2. Pow(2, t + 1) = 2 * Pow(2, t)
    BY PowNext
  <2> QED
    BY <2>1, <2>2
<1>7. g <= m
  <2>1. l - 1 \in Nat /\ t <= l - 1 /\ l # 1
    BY <1>4, <1>5
  <2>2. Pow(2, t) <= Pow(2, l - 1)
    BY <2>1, PowMonotone
  <2>3. Pow(2, l - 1) \in Int
    BY <2>1, PowInt
  <2> QED
    BY <1>2, <1>6, <2>1, <2>2, <2>3
<1>8. m > 2 * g
  <2>1. PICK q \in Int : m = g * q
    <3>1. m \in Int /\ m % g = 0
      BY <1>3, <1>6
    <3>2. m \div g \in Int /\ m = g * (m \div g) + (m % g)
      BY <1>6, <3>1, DivMod
    <3>3. m = g * (m \div g)
      <4>1. PICK a \in Int : a = g * (m \div g)
        BY <3>2
      <4> QED
        BY <3>1, <3>2, <4>1
    <3> QED
      BY <3>2, <3>3
  <2>2. q # 1
    BY <1>4, <1>6, <2>1
  <2>3. q # 2
    <3>1. ASSUME q = 2 PROVE FALSE
      <4>1. PICK d \in Nat : d = 2 * g /\ d > 0 /\ m = d
        BY <1>6, <2>1, <3>1
      <4>2. 0 \in 0 .. d - 1 /\ d * 1 + 0 = d
        BY <4>1
      <4>3. (d * 1 + 0) % d = 0
        BY <4>1, <4>2, DivModUnique
      <4> QED
        BY <1>3, <1>6, <4>1, <4>2, <4>3
    <3> QED
      BY <3>1
  <2>4. q >= 1
    <3>1. q <= 0 => g * q <= 0
      OBVIOUS
    <3> QED
      BY <1>1, <2>1, <3>1
  <2>5. q >= 3
    BY <2>2, <2>3, <2>4
  <2>6. g * q >= g * 3
    BY <2>5
  <2> QED
    BY <1>6, <2>1, <2>6
<1>9. Pow(256, w) = 2 * g
  <2>1. 8 * w = t + 1
    BY <1>4
  <2> QED
    BY <1>6, <2>1, PowBytes
<1>10. PICK c \in Nat : c = m - 2 * g /\ c > 0
  BY <1>8
<1>11. export_twos_complement(n) = Digits(c, 256)
  <2>1. PICK size \in Nat : size = BitSize(-n) \div 8 + 1 /\ size - 1 = w
    BY <1>1, <1>2, <1>4
  <2>2. LowestBit(-n) = 8 * (size - 1) - 1
    BY <1>1, <1>3, <1>4, <2>1
  <2>3. ~(n = 0) /\ ~(n > 0)
    BY <1>1
  <2>4. export_twos_complement(n) = Bytes(Abs(n + Pow(256, w)))
    BY <2>1, <2>2, <2>3 DEF export_twos_complement
  <2>5. Abs(n + Pow(256, w)) = c
    BY <1>1, <1>9, <1>10 DEF Abs
  <2> QED
    BY <2>4, <2>5 DEF Bytes
<1>12. PICK k \in Nat : k = Places(c, 256) /\ k > 0
  BY PlacesIs
<1>13. PICK h \in Nat : h = Pow(256, k - 1) /\ h > 0 /\ Pow(256, k) = 256 * h
  <2>1. k - 1 \in Nat /\ (k - 1) + 1 = k
    BY <1>12
  <2>2. Pow(256, k) = 256 * Pow(256, k - 1)
    BY <2>1, PowNext
  <2> QED
    BY <2>1, <2>2, PowPos
<1>14. PICK ds : ds = Digits(c, 256) /\ Len(ds) = k /\ ds[1] = c \div h /\ Spelled(ds, 256) = c
  BY <1>12, <1>13, DigitsAre, LeadingDigit, SpelledBack
<1>15. import_twos_complement(ds) = c - (IF ds[1] >= 128 THEN 256 * h ELSE 0)
  BY <1>13, <1>14 DEF import_twos_complement
<1>16. CASE ds[1] >= 128
  <2>1. PICK q \in Int, e \in 0 .. h - 1 : q = c \div h /\ c = h * q + e
    <3>1. c \in Int /\ h > 0
      BY <1>13
    <3>2. \E q \in Int, e \in 0 .. h - 1 : q = c \div h /\ c = h * q + e
      BY ONLY <3>1, h \in Nat, DivParts
    <3> QED
      BY <3>2, Zenon
  <2>2. h * q >= h * 128
    <3>1. q >= 128
      BY <1>14, <1>16, <2>1
    <3> QED
      BY <3>1
  <2>3. 2 * c >= 256 * h
    <3>1. h * q \in Int
      OBVIOUS
    <3> QED
      BY <2>1, <2>2, <3>1
  <2>4. c - 256 * h # n
    BY <1>1, <1>6, <1>10, <2>3
  <2> QED
    BY <1>11, <1>14, <1>15, <1>16, <2>4
<1>17. CASE ~(ds[1] >= 128)
  <2>1. c - 0 # n
    BY <1>1, <1>10
  <2> QED
    BY <1>11, <1>14, <1>15, <1>17, <2>1
<1> QED
  BY <1>16, <1>17

-----------------------------------------------------------------------------
(* The integers of C.                                                      *)

LEMMA WidthIs ==
  ASSUME NEW w \in Nat, w > 1
  PROVE  \E h \in Nat : /\ h > 1 /\ IntMin(w) = -h /\ IntMax(w) = h - 1
                        /\ Pow(2, w) = 2 * h /\ Pow(2, w - 1) = h
<1>1. w - 1 \in Nat /\ (w - 1) + 1 = w
  OBVIOUS
<1>2. PICK h \in Nat : h = Pow(2, w - 1) /\ h > w - 1
  <2>1. \A n \in Nat : Pow(2, n) \in Nat
    BY PowPos
  <2>2. \A n \in Nat : Pow(2, n) > n
    BY PowExceeds
  <2> QED
    BY <1>1, <2>1, <2>2
<1>3. Pow(2, w) = 2 * h
  BY <1>1, <1>2, PowNext
<1> QED
  BY <1>2, <1>3 DEF IntMin, IntMax

LEMMA WidthsAre ==
  /\ TinyBits \in Nat /\ TinyBits > 1 /\ SmallBits \in Nat /\ SmallBits > 1
  /\ IntBits \in Nat /\ IntBits > 1 /\ LongBits \in Nat /\ LongBits > 1
BY WidthsAssumption

(* The conversion to w bits: within the width, the same modulo 2^w, and    *)
(* nothing else for a number that fits.                                    *)
LEMMA WrapIs ==
  ASSUME NEW w \in Nat, w > 1, NEW n \in Int
  PROVE  /\ Wrap(w, n) \in Int /\ Fits(w, Wrap(w, n))
         /\ \E k \in Int : Wrap(w, n) = n + Pow(2, w) * k
         /\ Fits(w, n) => Wrap(w, n) = n
<1>1. PICK h \in Nat : h > 1 /\ IntMin(w) = -h /\ IntMax(w) = h - 1 /\ Pow(2, w) = 2 * h
  BY WidthIs
<1>2. PICK m \in Nat : m = 2 * h /\ m > 0
  BY <1>1
<1>3. PICK a \in Int : a = n + h
  OBVIOUS
<1>4. PICK q \in Int, e \in 0 .. m - 1 : q = a \div m /\ e = a % m /\ a = m * q + e
  BY <1>2, DivMod
<1>5. Wrap(w, n) = e - h
  BY <1>1, <1>2, <1>3, <1>4 DEF Wrap
<1>6. Fits(w, e - h)
  BY <1>1, <1>2, <1>4 DEF Fits
<1>7. e - h = n + m * (-q)
  <2>1. m * (-q) = -(m * q) /\ m * q \in Int
    OBVIOUS
  <2> QED
    BY <1>3, <1>4, <2>1
<1>8. Fits(w, n) => e - h = n
  <2>1. SUFFICES ASSUME Fits(w, n) PROVE e - h = n
    OBVIOUS
  <2>2. a \in 0 .. m - 1
    BY <1>1, <1>2, <1>3, <2>1 DEF Fits
  <2>3. m * 0 + a = a
    OBVIOUS
  <2>4. a % m = a
    BY <1>2, <2>2, <2>3, DivModUnique
  <2> QED
    BY <1>3, <1>4, <2>4
<1>9. \E k \in Int : e - h = n + Pow(2, w) * k
  <2>1. -q \in Int /\ Pow(2, w) = m
    BY <1>1, <1>2
  <2> QED
    BY <1>7, <2>1
<1> QED
  BY <1>5, <1>6, <1>8, <1>9

(* The division of C: the quotient is rounded towards zero, the remainder  *)
(* is smaller than the divisor, and multiples divide exactly.              *)
LEMMA QuotRem ==
  ASSUME NEW a \in Int, NEW b \in Int, b # 0
  PROVE  /\ Quot(a, b) \in Int /\ Rem(a, b) \in Int
         /\ a = b * Quot(a, b) + Rem(a, b)
         /\ Abs(Rem(a, b)) < Abs(b)
         /\ Abs(Quot(a, b)) <= Abs(a)
         /\ Abs(b) > 1 => 2 * Abs(Quot(a, b)) <= Abs(a)
<1>1. PICK c \in Nat, d \in Nat : c = Abs(a) /\ d = Abs(b) /\ d > 0
  BY DEF Abs
<1>2. PICK q \in Int, e \in 0 .. d - 1 : q = c \div d /\ c = d * q + e
  <2>1. c \in Int
    OBVIOUS
  <2>2. c \div d \in Int /\ c % d \in 0 .. d - 1 /\ c = d * (c \div d) + (c % d)
    BY <1>1, <2>1, DivMod
  <2> QED
    BY <2>2
<1>3. q \in Nat /\ q <= c /\ (d > 1 => 2 * q <= c)
  <2>1. q < 0 => d * q <= -d
    BY <1>1
  <2>2. q >= 0 => d * q >= q /\ (d > 1 => d * q >= 2 * q)
    BY <1>1
  <2>3. d * q \in Int
    OBVIOUS
  <2>4. q \in Nat
    BY <1>2, <2>1, <2>3
  <2> QED
    BY <1>2, <2>2, <2>3, <2>4
<1>4. Quot(a, b) = IF (a < 0) = (b < 0) THEN q ELSE -q
  <2>1. a = 0 => q = 0
    <3>1. a = 0 => c = 0
      BY <1>1 DEF Abs
    <3> QED
      BY <1>3, <3>1
  <2>2. Quot(a, b) = Sign(a) * Sign(b) * q
    BY <1>1, <1>2 DEF Quot
  <2>3. CASE a < 0 /\ b < 0
    BY <2>2, <2>3 DEF Sign
  <2>4. CASE a < 0 /\ ~(b < 0)
    BY <2>2, <2>4 DEF Sign
  <2>5. CASE a > 0 /\ b < 0
    BY <2>2, <2>5 DEF Sign
  <2>6. CASE a > 0 /\ ~(b < 0)
    BY <2>2, <2>6 DEF Sign
  <2>7. CASE a = 0
    <3>1. q = 0 /\ Sign(a) = 0 /\ Sign(b) \in Int
      BY <2>1, <2>7 DEF Sign
    <3> QED
      BY <2>2, <3>1
  <2> QED
    BY <2>3, <2>4, <2>5, <2>6, <2>7
<1>5. b * Quot(a, b) = IF a < 0 THEN -(d * q) ELSE d * q
  BY <1>1, <1>3, <1>4 DEF Abs
<1>6. d * q \in Int
  OBVIOUS
<1>7. Rem(a, b) = IF a < 0 THEN -e ELSE e
  BY <1>1, <1>2, <1>5, <1>6 DEF Rem, Abs
<1>8. Abs(Rem(a, b)) = e /\ Abs(Quot(a, b)) = q /\ Quot(a, b) \in Int /\ Rem(a, b) \in Int
  BY <1>2, <1>3, <1>4, <1>7 DEF Abs
<1>9. a = b * Quot(a, b) + Rem(a, b)
  BY <1>1, <1>2, <1>5, <1>6, <1>7 DEF Abs
<1>10. Abs(Rem(a, b)) < Abs(b)
  BY <1>1, <1>2, <1>8
<1>11. Abs(Quot(a, b)) <= Abs(a) /\ (Abs(b) > 1 => 2 * Abs(Quot(a, b)) <= Abs(a))
  BY <1>1, <1>3, <1>8
<1> QED
  BY <1>8, <1>9, <1>10, <1>11

LEMMA QuotExact ==
  ASSUME NEW a \in Int, NEW b \in Int, b # 0
  PROVE  Quot(a * b, b) = a
<1>1. PICK n \in Int, q \in Int, r \in Int :
        n = a * b /\ q = Quot(n, b) /\ r = Rem(n, b) /\ n = b * q + r /\ Abs(r) < Abs(b)
  <2>1. PICK n \in Int : n = a * b
    OBVIOUS
  <2> QED
    BY <2>1, QuotRem
<1>2. b * (a - q) = r
  <2>1. b * (a - q) = a * b - b * q
    OBVIOUS
  <2>2. b * q \in Int /\ a * b \in Int
    OBVIOUS
  <2> QED
    BY <1>1, <2>1, <2>2
<1>3. PICK m \in Nat : m = Abs(b) /\ m > 0
  BY DEF Abs
<1>4. \E k \in {a - q, q - a} : m * k = r
  <2>1. CASE b > 0
    BY <1>2, <1>3, <2>1 DEF Abs
  <2>2. CASE b < 0
    <3>1. m = -b
      BY <1>3, <2>2 DEF Abs
    <3>2. (-b) * (q - a) = b * (a - q)
      OBVIOUS
    <3> QED
      BY <1>2, <3>1, <3>2
  <2> QED
    BY <2>1, <2>2
<1>5. -m < r /\ r < m
  BY <1>1, <1>3 DEF Abs
<1>6. PICK k \in {a - q, q - a} : m * k = r
  BY <1>4
<1>7. k = 0
  <2>1. k \in Int
    BY <1>6
  <2> QED
    BY <1>3, <1>5, <1>6, <2>1, SmallMultiple
<1>8. q = a
  BY <1>6, <1>7
<1> QED
  BY <1>1, <1>8

-----------------------------------------------------------------------------
(* Arithmetic.                                                             *)

InRangeOr(w, n) == IF Fits(w, n) THEN Ok(n) ELSE Throw("range")

(* Smallint and Tinyint compute in int, store w bits and compare back.     *)
LEMMA NarrowAddExact ==
  ASSUME NEW w \in Nat, w > 1, NEW a \in Int, NEW b \in Int, Fits(w, a), Fits(w, b)
  PROVE  NarrowAdd(w, a, b) = InRangeOr(w, a + b) /\ NarrowSub(w, a, b) = InRangeOr(w, a - b)
<1>1. ASSUME NEW n \in Int
      PROVE  /\ Wrap(w, n) \in Int /\ Fits(w, Wrap(w, n))
             /\ Fits(w, n) => Wrap(w, n) = n
  BY WrapIs
<1>2. a + b \in Int /\ a - b \in Int
  OBVIOUS
<1>3. NarrowAdd(w, a, b) = InRangeOr(w, a + b)
  <2>1. PICK r \in Int : r = Wrap(w, a + b) /\ Fits(w, r) /\ (Fits(w, a + b) => r = a + b)
    BY <1>1, <1>2
  <2>2. r - b = a <=> r = a + b
    OBVIOUS
  <2>3. r = a + b => Fits(w, a + b)
    BY <2>1
  <2>4. NarrowAdd(w, a, b) = IF r - b = a THEN Ok(r) ELSE Throw("range")
    BY <2>1 DEF NarrowAdd, Checked
  <2> QED
    BY <2>1, <2>2, <2>3, <2>4 DEF InRangeOr
<1>4. NarrowSub(w, a, b) = InRangeOr(w, a - b)
  <2>1. PICK r \in Int : r = Wrap(w, a - b) /\ Fits(w, r) /\ (Fits(w, a - b) => r = a - b)
    BY <1>1, <1>2
  <2>2. r + b = a <=> r = a - b
    OBVIOUS
  <2>3. r = a - b => Fits(w, a - b)
    BY <2>1
  <2>4. NarrowSub(w, a, b) = IF r + b = a THEN Ok(r) ELSE Throw("range")
    BY <2>1 DEF NarrowSub, Checked
  <2> QED
    BY <2>1, <2>2, <2>3, <2>4 DEF InRangeOr
<1> QED
  BY <1>3, <1>4

(* The product is checked by dividing it again: were it wrapped, the       *)
(* quotient would differ, because a remainder is smaller than the divisor  *)
(* and 2^w is not.                                                         *)
LEMMA NarrowMulExact ==
  ASSUME NEW w \in Nat, w > 1, NEW a \in Int, NEW b \in Int, Fits(w, a), Fits(w, b)
  PROVE  NarrowMul(w, a, b) = InRangeOr(w, a * b)
<1>1. PICK h \in Nat : h > 1 /\ IntMin(w) = -h /\ IntMax(w) = h - 1 /\ Pow(2, w) = 2 * h
  BY WidthIs
<1>2. PICK n \in Int : n = a * b
  OBVIOUS
<1>3. PICK r \in Int : /\ r = Wrap(w, n) /\ Fits(w, r) /\ (Fits(w, n) => r = n)
                       /\ \E k \in Int : r = n + Pow(2, w) * k
  BY WrapIs
<1>4. NarrowMul(w, a, b) = IF b = 0 \/ Quot(r, b) = a THEN Ok(r) ELSE Throw("range")
  BY <1>2, <1>3 DEF NarrowMul, Checked
<1>5. b = 0 => n = 0 /\ Fits(w, n)
  BY <1>1, <1>2 DEF Fits
<1>6. b # 0 /\ Fits(w, n) => Quot(r, b) = a
  BY <1>2, <1>3, QuotExact
<1>7. b # 0 /\ Quot(r, b) = a => r = n
  <2>1. SUFFICES ASSUME b # 0, Quot(r, b) = a PROVE r = n
    OBVIOUS
  <2>2. PICK e \in Int : e = Rem(r, b) /\ r = b * a + e /\ Abs(e) < Abs(b)
    BY <2>1, QuotRem
  <2>3. b * a = n
    BY <1>2
  <2>4. Abs(b) <= h
    BY <1>1 DEF Fits, Abs
  <2>5. PICK k \in Int : r = n + (2 * h) * k
    BY <1>1, <1>3
  <2>6. PICK m \in Nat : m = 2 * h /\ m > 0
    BY <1>1
  <2>7. m * k = e
    <3>1. m * k \in Int
      OBVIOUS
    <3>2. r = n + m * k
      BY <2>5, <2>6
    <3>3. r = n + e
      BY <2>2, <2>3
    <3> QED
      BY <3>1, <3>2, <3>3
  <2>8. -m < e /\ e < m
    BY <2>2, <2>4, <2>6 DEF Abs
  <2>9. k = 0
    BY <2>6, <2>7, <2>8, SmallMultiple
  <2>10. m * k = 0
    BY <2>9
  <2> QED
    BY <2>5, <2>6, <2>10
<1> QED
  BY <1>2, <1>3, <1>4, <1>5, <1>6, <1>7 DEF InRangeOr

LEMMA QuotFits ==
  ASSUME NEW w \in Nat, w > 1, NEW a \in Int, NEW b \in Int, Fits(w, a), Fits(w, b), b # 0
  PROVE  /\ ~(a = IntMin(w) /\ b = -1) => Fits(w, Quot(a, b))
         /\ Fits(w, Rem(a, b))
<1>1. PICK h \in Nat : h > 1 /\ IntMin(w) = -h /\ IntMax(w) = h - 1
  BY WidthIs
<1>2. PICK q \in Int, e \in Int :
        /\ q = Quot(a, b) /\ e = Rem(a, b) /\ a = b * q + e /\ Abs(e) < Abs(b)
        /\ Abs(q) <= Abs(a) /\ (Abs(b) > 1 => 2 * Abs(q) <= Abs(a))
  BY QuotRem
<1>3. Fits(w, e)
  BY <1>1, <1>2 DEF Fits, Abs
<1>4. ASSUME ~(a = IntMin(w) /\ b = -1) PROVE Fits(w, q)
  <2>1. CASE Abs(b) > 1
    BY <1>1, <1>2, <2>1 DEF Fits, Abs
  <2>2. CASE ~(Abs(b) > 1)
    <3>1. b = 1 \/ b = -1
      BY <2>2 DEF Abs
    <3>2. e = 0
      BY <1>2, <3>1 DEF Abs
    <3>3. b = 1 => q = a
      BY <1>2, <3>2
    <3>4. b = -1 => q = -a
      BY <1>2, <3>2
    <3>5. b = -1 => a # -h
      BY <1>1, <1>4
    <3> QED
      BY <1>1, <3>1, <3>3, <3>4, <3>5 DEF Fits
  <2> QED
    BY <2>1, <2>2
<1> QED
  BY <1>2, <1>3, <1>4

LEMMA NarrowDivExact ==
  ASSUME NEW w \in Nat, w > 1, NEW a \in Int, NEW b \in Int, Fits(w, a), Fits(w, b), b # 0
  PROVE  /\ ~(a = IntMin(w) /\ b = -1) => NarrowDiv(w, a, b) = Ok(Quot(a, b))
         /\ NarrowDiv(w, a, b).exc = "none"
         /\ NarrowMod(w, a, b) = Ok(Rem(a, b))
<1>1. Quot(a, b) \in Int /\ Rem(a, b) \in Int
  BY QuotRem
<1>2. Wrap(w, Rem(a, b)) = Rem(a, b)
  BY <1>1, QuotFits, WrapIs
<1>3. ~(a = IntMin(w) /\ b = -1) => Wrap(w, Quot(a, b)) = Quot(a, b)
  BY <1>1, QuotFits, WrapIs
<1> QED
  BY <1>2, <1>3 DEF NarrowDiv, NarrowMod, Ok

(* Bigint's results are right modulo 2^64.                                 *)
LEMMA WrapModulo ==
  ASSUME NEW w \in Nat, w > 1, NEW n \in Int
  PROVE  (Wrap(w, n) - n) % Pow(2, w) = 0
<1>1. PICK m \in Nat : m = Pow(2, w) /\ m > 0
  BY PowPos
<1>2. PICK k \in Int : Wrap(w, n) = n + m * k
  BY <1>1, WrapIs
<1>3. m * k \in Int /\ Wrap(w, n) - n = m * k + 0
  BY <1>2
<1>4. (m * k + 0) % m = 0
  <2>1. 0 \in 0 .. m - 1
    BY <1>1
  <2> QED
    BY <1>1, <2>1, DivModUnique
<1> QED
  BY <1>1, <1>3, <1>4

-----------------------------------------------------------------------------
(* Constructors.                                                           *)

(* What a number read by util/math.c is.                                   *)
SpelledBy(s) == IF s.neg THEN -s.mag ELSE s.mag

LEMMA ParseIs ==
  ASSUME NEW w \in Nat, w > 1, NEW s, s.neg \in BOOLEAN, s.mag \in {NoDigits} \cup Nat,
         ParseInteger(w, s).exc = "none"
  PROVE  /\ s.mag \in Nat /\ ParseInteger(w, s).v \in Int /\ Fits(w, ParseInteger(w, s).v)
         /\ w = LongBits \/ Fits(w, SpelledBy(s)) => ParseInteger(w, s).v = SpelledBy(s)
<1>1. PICK h \in Nat : h > 1 /\ IntMin(w) = -h /\ IntMax(w) = h - 1 /\ Pow(2, w) = 2 * h
  BY WidthIs
<1>2. PICK long \in Nat : long = Pow(2, LongBits)
  BY WidthsAre, PowPos
<1>3. PICK m \in Nat : m = 2 * h /\ m > 0
  BY <1>1
<1>4. PICK temp : temp = strtoul(s) % Pow(2, w)
  OBVIOUS
<1>5. ParseInteger(w, s) =
        IF (s.mag # NoDigits /\ s.mag >= long) \/ temp > h - 1 + (IF s.neg THEN 1 ELSE 0)
        THEN Throw("range")
        ELSE IF s.mag = NoDigits \/ s.junk THEN Throw("invalid")
        ELSE Ok(IF s.neg THEN -temp ELSE temp)
  BY <1>1, <1>2, <1>4 DEF ParseInteger
<1>6. /\ ~(s.mag # NoDigits /\ s.mag >= long) /\ ~(temp > h - 1 + (IF s.neg THEN 1 ELSE 0))
      /\ s.mag # NoDigits /\ ParseInteger(w, s) = Ok(IF s.neg THEN -temp ELSE temp)
  BY <1>5 DEF Throw
<1>7. PICK mag \in Nat : mag = s.mag /\ mag < long
  BY <1>2, <1>6
<1>8. temp = mag % m
  BY <1>1, <1>2, <1>3, <1>4, <1>6, <1>7 DEF strtoul
<1>9. temp \in 0 .. m - 1 /\ mag \in Int
  BY <1>3, <1>8, DivMod
<1>10. PICK v : v = IF s.neg THEN -temp ELSE temp
  OBVIOUS
<1>11. v \in Int /\ Fits(w, v) /\ ParseInteger(w, s).v = v
  <2>1. CASE s.neg = TRUE
    BY <1>1, <1>6, <1>9, <1>10, <2>1 DEF Fits, Ok
  <2>2. CASE s.neg = FALSE
    BY <1>1, <1>6, <1>9, <1>10, <2>2 DEF Fits, Ok
  <2> QED
    BY <2>1, <2>2
<1>12. mag < m => temp = mag
  <2>1. m * 0 + mag = mag
    OBVIOUS
  <2>2. mag < m => mag \in 0 .. m - 1
    OBVIOUS
  <2> QED
    BY <1>3, <1>8, <2>1, <2>2, DivModUnique
<1>13. w = LongBits \/ Fits(w, SpelledBy(s)) => mag < m
  <2>1. w = LongBits => mag < m
    BY <1>1, <1>2, <1>3, <1>7
  <2>2. Fits(w, SpelledBy(s)) => mag < m
    <3>1. CASE s.neg = TRUE
      BY <1>1, <1>3, <1>7, <3>1 DEF Fits, SpelledBy
    <3>2. CASE s.neg = FALSE
      BY <1>1, <1>3, <1>7, <3>2 DEF Fits, SpelledBy
    <3> QED
      BY <3>1, <3>2
  <2> QED
    BY <2>1, <2>2
<1>14. temp = mag => v = SpelledBy(s)
  BY <1>7, <1>10 DEF SpelledBy
<1> QED
  BY <1>7, <1>11, <1>12, <1>13, <1>14

LEMMA TruncatedIs ==
  ASSUME NEW w \in Nat, w > 1, NEW n \in Int
  PROVE  Truncated(w, n) \in Int /\ Fits(w, Truncated(w, n)) /\ Fits(w, IntMin(w)) /\ IntMin(w) \in Int
<1>1. PICK h \in Nat : h > 1 /\ IntMin(w) = -h /\ IntMax(w) = h - 1
  BY WidthIs
<1> QED
  BY <1>1 DEF Truncated, Fits

(* The PHP values an integer class is given.                               *)
IntegerInput(c, z) ==
  \/ z.kind \in {"nan", "other"}
  \/ z.kind = "long" /\ z.n \in Int /\ Fits(LongBits, z.n)
  \/ z.kind = "double" /\ z.n \in Int
  \/ z.kind = "string" /\ z.s.neg \in BOOLEAN /\ z.s.mag \in {NoDigits} \cup Nat
  \/ z.kind = "same" /\ z.n \in Int /\ Fits(Width(c), z.n)

LEMMA IntegerInputs ==
  ASSUME NEW c \in Integer, NEW z \in Inputs(c)
  PROVE  IntegerInput(c, z)
<1>1. \/ z \in NoValue \/ z \in PhpInts
      \/ z \in [kind : {"double"}, n : -Pow(2, LongBits) .. Pow(2, LongBits)]
      \/ z \in [kind : {"string"}, s : Texts]
      \/ z \in [kind : {"same"}, n : IntMin(Width(c)) .. IntMax(Width(c))]
  BY DEF Inputs, Integer, Narrow, Numeric
<1>2. CASE z \in NoValue
  BY <1>2 DEF NoValue, IntegerInput
<1>3. CASE z \in PhpInts
  BY <1>3 DEF PhpInts, Longs, Fits, IntegerInput
<1>4. CASE z \in [kind : {"double"}, n : -Pow(2, LongBits) .. Pow(2, LongBits)]
  BY <1>4 DEF IntegerInput
<1>5. CASE z \in [kind : {"string"}, s : Texts]
  <2>1. z.kind = "string" /\ z.s \in Texts
    BY <1>5
  <2>2. z.s.neg \in BOOLEAN /\ z.s.mag \in {NoDigits} \cup (0 .. Pow(2, LongBits) + 1) \cup VarintMags
    BY <2>1 DEF Texts
  <2>3. z.s.mag \in {NoDigits} \cup Nat
    <3>1. VarintMags \subseteq Nat
      BY InputsAssumption
    <3>2. 0 .. Pow(2, LongBits) + 1 \subseteq Nat
      OBVIOUS
    <3> QED
      BY <2>2, <3>1, <3>2
  <2> QED
    BY <2>1, <2>2, <2>3 DEF IntegerInput
<1>6. CASE z \in [kind : {"same"}, n : IntMin(Width(c)) .. IntMax(Width(c))]
  BY <1>6 DEF Fits, IntegerInput
<1> QED
  BY <1>1, <1>2, <1>3, <1>4, <1>5, <1>6

(* The number that was given, where there is one.                          *)
Given(z, v) == CASE z.kind = "string" -> SpelledBy(z.s)
                 [] z.kind = "nan"    -> v
                 [] OTHER             -> z.n

LEMMA NarrowInitExact ==
  ASSUME NEW w \in Nat, w > 1, NEW c, Width(c) = w, NEW z, IntegerInput(c, z),
         NarrowInit(w, z).exc = "none"
  PROVE  /\ NarrowInit(w, z).v \in Int /\ Fits(w, NarrowInit(w, z).v)
         /\ \/ NarrowInit(w, z).v = Given(z, NarrowInit(w, z).v)
            \/ ~Fits(IntBits, Given(z, NarrowInit(w, z).v))
<1> DEFINE InRange(n) == IF Fits(w, n) THEN Ok(n) ELSE Throw("range")
<1>0. \A n, q : q = InRange(n) /\ q.exc = "none" =>
                  q = Ok(n) /\ q.v = n /\ n \in Int /\ Fits(w, n)
  BY DEF Fits, Throw, Ok
<1> HIDE DEF InRange
<1> PICK r : r = NarrowInit(w, z) /\ r.exc = "none"
  OBVIOUS
<1>1. CASE z.kind \in {"nan", "other"}
  <2>1. z.kind = "nan" => r = InRange(IntMin(IntBits))
    BY DEF NarrowInit, InRange
  <2>2. z.kind = "other" => r = Throw("invalid")
    BY DEF NarrowInit
  <2>3. z.kind = "nan" /\ r.v \in Int /\ Fits(w, r.v)
    BY <1>0, <1>1, <2>1, <2>2 DEF Throw, Ok
  <2> QED
    BY <2>3 DEF Given
<1>2. CASE z.kind = "long" /\ z.n \in Int /\ Fits(LongBits, z.n)
  <2>1. r = InRange(Wrap(IntBits, z.n))
    BY <1>2 DEF NarrowInit, InRange
  <2>2. Fits(IntBits, z.n) => Wrap(IntBits, z.n) = z.n
    BY <1>2, WidthsAre, WrapIs
  <2>3. r.v = Wrap(IntBits, z.n) /\ r.v \in Int /\ Fits(w, r.v)
    BY <1>0, <2>1
  <2>4. Given(z, r.v) = z.n
    BY <1>2 DEF Given
  <2> QED
    BY <2>2, <2>3, <2>4
<1>3. CASE z.kind = "double" /\ z.n \in Int
  <2>1. r = InRange(Truncated(IntBits, z.n))
    BY <1>3 DEF NarrowInit, InRange
  <2>2. Fits(IntBits, z.n) => Truncated(IntBits, z.n) = z.n
    BY DEF Truncated
  <2>3. r.v = Truncated(IntBits, z.n) /\ r.v \in Int /\ Fits(w, r.v)
    BY <1>0, <2>1
  <2>4. Given(z, r.v) = z.n
    BY <1>3 DEF Given
  <2> QED
    BY <2>2, <2>3, <2>4
<1>4. CASE z.kind = "string" /\ z.s.neg \in BOOLEAN /\ z.s.mag \in {NoDigits} \cup Nat
  <2>1. PICK p : p = ParseInteger(IntBits, z.s)
    OBVIOUS
  <2>2. r = IF p.exc = "none" THEN InRange(p.v) ELSE p
    BY <1>4, <2>1 DEF NarrowInit, InRange, php_driver_parse_int
  <2>3. p.exc = "none"
    BY <2>2
  <2>4. r = Ok(p.v) /\ p.v \in Int /\ Fits(w, p.v)
    BY <1>0, <2>2, <2>3
  <2>5. Fits(IntBits, SpelledBy(z.s)) => p.v = SpelledBy(z.s)
    BY <1>4, <2>1, <2>3, WidthsAre, ParseIs
  <2>6. Given(z, r.v) = SpelledBy(z.s)
    BY <1>4 DEF Given
  <2> QED
    BY <2>4, <2>5, <2>6 DEF Ok
<1>5. CASE z.kind = "same" /\ z.n \in Int /\ Fits(Width(c), z.n)
  <2>1. r = Ok(z.n)
    BY <1>5 DEF NarrowInit
  <2>2. Given(z, r.v) = z.n
    BY <1>5 DEF Given
  <2> QED
    BY <1>5, <2>1, <2>2 DEF Ok
<1> QED
  BY <1>1, <1>2, <1>3, <1>4, <1>5 DEF IntegerInput

LEMMA BigintInitExact ==
  ASSUME NEW z, IntegerInput("Bigint", z), Bigint_init(z).exc = "none"
  PROVE  /\ Bigint_init(z).v \in Int /\ Fits(LongBits, Bigint_init(z).v)
         /\ \/ Bigint_init(z).v = Given(z, Bigint_init(z).v)
            \/ z.kind = "double" /\ Given(z, Bigint_init(z).v) = Pow(2, LongBits - 1)
<1> PICK r : r = Bigint_init(z) /\ r.exc = "none"
  OBVIOUS
<1>0. PICK h \in Nat : /\ h > 1 /\ IntMin(LongBits) = -h /\ IntMax(LongBits) = h - 1
                       /\ Pow(2, LongBits - 1) = h
  BY WidthsAre, WidthIs
<1>1. CASE z.kind \in {"nan", "other"}
  <2>1. z.kind = "nan" => r = Ok(IntMin(LongBits))
    BY DEF Bigint_init
  <2>2. z.kind = "other" => r = Throw("invalid")
    BY DEF Bigint_init
  <2>3. z.kind = "nan" /\ r.v = IntMin(LongBits)
    BY <1>1, <2>1, <2>2 DEF Throw, Ok
  <2> QED
    BY <1>0, <2>3 DEF Given, Fits
<1>2. CASE z.kind = "long" /\ z.n \in Int /\ Fits(LongBits, z.n)
  <2>1. r = Ok(z.n)
    BY <1>2 DEF Bigint_init
  <2>2. Given(z, r.v) = z.n
    BY <1>2 DEF Given
  <2> QED
    BY <1>2, <2>1, <2>2 DEF Ok
<1>3. CASE z.kind = "double" /\ z.n \in Int
  <2>1. r = IF Abs(z.n) > h THEN Throw("range") ELSE Ok(Truncated(LongBits, z.n))
    BY <1>0, <1>3 DEF Bigint_init
  <2>2. ~(Abs(z.n) > h) /\ r.v = Truncated(LongBits, z.n)
    BY <2>1 DEF Throw, Ok
  <2>3. r.v \in Int /\ Fits(LongBits, r.v)
    BY <1>3, <2>2, WidthsAre, TruncatedIs
  <2>4. r.v = z.n \/ z.n = h
    BY <1>0, <1>3, <2>2 DEF Truncated, Fits, Abs
  <2>5. Given(z, r.v) = z.n
    BY <1>3 DEF Given
  <2> QED
    BY <1>0, <1>3, <2>3, <2>4, <2>5
<1>4. CASE z.kind = "string" /\ z.s.neg \in BOOLEAN /\ z.s.mag \in {NoDigits} \cup Nat
  <2>1. r = ParseInteger(LongBits, z.s)
    BY <1>4 DEF Bigint_init, php_driver_parse_bigint
  <2>2. r.v \in Int /\ Fits(LongBits, r.v) /\ r.v = SpelledBy(z.s)
    BY <1>4, <2>1, WidthsAre, ParseIs
  <2>3. Given(z, r.v) = SpelledBy(z.s)
    BY <1>4 DEF Given
  <2> QED
    BY <2>2, <2>3
<1>5. CASE z.kind = "same" /\ z.n \in Int /\ Fits(Width("Bigint"), z.n)
  <2>1. r = Ok(z.n)
    BY <1>5 DEF Bigint_init
  <2>2. Given(z, r.v) = z.n
    BY <1>5 DEF Given
  <2>3. Fits(LongBits, z.n)
    BY <1>5 DEF Width
  <2> QED
    BY <1>5, <2>1, <2>2, <2>3 DEF Ok
<1> QED
  BY <1>1, <1>2, <1>3, <1>4, <1>5 DEF IntegerInput

LEMMA VarintInitExact ==
  ASSUME NEW z, IntegerInput("Varint", z), Varint_init(z).exc = "none"
  PROVE  Varint_init(z).v \in Int /\ Varint_init(z).v = Given(z, Varint_init(z).v)
<1> PICK r : r = Varint_init(z) /\ r.exc = "none"
  OBVIOUS
<1>1. z.kind \notin {"nan", "other"}
  BY DEF Varint_init, Throw
<1>2. CASE z.kind \in {"long", "double", "same"} /\ z.n \in Int
  <2>1. r = Ok(z.n)
    BY <1>2 DEF Varint_init
  <2>2. Given(z, r.v) = z.n
    BY <1>2 DEF Given
  <2> QED
    BY <1>2, <2>1, <2>2 DEF Ok
<1>3. CASE z.kind = "string" /\ z.s.neg \in BOOLEAN /\ z.s.mag \in {NoDigits} \cup Nat
  <2>1. r = php_driver_parse_varint(z.s)
    BY <1>3 DEF Varint_init
  <2>2. z.s.mag # NoDigits /\ r = Ok(SpelledBy(z.s))
    BY <2>1 DEF php_driver_parse_varint, Throw, SpelledBy
  <2>3. SpelledBy(z.s) \in Int
    BY <1>3, <2>2 DEF SpelledBy
  <2>4. Given(z, r.v) = SpelledBy(z.s)
    BY <1>3 DEF Given
  <2> QED
    BY <2>2, <2>3, <2>4 DEF Ok
<1> QED
  BY <1>1, <1>2, <1>3 DEF IntegerInput

(* A double and a text become decimals.                                    *)
LEMMA FromDoubleIs ==
  ASSUME NEW m \in Int, NEW k \in Nat
  PROVE  from_double(m, k) \in [v : Int, scale : Int]
<1>1. PICK S : S = {h \in Nat : h = k \/ (m \div Pow(2, h)) % 2 # 0}
  OBVIOUS
<1>2. k \in S
  BY <1>1
<1>3. PICK h \in S : \A j \in S : h <= j
  BY <1>1, <1>2, FirstIn
<1>4. \A i \in 0 .. h - 1 : (m \div Pow(2, i)) % 2 = 0
  <2>1. ASSUME NEW i \in 0 .. h - 1 PROVE (m \div Pow(2, i)) % 2 = 0
    <3>1. i \in Nat /\ i \notin S
      BY <1>1, <1>3
    <3> QED
      BY <1>1, <3>1
  <2> QED
    BY <2>1
<1>5. h \in 0 .. k /\ (h = k \/ (m \div Pow(2, h)) % 2 # 0)
  BY <1>1, <1>2, <1>3
<1>6. PICK g : g = Halvings(m, k)
  OBVIOUS
<1>7. g \in 0 .. k
  BY <1>4, <1>5, <1>6 DEF Halvings
<1>8. PICK p \in Nat : p = Pow(2, g) /\ p > 0
  BY <1>7, PowPos
<1>9. m \div p \in Int
  BY <1>8, DivMod
<1>10. Pow(5, k - g) \in Int
  <2>1. k - g \in Nat
    BY <1>7
  <2> QED
    BY <2>1, PowInt
<1>11. (m \div p) * Pow(5, k - g) \in Int /\ k - g \in Int
  BY <1>7, <1>9, <1>10
<1> QED
  BY <1>6, <1>8, <1>11 DEF from_double, Decimal

LEMMA ParseDecimalIs ==
  ASSUME NEW t, t.int \in Seq(0 .. 9), t.frac \in Seq(0 .. 9), t.exp \in Int,
         php_driver_parse_decimal(t).exc = "none"
  PROVE  php_driver_parse_decimal(t).v \in [v : Int, scale : Int]
<1>1. PICK ds : ds = t.int \o t.frac
  OBVIOUS
<1>2. ds \in Seq(Int)
  <2>1. ds \in Seq(0 .. 9)
    BY <1>1, ConcatProperties
  <2>2. 0 .. 9 \subseteq Int
    OBVIOUS
  <2> QED
    BY <2>1, <2>2
<1>3. Spelled(ds, 8) \in Int /\ Spelled(ds, 10) \in Int
  <2>1. \A b \in Int : Spelled(ds, b) \in Int
    BY <1>2, SpelledInt
  <2> QED
    BY <2>1
<1>4. PICK s \in {-1, 1}, b \in {8, 10} :
        \/ php_driver_parse_decimal(t) = Throw("invalid")
        \/ php_driver_parse_decimal(t) = Ok([v |-> s * Spelled(ds, b), scale |-> 0])
        \/ php_driver_parse_decimal(t) =
             Ok([v |-> s * Spelled(ds, b),
                 scale |-> Len(t.frac) - (IF t.exp = NoExponent THEN 0 ELSE t.exp)])
  BY <1>1 DEF php_driver_parse_decimal
<1>5. s * Spelled(ds, b) \in Int
  BY <1>3
<1>6. Len(t.frac) - (IF t.exp = NoExponent THEN 0 ELSE t.exp) \in Int
  BY LenProperties
<1> QED
  BY <1>4, <1>5, <1>6 DEF Throw, Ok

LEMMA DecimalInitIs ==
  ASSUME NEW z \in Inputs("Decimal"), Decimal_init(z).exc = "none"
  PROVE  Decimal_init(z).v \in [v : Int, scale : Int]
<1>1. \/ z \in NoValue \/ z \in PhpInts \/ z \in [kind : {"text"}, t : DecimalTexts]
      \/ z \in {[kind |-> "fraction", m |-> f.m, k |-> f.k] : f \in Fractions}
  BY DEF Inputs, Numeric, Integer, Narrow
<1>2. CASE z \in NoValue
  BY <1>2 DEF NoValue, Decimal_init, Throw
<1>3. CASE z \in PhpInts
  <2>1. z.kind = "long" /\ z.n \in Int
    BY <1>3 DEF PhpInts, Longs
  <2>2. Decimal_init(z) = Ok(Decimal(z.n, 0))
    BY <2>1 DEF Decimal_init
  <2> QED
    BY <2>1, <2>2 DEF Decimal, Ok
<1>4. CASE z \in [kind : {"text"}, t : DecimalTexts]
  <2>1. z.kind = "text" /\ z.t \in DecimalTexts
    BY <1>4
  <2>2. Decimal_init(z) = php_driver_parse_decimal(z.t)
    BY <2>1 DEF Decimal_init
  <2>3. /\ z.t.int \in IntParts /\ z.t.frac \in FracParts
        /\ z.t.exp \in {NoExponent, MissingExponent} \cup Exponents
    BY <2>1 DEF DecimalTexts
  <2>4. IntParts \subseteq Seq(0 .. 9) /\ FracParts \subseteq Seq(0 .. 9) /\ Exponents \subseteq Int
    BY InputsAssumption
  <2>5. z.t.exp \in Int
    <3>1. NoExponent \in Int /\ MissingExponent \in Int
      BY DEF NoExponent, MissingExponent
    <3>2. z.t.exp \in {NoExponent, MissingExponent} \cup Exponents /\ Exponents \subseteq Int
      BY <2>3, <2>4
    <3> QED
      BY <3>1, <3>2, Zenon
  <2> QED
    BY <2>2, <2>3, <2>4, <2>5, ParseDecimalIs
<1>5. CASE z \in {[kind |-> "fraction", m |-> f.m, k |-> f.k] : f \in Fractions}
  <2>1. PICK f \in Fractions : z = [kind |-> "fraction", m |-> f.m, k |-> f.k]
    BY <1>5
  <2>2. f \in [m : Int, k : Nat]
    BY InputsAssumption
  <2>3. Decimal_init(z) = Ok(from_double(f.m, f.k))
    BY <2>1 DEF Decimal_init
  <2> QED
    BY <2>2, <2>3, FromDoubleIs DEF Ok
<1> QED
  BY <1>1, <1>2, <1>3, <1>4, <1>5

-----------------------------------------------------------------------------
(* The values of a class.                                                  *)

IsDuration(v) ==
  /\ v = <<v[1], v[2], v[3]>>
  /\ v[1] \in Int /\ Fits(IntBits, v[1]) /\ v[2] \in Int /\ Fits(IntBits, v[2])
  /\ v[3] \in Int /\ Fits(LongBits, v[3])
  /\ SameSign({v[1], v[2], v[3]})

IsValue(c, v) ==
  /\ c \in FixedWidth => v \in Int /\ Fits(Width(c), v)
  /\ c \in {"Varint", "Date", "Timeuuid"} => v \in Int
  /\ c = "Decimal" => v \in [v : Int, scale : Int]
  /\ c = "Time" => v \in 0 .. LastNs
  /\ c = "Timestamp" => v \in Int /\ Fits(LongBits, v)
  /\ c = "Duration" => IsDuration(v)
  /\ c = "Blob" => v \in Seq(0 .. 255)

Holds(c, s) == s = <<>> \/ \E v : s = <<v>> /\ IsValue(c, v)

(* self and num hold values of the class.                                  *)
VInv == /\ Holds(cls, self) /\ Holds(cls, num)
        /\ num # <<>> => cls \in Numeric /\ self # <<>>

LEMMA UnitsAre ==
  /\ Milli \in Nat /\ Milli > 0 /\ DaySeconds \in Nat /\ DaySeconds > 0
  /\ NsPerSecond \in Nat /\ NsPerSecond > 0
BY UnitsAssumption

(* Whatever a constructor returns is a value of its class, and the number  *)
(* that it was given.                                                      *)
LEMMA InitIsValue ==
  ASSUME NEW c, NEW z \in Inputs(c), NEW r \in Init_(c, z), r.exc = "none"
  PROVE  IsValue(c, r.v)
<1>1. CASE c = "Tinyint"
  <2>1. r = NarrowInit(TinyBits, z) /\ Width(c) = TinyBits
    BY <1>1 DEF Init_, Tinyint_init, Width
  <2>2. c \in Integer
    BY <1>1 DEF Integer, Narrow
  <2>3. r.v \in Int /\ Fits(Width(c), r.v)
    BY <2>1, <2>2, IntegerInputs, NarrowInitExact, WidthsAre
  <2> QED
    BY <1>1, <2>3 DEF IsValue
<1>2. CASE c = "Smallint"
  <2>1. r = NarrowInit(SmallBits, z) /\ Width(c) = SmallBits
    BY <1>2 DEF Init_, Smallint_init, Width
  <2>2. c \in Integer
    BY <1>2 DEF Integer, Narrow
  <2>3. r.v \in Int /\ Fits(Width(c), r.v)
    BY <2>1, <2>2, IntegerInputs, NarrowInitExact, WidthsAre
  <2> QED
    BY <1>2, <2>3 DEF IsValue
<1>3. CASE c = "Bigint"
  <2>1. r = Bigint_init(z) /\ Width(c) = LongBits
    BY <1>3 DEF Init_, Width
  <2>2. c \in Integer
    BY <1>3 DEF Integer, Narrow
  <2>3. r.v \in Int /\ Fits(Width(c), r.v)
    BY <1>3, <2>1, <2>2, IntegerInputs, BigintInitExact
  <2> QED
    BY <1>3, <2>3 DEF IsValue
<1>4. CASE c = "Varint"
  <2>1. r = Varint_init(z) /\ c \in Integer
    BY <1>4 DEF Init_, Integer, Narrow
  <2>2. r.v \in Int
    BY <1>4, <2>1, IntegerInputs, VarintInitExact
  <2> QED
    BY <1>4, <2>2 DEF IsValue, FixedWidth, Narrow
<1>5. CASE c = "Decimal"
  <2>1. r = Decimal_init(z)
    BY <1>5 DEF Init_
  <2>2. r.v \in [v : Int, scale : Int]
    BY <1>5, <2>1, DecimalInitIs
  <2> QED
    BY <1>5, <2>2 DEF IsValue, FixedWidth, Narrow
<1>6. CASE c = "Time"
  <2>1. r = Time_init(z)
    BY <1>6 DEF Init_
  <2>2. r.v \in 0 .. LastNs
    BY <2>1 DEF Time_init, Throw
  <2> QED
    BY <1>6, <2>2 DEF IsValue, FixedWidth, Narrow
<1>7. CASE c = "Date"
  <2>1. r = Date_init(z)
    BY <1>7 DEF Init_
  <2>2. z \in NoValue \/ z \in [kind : {"long"}, n : Seconds]
    BY <1>7 DEF Inputs, Numeric, Integer, Narrow
  <2>3. z.kind = "long" /\ r = Ok(cass_date_from_epoch(z.n))
    BY <2>1 DEF Date_init, Throw
  <2>4. z.n \in Int
    <3>1. Seconds \subseteq Int
      BY InputsAssumption
    <3>2. z \in [kind : {"long"}, n : Seconds]
      BY <2>2, <2>3 DEF NoValue
    <3>3. z.n \in Seconds
      BY <3>2
    <3> QED
      BY <3>1, <3>3
  <2>5. r.v \in Int
    BY <2>3, <2>4, UnitsAre DEF cass_date_from_epoch, Ok
  <2> QED
    BY <1>7, <2>5 DEF IsValue, FixedWidth, Narrow
<1>8. CASE c = "Timeuuid"
  <2>1. r = Timeuuid_init(z)
    BY <1>8 DEF Init_
  <2>2. \/ z \in NoValue \/ z \in {[kind |-> "none"]} \/ z \in [kind : {"uuid"}, version : 1 .. 5]
        \/ z \in [kind : {"long"}, n : {-1, 3}]
    BY <1>8 DEF Inputs, Numeric, Integer, Narrow
  <2>3. r.v \in Int
    BY <2>1, <2>2 DEF Timeuuid_init, Throw, Ok, NoValue
  <2> QED
    BY <1>8, <2>3 DEF IsValue, FixedWidth, Narrow
<1>9. CASE c \in {"Float", "Uuid"}
  BY <1>9 DEF IsValue, FixedWidth, Narrow
<1>10. c \in Numeric \cup {"Date", "Time", "Uuid", "Timeuuid"}
  BY DEF Inputs, Numeric, Integer, Narrow
<1> QED
  BY <1>1, <1>2, <1>3, <1>4, <1>5, <1>6, <1>7, <1>8, <1>9, <1>10 DEF Numeric, Integer, Narrow

-----------------------------------------------------------------------------
(* The methods of the fixed widths.                                        *)

LEMMA ExactResult ==
  ASSUME NEW op, NEW a, NEW b, NEW r,
         r \in {InRangeOr(Width(cls), Exact(op, a, b)), Ok(Exact(op, a, b))}
  PROVE  FixedWidthExact(op, a, b, r)
<1>1. PICK e : e = Exact(op, a, b)
  OBVIOUS
<1>2. r = Ok(e) \/ (r = Throw("range") /\ ~Fits(Width(cls), e))
  BY <1>1 DEF InRangeOr
<1>3. CASE r = Ok(e)
  BY <1>1, <1>3 DEF FixedWidthExact, Ok
<1>4. CASE r = Throw("range") /\ ~Fits(Width(cls), e)
  BY <1>1, <1>4 DEF FixedWidthExact, Throw
<1> QED
  BY <1>2, <1>3, <1>4

LEMMA NarrowBinary ==
  ASSUME cls \in Narrow, NEW w, w = Width(cls), NEW a, NEW b
  PROVE  /\ Binary(cls, "add", a, b) = {NarrowAdd(w, a, b)}
         /\ Binary(cls, "sub", a, b) = {NarrowSub(w, a, b)}
         /\ Binary(cls, "mul", a, b) = {NarrowMul(w, a, b)}
         /\ Binary(cls, "div", a, b) = {NarrowDiv(w, a, b)}
         /\ Binary(cls, "mod", a, b) = {NarrowMod(w, a, b)}
         /\ Binary(cls, "compare", a, b) = {Ok(Sign(a - b))}
<1>1. CASE cls = "Tinyint"
  <2>1. w = TinyBits
    BY <1>1 DEF Width
  <2>2. /\ Binary(cls, "add", a, b) = {NarrowAdd(w, a, b)}
        /\ Binary(cls, "sub", a, b) = {NarrowSub(w, a, b)}
        /\ Binary(cls, "mul", a, b) = {NarrowMul(w, a, b)}
    BY <1>1, <2>1 DEF Binary, Tinyint_add, Tinyint_sub, Tinyint_mul
  <2>3. /\ Binary(cls, "div", a, b) = {NarrowDiv(w, a, b)}
        /\ Binary(cls, "mod", a, b) = {NarrowMod(w, a, b)}
        /\ Binary(cls, "compare", a, b) = {Ok(Sign(a - b))}
    BY <1>1, <2>1 DEF Binary, Tinyint_div, Tinyint_mod, Tinyint_compare
  <2> QED
    BY <2>2, <2>3
<1>2. CASE cls = "Smallint"
  <2>1. w = SmallBits
    BY <1>2 DEF Width
  <2>2. /\ Binary(cls, "add", a, b) = {NarrowAdd(w, a, b)}
        /\ Binary(cls, "sub", a, b) = {NarrowSub(w, a, b)}
        /\ Binary(cls, "mul", a, b) = {NarrowMul(w, a, b)}
    BY <1>2, <2>1 DEF Binary, Smallint_add, Smallint_sub, Smallint_mul
  <2>3. /\ Binary(cls, "div", a, b) = {NarrowDiv(w, a, b)}
        /\ Binary(cls, "mod", a, b) = {NarrowMod(w, a, b)}
        /\ Binary(cls, "compare", a, b) = {Ok(Sign(a - b))}
    BY <1>2, <2>1 DEF Binary, Smallint_div, Smallint_mod, Smallint_compare
  <2> QED
    BY <2>2, <2>3
<1> QED
  BY <1>1, <1>2 DEF Narrow

LEMMA NarrowExact ==
  ASSUME cls \in Narrow, NEW a \in Int, NEW b \in Int, Fits(Width(cls), a), Fits(Width(cls), b),
         NEW op \in BinaryOps \ {"mod"}, NEW r \in Binary(cls, op, a, b)
  PROVE  FixedWidthExact(op, a, b, r)
<1>1. PICK w \in Nat : w = Width(cls) /\ w > 1
  BY WidthsAre DEF Width, Narrow
<1>2. CASE op = "add"
  <2>1. r = InRangeOr(w, a + b)
    <3>1. r = NarrowAdd(w, a, b)
      BY <1>1, <1>2, NarrowBinary
    <3>2. Fits(w, a) /\ Fits(w, b)
      BY <1>1
    <3>3. NarrowAdd(w, a, b) = InRangeOr(w, a + b)
      BY <1>1, <3>2, NarrowAddExact
    <3> QED
      BY <3>1, <3>3
  <2> QED
    BY <1>1, <1>2, <2>1, ExactResult DEF Exact
<1>3. CASE op = "sub"
  <2>1. r = InRangeOr(w, a - b)
    <3>1. r = NarrowSub(w, a, b)
      BY <1>1, <1>3, NarrowBinary
    <3>2. Fits(w, a) /\ Fits(w, b)
      BY <1>1
    <3>3. NarrowSub(w, a, b) = InRangeOr(w, a - b)
      BY <1>1, <3>2, NarrowAddExact
    <3> QED
      BY <3>1, <3>3
  <2> QED
    BY <1>1, <1>3, <2>1, ExactResult DEF Exact
<1>4. CASE op = "mul"
  <2>1. r = InRangeOr(w, a * b)
    <3>1. r = NarrowMul(w, a, b)
      BY <1>1, <1>4, NarrowBinary
    <3>2. Fits(w, a) /\ Fits(w, b)
      BY <1>1
    <3>3. NarrowMul(w, a, b) = InRangeOr(w, a * b)
      BY <1>1, <3>2, NarrowMulExact
    <3> QED
      BY <3>1, <3>3
  <2> QED
    BY <1>1, <1>4, <2>1, ExactResult DEF Exact
<1>5. CASE op = "div"
  <2>1. r = NarrowDiv(w, a, b)
    BY <1>1, <1>5, NarrowBinary
  <2>2. CASE b = 0
    <3>1. r = Throw("divide_by_zero")
      BY <2>1, <2>2 DEF NarrowDiv
    <3> QED
      BY <2>2, <3>1 DEF FixedWidthExact, Throw
  <2>3. CASE b # 0 /\ ~(a = IntMin(w) /\ b = -1)
    <3>1. r = Ok(Quot(a, b))
      BY <1>1, <2>1, <2>3, NarrowDivExact
    <3>2. Exact(op, a, b) = Quot(a, b)
      BY <1>5 DEF Exact
    <3> QED
      BY <3>1, <3>2, ExactResult
  <2>4. CASE a = IntMin(w) /\ b = -1
    <3>1. r.exc = "none"
      BY <1>1, <2>1, <2>4, NarrowDivExact
    <3> QED
      BY <1>1, <1>5, <2>4, <3>1 DEF FixedWidthExact
  <2> QED
    BY <2>2, <2>3, <2>4
<1>6. CASE op = "compare"
  <2>1. r = Ok(Sign(a - b))
    BY <1>1, <1>6, NarrowBinary
  <2> QED
    BY <1>6, <2>1, ExactResult DEF Exact
<1> QED
  BY <1>2, <1>3, <1>4, <1>5, <1>6 DEF BinaryOps

(* Bigint: right, or right modulo 2^64, or the trap.                       *)
LEMMA ModuloResult ==
  ASSUME cls = "Bigint", NEW op \in {"add", "sub", "mul", "neg"}, NEW a, NEW b,
         Exact(op, a, b) \in Int, NEW r, r = Ok(Wrap(LongBits, Exact(op, a, b)))
  PROVE  FixedWidthExact(op, a, b, r)
<1>1. PICK e \in Int : e = Exact(op, a, b)
  OBVIOUS
<1>2. r = Ok(Wrap(LongBits, e))
  BY <1>1
<1>3. r.exc = "none" /\ r.v = Wrap(LongBits, e)
  BY <1>2 DEF Ok
<1>4. (r.v - e) % Pow(2, LongBits) = 0
  BY <1>3, WidthsAre, WrapModulo
<1>5. Width(cls) = LongBits
  BY DEF Width
<1> QED
  BY <1>1, <1>3, <1>4, <1>5 DEF FixedWidthExact

LEMMA BigintExact ==
  ASSUME cls = "Bigint", NEW a \in Int, NEW b \in Int, Fits(LongBits, a), Fits(LongBits, b),
         NEW op \in BinaryOps \ {"mod"}, NEW r \in Binary(cls, op, a, b)
  PROVE  FixedWidthExact(op, a, b, r)
<1>1. CASE op = "add"
  <2>1. r = Ok(Wrap(LongBits, a + b)) /\ Exact(op, a, b) = a + b
    BY <1>1 DEF Binary, Bigint_add, Exact
  <2> QED
    BY <1>1, <2>1, ModuloResult
<1>2. CASE op = "sub"
  <2>1. r = Ok(Wrap(LongBits, a - b)) /\ Exact(op, a, b) = a - b
    BY <1>2 DEF Binary, Bigint_sub, Exact
  <2> QED
    BY <1>2, <2>1, ModuloResult
<1>3. CASE op = "mul"
  <2>1. r = Ok(Wrap(LongBits, a * b)) /\ Exact(op, a, b) = a * b /\ a * b \in Int
    BY <1>3 DEF Binary, Bigint_mul, Exact
  <2> QED
    BY <1>3, <2>1, ModuloResult
<1>4. CASE op = "div"
  <2>1. r = IF b = 0 THEN Throw("divide_by_zero")
            ELSE IF a = IntMin(LongBits) /\ b = -1 THEN Throw("SIGFPE") ELSE Ok(Quot(a, b))
    BY <1>4 DEF Binary, Bigint_div, Trap
  <2>2. Exact(op, a, b) = Quot(a, b) /\ Width(cls) = LongBits
    BY <1>4 DEF Exact, Width
  <2>3. CASE r = Ok(Quot(a, b))
    BY <2>2, <2>3, ExactResult
  <2>4. CASE r = Throw("divide_by_zero") /\ b = 0
    BY <2>4 DEF FixedWidthExact, Throw
  <2>5. CASE r = Throw("SIGFPE") /\ a = IntMin(LongBits) /\ b = -1
    BY <2>2, <2>5 DEF FixedWidthExact, Throw
  <2> QED
    BY <2>1, <2>3, <2>4, <2>5
<1>5. CASE op = "compare"
  <2>1. r = Ok(Sign(a - b)) /\ Exact(op, a, b) = Sign(a - b)
    BY <1>5 DEF Binary, Bigint_compare, Exact
  <2> QED
    BY <2>1, ExactResult
<1> QED
  BY <1>1, <1>2, <1>3, <1>4, <1>5 DEF BinaryOps

LEMMA AbsFits ==
  ASSUME NEW w \in Nat, w > 1, NEW a \in Int, Fits(w, a)
  PROVE  /\ a = IntMin(w) => ~Fits(w, Abs(a)) /\ ~Fits(w, -a)
         /\ a # IntMin(w) => Fits(w, Abs(a)) /\ Fits(w, -a)
<1>1. PICK h \in Nat : h > 1 /\ IntMin(w) = -h /\ IntMax(w) = h - 1
  BY WidthIs
<1> QED
  BY <1>1 DEF Fits, Abs

-----------------------------------------------------------------------------
(* Square roots, by way of doubles.                                        *)

LEMMA SquareOrder ==
  ASSUME NEW a \in Nat, NEW b \in Nat
  PROVE  a * a < b * b => a < b
<1> SUFFICES ASSUME b <= a PROVE b * b <= a * a
  <2>1. a * a \in Int /\ b * b \in Int
    OBVIOUS
  <2> QED
    BY <2>1
<1>1. b * b <= a * b
  OBVIOUS
<1>2. a * b <= a * a
  OBVIOUS
<1>3. a * a \in Int /\ b * b \in Int /\ a * b \in Int
  OBVIOUS
<1> QED
  BY <1>1, <1>2, <1>3

LEMMA RootIs ==
  ASSUME NEW n \in Nat
  PROVE  \E r \in Nat : r = ISqrt(n) /\ r * r <= n /\ n < (r + 1) * (r + 1)
<1>1. PICK S : S = {k \in Nat : n < (k + 1) * (k + 1)}
  OBVIOUS
<1>2. n \in S
  <2>1. (n + 1) * (n + 1) = n * n + 2 * n + 1 /\ n * n \in Nat
    OBVIOUS
  <2>2. n < (n + 1) * (n + 1)
    BY <2>1
  <2> QED
    BY <1>1, <2>2
<1>3. PICK k \in S : \A j \in S : k <= j
  BY <1>1, <1>2, FirstIn
<1>4. k * k <= n
  <2>1. CASE k = 0
    BY <2>1
  <2>2. CASE k # 0
    <3>1. PICK j \in Nat : j = k - 1 /\ k = j + 1
      BY <1>1, <2>2
    <3>2. j \notin S
      BY <1>3, <3>1
    <3>3. ~(n < (j + 1) * (j + 1)) /\ (j + 1) * (j + 1) \in Int
      BY <1>1, <3>2
    <3> QED
      BY <3>1, <3>3
  <2> QED
    BY <2>1, <2>2
<1>5. k \in 0 .. n
  BY <1>1, <1>2, <1>3
<1>6. k * k <= n /\ n < (k + 1) * (k + 1)
  BY <1>1, <1>4
<1>7. PICK r : r = ISqrt(n)
  OBVIOUS
<1>8. r \in 0 .. n /\ r * r <= n /\ n < (r + 1) * (r + 1)
  BY <1>5, <1>6, <1>7 DEF ISqrt
<1> QED
  BY <1>7, <1>8

(* The nearest integer to the square root of x.                            *)
LEMMA NearestRoot ==
  ASSUME NEW x \in Nat
  PROVE  \E k \in Nat :
           /\ k = IF x <= ISqrt(x) * ISqrt(x) + ISqrt(x) THEN ISqrt(x) ELSE ISqrt(x) + 1
           /\ \A t \in Nat : t > 0 => IF x > t * t - t THEN k >= t ELSE k < t
<1>1. PICK s \in Nat : s = ISqrt(x) /\ s * s <= x /\ x < (s + 1) * (s + 1)
  BY RootIs
<1>2. PICK k \in Nat : k = IF x <= s * s + s THEN s ELSE s + 1
  OBVIOUS
<1>3. x <= k * k + k /\ (k > 0 => x > k * k - k)
  <2>1. s * s \in Nat /\ (s + 1) * (s + 1) = s * s + 2 * s + 1
    OBVIOUS
  <2>2. CASE x <= s * s + s
    BY <1>1, <1>2, <2>1, <2>2
  <2>3. CASE ~(x <= s * s + s)
    BY <1>1, <1>2, <2>1, <2>3
  <2> QED
    BY <2>2, <2>3
<1>4. ASSUME NEW t \in Nat, t > 0 PROVE IF x > t * t - t THEN k >= t ELSE k < t
  <2>0. k * k \in Int /\ t * t \in Int
    OBVIOUS
  <2>1. ASSUME k < t PROVE ~(x > t * t - t)
    <3>1. PICK d \in Nat : t = k + 1 + d
      <4>1. t - k - 1 \in Nat /\ t = k + 1 + (t - k - 1)
        BY <2>1
      <4> QED
        BY <4>1
    <3>2. (k + 1 + d) * (k + 1 + d) = k * k + 2 * (k * d) + d * d + 2 * k + 2 * d + 1
      OBVIOUS
    <3>3. t * t = k * k + 2 * (k * d) + d * d + 2 * k + 2 * d + 1
      BY <3>1, <3>2
    <3>4. k * d \in Nat /\ d * d \in Nat
      OBVIOUS
    <3>5. t * t - t >= k * k + k
      BY <2>0, <3>1, <3>3, <3>4
    <3> QED
      BY <1>3, <2>0, <3>5
  <2>2. ASSUME k >= t PROVE x > t * t - t
    <3>1. PICK d \in Nat : k = t + d
      <4>1. k - t \in Nat /\ k = t + (k - t)
        BY <2>2
      <4> QED
        BY <4>1
    <3>2. (t + d) * (t + d) = t * t + 2 * (t * d) + d * d
      OBVIOUS
    <3>3. k * k = t * t + 2 * (t * d) + d * d
      BY <3>1, <3>2
    <3>4. t * d >= d /\ d * d \in Nat /\ t * d \in Nat
      BY <1>4
    <3>5. k * k - k >= t * t - t
      BY <2>0, <3>1, <3>3, <3>4
    <3> QED
      BY <1>3, <1>4, <2>0, <2>2, <3>5
  <2> QED
    BY <2>1, <2>2
<1> QED
  BY <1>1, <1>2, <1>4

(* Cutting off what is behind the point.                                   *)
LEMMA CutOff ==
  ASSUME NEW u \in Nat, u > 0, NEW r \in Nat, NEW k \in Nat, k >= r * u
  PROVE  /\ k < (r + 1) * u => k \div u = r
         /\ k < (r + 2) * u => k \div u \in {r, r + 1}
<1>1. PICK e \in Nat : e = k - r * u
  <2>1. r * u \in Int
    OBVIOUS
  <2> QED
    BY <2>1
<1>2. k = u * r + e
  <2>1. r * u = u * r /\ r * u \in Int
    OBVIOUS
  <2> QED
    BY <1>1, <2>1
<1>3. u * (r + 1) = u * r + u /\ (r + 1) * u = u * r + u /\ (r + 2) * u = u * r + 2 * u
  OBVIOUS
<1>4. u * r \in Int
  OBVIOUS
<1>5. e < u => k \div u = r
  <2>1. e < u => e \in 0 .. u - 1
    OBVIOUS
  <2> QED
    BY <1>2, <2>1, DivModUnique
<1>6. e >= u /\ e < 2 * u => k \div u = r + 1
  <2>1. e >= u /\ e < 2 * u => e - u \in 0 .. u - 1
    OBVIOUS
  <2>2. k = u * (r + 1) + (e - u)
    BY <1>2, <1>3, <1>4
  <2>3. r + 1 \in Int
    OBVIOUS
  <2> QED
    BY <2>1, <2>2, <2>3, DivModUnique
<1> QED
  BY <1>2, <1>3, <1>4, <1>5, <1>6

LEMMA DoubleBitsAre == DoubleBits \in Nat /\ DoubleBits >= 3 /\ LongBits <= 2 * DoubleBits
BY WidthsAssumption

(* A double is within half a unit of the last place of the long it is      *)
(* converted from, and is no shorter.                                      *)
LEMMA ToDoubleIs ==
  ASSUME NEW a \in Nat
  PROVE  /\ Places(a, 2) <= DoubleBits => ToDouble(a) = a
         /\ Places(a, 2) > DoubleBits =>
              \E m \in Nat, h \in Nat :
                /\ ToDouble(a) = m /\ h = Pow(2, Places(a, 2) - DoubleBits - 1)
                /\ a - h <= m /\ m <= a + h
                /\ Pow(2, Places(a, 2) - 1) <= m /\ m <= Pow(2, Places(a, 2))
<1>1. CASE Places(a, 2) <= DoubleBits
  <2>1. ToDouble(a) = a
    BY <1>1 DEF ToDouble
  <2>2. Places(a, 2) \in Nat
    BY PlacesIs
  <2> QED
    BY <1>1, <2>1, <2>2, DoubleBitsAre
<1>2. CASE ~(Places(a, 2) <= DoubleBits)
  <2>1. PICK n \in Nat, p \in Nat, q \in Nat :
          n = Places(a, 2) /\ p = DoubleBits /\ q = n - p - 1 /\ n = p + q + 1 /\ p >= 3
    <3>1. PICK n \in Nat : n = Places(a, 2) /\ n > DoubleBits
      BY <1>2, PlacesIs, DoubleBitsAre
    <3>2. n - DoubleBits - 1 \in Nat /\ n = DoubleBits + (n - DoubleBits - 1) + 1
      BY <3>1, DoubleBitsAre
    <3> QED
      BY <3>1, <3>2, DoubleBitsAre
  <2>2. a < Pow(2, n) /\ Pow(2, n - 1) <= a
    BY <2>1, PlacesIs
  <2>3. PICK h \in Nat : h = Pow(2, q) /\ h > 0
    BY PowPos
  <2>4. PICK u \in Nat : u = Pow(2, q + 1) /\ u = 2 * h
    BY <2>3, PowNext
  <2>5. PICK t \in Nat : t = Pow(2, p - 1) /\ t > 0 /\ Pow(2, p) = 2 * t
    <3>1. p - 1 \in Nat /\ (p - 1) + 1 = p
      BY <2>1
    <3>2. Pow(2, p - 1) \in Nat /\ Pow(2, p - 1) > 0
      BY <3>1, PowPos
    <3>3. Pow(2, p) = 2 * Pow(2, p - 1)
      BY <3>1, PowNext
    <3> QED
      BY <3>2, <3>3
  <2>6. Pow(2, n - 1) = t * u /\ Pow(2, n) = 2 * (t * u)
    <3>1. n - 1 = (p - 1) + (q + 1) /\ n = p + (q + 1) /\ p - 1 \in Nat /\ q + 1 \in Nat
      BY <2>1
    <3>2. Pow(2, n - 1) = t * u
      BY <2>4, <2>5, <3>1, PowAdd
    <3>3. Pow(2, n) = (2 * t) * u
      BY <2>4, <2>5, <3>1, PowAdd
    <3>4. (2 * t) * u = 2 * (t * u)
      OBVIOUS
    <3> QED
      BY <3>2, <3>3, <3>4
  <2>7. PICK d \in Int, e \in 0 .. u - 1 : d = a \div u /\ e = a % u /\ a = u * d + e
    <3>1. u > 0
      BY <2>3, <2>4
    <3> QED
      BY <3>1, DivMod
  <2>8. d >= t /\ d + 1 <= 2 * t
    <3>1. PICK tu \in Int, du \in Int : tu = t * u /\ du = u * d
      OBVIOUS
    <3>2. u * d + e < 2 * (t * u) /\ t * u <= u * d + e
      BY <2>2, <2>6, <2>7
    <3>3. d <= t - 1 => u * d <= t * u - u
      <4>1. d <= t - 1 => u * d <= u * (t - 1)
        OBVIOUS
      <4>2. u * (t - 1) = t * u - u
        OBVIOUS
      <4> QED
        BY <4>1, <4>2
    <3>4. d >= 2 * t => u * d >= 2 * (t * u)
      <4>1. d >= 2 * t => u * d >= u * (2 * t)
        OBVIOUS
      <4>2. u * (2 * t) = 2 * (t * u)
        OBVIOUS
      <4> QED
        BY <4>1, <4>2
    <3>5. ~(d <= t - 1)
      <4>1. du + e < 2 * tu /\ tu <= du + e
        BY <3>1, <3>2
      <4>2. d <= t - 1 => du <= tu - u
        BY <3>1, <3>3
      <4> QED
        BY <4>1, <4>2
    <3>6. ~(d >= 2 * t)
      <4>1. du + e < 2 * tu
        BY <3>1, <3>2
      <4>2. d >= 2 * t => du >= 2 * tu
        BY <3>1, <3>4
      <4> QED
        BY <4>1, <4>2
    <3> QED
      BY <3>5, <3>6
  <2>9. PICK c : c = ToDouble(a)
    OBVIOUS
  <2>10. \/ c = d * u /\ ~(2 * e > u)
         \/ c = (d + 1) * u /\ 2 * e >= u
    <3>1. u = Pow(2, Places(a, 2) - DoubleBits)
      <4>1. Places(a, 2) - DoubleBits = q + 1
        BY <2>1
      <4> QED
        BY <2>4, <4>1
    <3>2. c = IF 2 * e > u \/ (2 * e = u /\ d % 2 = 1) THEN (d + 1) * u ELSE d * u
      BY <1>2, <2>7, <2>9, <3>1 DEF ToDouble
    <3> QED
      BY <3>2
  <2>11. c \in Nat /\ a - h <= c /\ c <= a + h
    <3>1. d * u \in Nat /\ (d + 1) * u = d * u + u /\ d * u = u * d
      BY <2>8
    <3>2. PICK du \in Nat : du = d * u
      BY <3>1
    <3>3. a = du + e
      BY <2>7, <3>1, <3>2
    <3>4. CASE c = d * u /\ ~(2 * e > u)
      <4>1. c = du /\ e <= h
        BY <2>4, <3>2, <3>4
      <4> QED
        BY <3>3, <4>1
    <3>5. CASE c = (d + 1) * u /\ 2 * e >= u
      <4>1. c = du + u
        BY <3>1, <3>2, <3>5
      <4>2. e >= h
        BY <2>4, <3>5
      <4>3. c = a - e + 2 * h /\ e <= 2 * h
        BY <2>4, <3>3, <4>1
      <4>4. a - e + 2 * h <= a + h /\ a - h <= a - e + 2 * h /\ a - e + 2 * h \in Nat
        BY <4>1, <4>2, <4>3
      <4> QED
        BY <4>3, <4>4
    <3> QED
      BY <2>10, <3>4, <3>5
  <2>12. t * u <= c /\ c <= 2 * (t * u)
    <3>1. d * u >= t * u /\ (d + 1) * u >= t * u
      <4>1. d * u >= t * u
        BY <2>8
      <4>2. (d + 1) * u = d * u + u
        OBVIOUS
      <4> QED
        BY <4>1, <4>2
    <3>2. (d + 1) * u <= 2 * (t * u) /\ d * u <= 2 * (t * u)
      <4>1. (d + 1) * u <= (2 * t) * u
        BY <2>8
      <4>2. (2 * t) * u = 2 * (t * u) /\ (d + 1) * u = d * u + u
        OBVIOUS
      <4> QED
        BY <4>1, <4>2
    <3> QED
      BY <2>10, <3>1, <3>2
  <2>13. Pow(2, n - 1) <= c /\ c <= Pow(2, n)
    BY <2>6, <2>12
  <2>14. h = Pow(2, Places(a, 2) - DoubleBits - 1)
    BY <2>1, <2>3
  <2> QED
    BY <1>2, <2>1, <2>9, <2>11, <2>13, <2>14
<1> QED
  BY <1>1, <1>2

LEMMA SqrtToLongIs ==
  ASSUME NEW m \in Nat, m < Pow(2, 2 * DoubleBits)
  PROVE  \E r \in Nat, e \in Nat, u \in Nat, k \in Nat :
           /\ r = ISqrt(m) /\ r * r <= m /\ m < (r + 1) * (r + 1)
           /\ e > 0 /\ e <= DoubleBits /\ r < Pow(2, e) /\ (e = 1 \/ Pow(2, e - 1) <= r)
           /\ u > 0 /\ u = Pow(2, DoubleBits - e) /\ SqrtToLong(m) = k \div u
           /\ \A t \in Nat : t > 0 => IF m * u * u > t * t - t THEN k >= t ELSE k < t
<1>1. PICK p \in Nat : p = DoubleBits /\ p >= 3
  BY DoubleBitsAre
<1>2. PICK r \in Nat : r = ISqrt(m) /\ r * r <= m /\ m < (r + 1) * (r + 1)
  BY RootIs
<1>3. PICK e \in Nat : e = Places(r, 2) /\ e > 0 /\ r < Pow(2, e) /\ (e = 1 \/ Pow(2, e - 1) <= r)
  BY PlacesIs
<1>4. e <= p
  <2>1. PICK c \in Nat : c = Pow(2, p) /\ c > 0
    BY PowPos
  <2>2. Pow(2, 2 * p) = c * c
    <3>1. 2 * p = p + p
      OBVIOUS
    <3> QED
      BY <2>1, <3>1, PowAdd
  <2>3. r < c
    <3>1. r * r < c * c
      <4>1. PICK d \in Int, f \in Int : d = r * r /\ f = c * c
        OBVIOUS
      <4>2. d <= m /\ m < f
        BY <1>1, <1>2, <2>2, <4>1
      <4> QED
        BY <4>1, <4>2
    <3> QED
      BY <3>1, SquareOrder
  <2>4. ASSUME e > p PROVE FALSE
    <3>1. e - 1 \in Nat /\ p <= e - 1 /\ e # 1
      BY <1>1, <2>4
    <3>2. Pow(2, p) <= Pow(2, e - 1)
      BY <3>1, PowMonotone
    <3>3. Pow(2, e - 1) \in Int
      BY <3>1, PowInt
    <3> QED
      BY <1>3, <2>1, <2>3, <3>1, <3>2, <3>3
  <2> QED
    BY <2>4
<1>5. PICK u \in Nat : u = Pow(2, p - e) /\ u > 0
  <2>1. p - e \in Nat
    BY <1>4
  <2> QED
    BY <2>1, PowPos
<1>6. m * u * u \in Nat
  OBVIOUS
<1>7. PICK k \in Nat :
        /\ k = IF m * u * u <= ISqrt(m * u * u) * ISqrt(m * u * u) + ISqrt(m * u * u)
               THEN ISqrt(m * u * u) ELSE ISqrt(m * u * u) + 1
        /\ \A t \in Nat : t > 0 => IF m * u * u > t * t - t THEN k >= t ELSE k < t
  BY <1>6, NearestRoot
<1>8. SqrtToLong(m) = k \div u
  <2>1. u = Pow(2, DoubleBits - Places(ISqrt(m), 2))
    BY <1>1, <1>2, <1>3, <1>5
  <2> QED
    BY <1>7, <2>1 DEF SqrtToLong
<1>9. e <= DoubleBits /\ u = Pow(2, DoubleBits - e)
  BY <1>1, <1>4, <1>5
<1>10. \A t \in Nat : t > 0 => IF m * u * u > t * t - t THEN k >= t ELSE k < t
  BY <1>7
<1> QED
  BY <1>2, <1>3, <1>5, <1>8, <1>9, <1>10

LEMMA RootBelow ==
  ASSUME NEW m \in Nat, NEW r \in Nat, r > 0, NEW u \in Nat, u > 0, NEW h \in Nat,
         m >= r * r - h, h * u < r
  PROVE  m * u * u > (r * u) * (r * u) - r * u
<1>1. PICK w \in Nat : w = u * u
  OBVIOUS
<1>2. m * w >= (r * r - h) * w
  OBVIOUS
<1>3. (r * r - h) * w = (r * r) * w - h * w
  OBVIOUS
<1>4. (r * r) * w = (r * u) * (r * u) /\ h * w = (h * u) * u /\ m * u * u = m * w
  BY <1>1
<1>5. (h * u) * u < r * u
  OBVIOUS
<1>6. /\ m * w \in Int /\ (r * r) * w \in Int /\ h * w \in Int /\ (r * u) * (r * u) \in Int
      /\ (h * u) * u \in Int /\ r * u \in Int
  OBVIOUS
<1> QED
  BY <1>2, <1>3, <1>4, <1>5, <1>6

LEMMA RootAbove ==
  ASSUME NEW m \in Nat, NEW t \in Nat, NEW u \in Nat, u > 0, m <= t * t - t
  PROVE  m * u * u <= (t * u) * (t * u) - t * u
<1>1. PICK w \in Nat : w = u * u /\ w >= u
  OBVIOUS
<1>2. PICK s \in Nat : s = t * t - t /\ t * t = s + t /\ m <= s
  <2>1. t * t \in Int
    OBVIOUS
  <2> QED
    BY <2>1
<1>3. m * w <= s * w
  BY <1>2
<1>4. (t * u) * (t * u) = (t * t) * w
  BY <1>1
<1>5. (t * t) * w = s * w + t * w
  BY <1>2
<1>6. t * w >= t * u
  BY <1>1
<1>7. m * u * u = m * w
  BY <1>1
<1>8. m * w \in Int /\ s * w \in Int /\ t * w \in Int /\ t * u \in Int /\ (t * t) * w \in Int
  OBVIOUS
<1> QED
  BY <1>3, <1>4, <1>5, <1>6, <1>7, <1>8

LEMMA RootExactAbove ==
  ASSUME NEW a \in Nat, NEW t \in Nat, NEW u \in Nat, a < t * t, t <= u
  PROVE  a * u * u <= (t * u) * (t * u) - t * u
<1>1. PICK w \in Nat : w = u * u /\ w >= t * u
  OBVIOUS
<1>2. a * w <= (t * t - 1) * w
  <2>1. a <= t * t - 1 /\ t * t - 1 \in Int
    OBVIOUS
  <2> QED
    BY <2>1
<1>3. (t * t - 1) * w = (t * t) * w - w
  OBVIOUS
<1>4. (t * u) * (t * u) = (t * t) * w /\ a * u * u = a * w
  BY <1>1
<1>5. a * w \in Int /\ (t * t) * w \in Int /\ t * u \in Int
  OBVIOUS
<1> QED
  BY <1>1, <1>2, <1>3, <1>4, <1>5

(* The root a long is given by way of doubles: the integral root of a      *)
(* number of fewer bits than a double has, at most one more otherwise.     *)
LEMMA DoubleRoot ==
  ASSUME NEW a \in Nat, a < Pow(2, LongBits - 1)
  PROVE  \/ SqrtToLong(ToDouble(a)) = ISqrt(a)
         \/ a >= Pow(2, DoubleBits - 1) /\ SqrtToLong(ToDouble(a)) = ISqrt(a) + 1
<1>1. PICK p \in Nat : p = DoubleBits /\ p >= 3 /\ LongBits <= 2 * p
  BY DoubleBitsAre
<1>2. PICK r \in Nat : r = ISqrt(a) /\ r * r <= a /\ a < (r + 1) * (r + 1)
  BY RootIs
<1>3. PICK n \in Nat : n = Places(a, 2) /\ n > 0 /\ a < Pow(2, n) /\ (n = 1 \/ Pow(2, n - 1) <= a)
  BY PlacesIs
<1>4. n < 2 * p
  <2>1. ASSUME n >= 2 * p PROVE FALSE
    <3>1. LongBits - 1 \in Nat /\ n - 1 \in Nat /\ LongBits - 1 <= n - 1 /\ n # 1
      BY <1>1, <2>1, WidthsAre
    <3>2. Pow(2, LongBits - 1) <= Pow(2, n - 1)
      BY <3>1, PowMonotone
    <3>3. Pow(2, n - 1) \in Int /\ Pow(2, LongBits - 1) \in Int
      BY <3>1, PowInt
    <3> QED
      BY <1>3, <3>1, <3>2, <3>3
  <2> QED
    BY <1>1, <2>1
<1>5. PICK c \in Nat : c = Pow(2, p - 1) /\ c > 0
  <2>1. p - 1 \in Nat
    BY <1>1
  <2> QED
    BY <2>1, PowTwo
<1>6. Pow(2, n) < Pow(2, 2 * p) /\ Pow(2, n) \in Nat
  <2>1. n \in Nat /\ n + 1 \in Nat /\ n + 1 <= 2 * p /\ 2 * p \in Nat
    BY <1>4
  <2>2. Pow(2, n + 1) <= Pow(2, 2 * p)
    BY <2>1, PowMonotone
  <2>3. Pow(2, n + 1) = 2 * Pow(2, n)
    BY PowNext
  <2>4. PICK d \in Nat : d = Pow(2, n) /\ d > 0
    BY PowTwo
  <2>5. Pow(2, 2 * p) \in Int
    BY <2>1, PowInt
  <2> QED
    BY <2>2, <2>3, <2>4, <2>5
<1>7. CASE n <= p
  <2>1. ToDouble(a) = a
    BY <1>1, <1>3, <1>7, ToDoubleIs
  <2>2. a < Pow(2, 2 * DoubleBits)
    <3>1. Pow(2, 2 * p) \in Int
      BY PowInt
    <3> QED
      BY <1>1, <1>3, <1>6, <3>1
  <2>3. PICK e \in Nat, u \in Nat, k \in Nat :
          /\ e > 0 /\ e <= p /\ r < Pow(2, e) /\ (e = 1 \/ Pow(2, e - 1) <= r)
          /\ u > 0 /\ u = Pow(2, p - e) /\ SqrtToLong(a) = k \div u
          /\ \A t \in Nat : t > 0 => IF a * u * u > t * t - t THEN k >= t ELSE k < t
    <3>1. PICK v \in Nat, e \in Nat, u \in Nat, k \in Nat :
            /\ v = ISqrt(a) /\ v * v <= a /\ a < (v + 1) * (v + 1)
            /\ e > 0 /\ e <= DoubleBits /\ v < Pow(2, e) /\ (e = 1 \/ Pow(2, e - 1) <= v)
            /\ u > 0 /\ u = Pow(2, DoubleBits - e) /\ SqrtToLong(a) = k \div u
            /\ \A t \in Nat : t > 0 => IF a * u * u > t * t - t THEN k >= t ELSE k < t
      BY <2>2, SqrtToLongIs
    <3>2. v = r
      BY <1>2, <3>1
    <3>3. e > 0 /\ e <= p /\ r < Pow(2, e) /\ (e = 1 \/ Pow(2, e - 1) <= r)
      BY <1>1, <3>1, <3>2
    <3>4. u > 0 /\ u = Pow(2, p - e) /\ SqrtToLong(a) = k \div u
      BY <1>1, <3>1
    <3>5. \A t \in Nat : t > 0 => IF a * u * u > t * t - t THEN k >= t ELSE k < t
      BY <3>1
    <3> QED
      BY <3>3, <3>4, <3>5
  <2>4. k >= r * u
    <3>1. CASE r = 0
      BY <3>1
    <3>2. CASE r > 0
      <4>1. a >= r * r - 0 /\ 0 * u < r
        <5>1. r * r \in Int
          OBVIOUS
        <5> QED
          BY <1>2, <3>2, <5>1
      <4>2. a * u * u > (r * u) * (r * u) - r * u
        BY <2>3, <3>2, <4>1, RootBelow
      <4>3. r * u \in Nat /\ r * u > 0
        BY <2>3, <3>2
      <4> QED
        BY <2>3, <4>2, <4>3
    <3> QED
      BY <3>1, <3>2
  <2>5. k < (r + 2) * u
    <3>1. a <= (r + 2) * (r + 2) - (r + 2)
      <4>1. (r + 2) * (r + 2) - (r + 2) = r * r + 3 * r + 2 /\ (r + 1) * (r + 1) = r * r + 2 * r + 1
        OBVIOUS
      <4>2. r * r \in Nat
        OBVIOUS
      <4> QED
        BY <1>2, <4>1, <4>2
    <3>2. r + 2 \in Nat
      OBVIOUS
    <3>3. a * u * u <= ((r + 2) * u) * ((r + 2) * u) - (r + 2) * u
      BY <2>3, <3>1, <3>2, RootAbove
    <3>4. (r + 2) * u \in Nat /\ (r + 2) * u > 0
      BY <2>3
    <3>5. PICK t \in Nat : t = (r + 2) * u /\ t > 0
      BY <3>4
    <3>6. ~(a * u * u > t * t - t)
      <4>1. a * u * u \in Int /\ t * t \in Int
        OBVIOUS
      <4> QED
        BY <3>3, <3>5, <4>1
    <3> QED
      BY <2>3, <3>5, <3>6
  <2>6. k < (r + 1) * u \/ a >= c
    <3>1. SUFFICES ASSUME a < c PROVE k < (r + 1) * u
      BY <1>5
    <3>2. 2 * e <= p
      <4>1. CASE e = 1
        BY <1>1, <4>1
      <4>2. CASE e # 1
        <5>1. PICK f \in Nat : f = e - 1 /\ f > 0
          BY <2>3, <4>2
        <5>2. PICK g \in Nat : g = Pow(2, f) /\ g <= r
          <6>1. Pow(2, f) \in Nat
            BY PowTwo
          <6> QED
            BY <2>3, <4>2, <5>1, <6>1
        <5>3. Pow(2, f + f) = g * g
          BY <5>2, PowAdd
        <5>4. g * g <= r * r
          <6>1. g * g <= g * r /\ g * r <= r * r
            BY <5>2
          <6>2. g * g \in Int /\ g * r \in Int /\ r * r \in Int
            OBVIOUS
          <6> QED
            BY <6>1, <6>2
        <5>5. g * g < c
          <6>1. g * g \in Int /\ r * r \in Int
            OBVIOUS
          <6> QED
            BY <1>2, <3>1, <5>4, <6>1
        <5>6. ASSUME p - 1 <= f + f PROVE FALSE
          <6>1. p - 1 \in Nat /\ f + f \in Nat
            BY <1>1
          <6>2. Pow(2, p - 1) <= Pow(2, f + f)
            BY <5>6, <6>1, PowMonotone
          <6>3. g * g \in Int
            OBVIOUS
          <6> QED
            BY <1>5, <5>3, <5>5, <6>2, <6>3
        <5> QED
          BY <1>1, <5>1, <5>6
      <4> QED
        BY <4>1, <4>2
    <3>3. r + 1 <= u
      <4>1. e <= p - e /\ p - e \in Nat
        BY <2>3, <3>2
      <4>2. Pow(2, e) <= Pow(2, p - e) /\ Pow(2, e) \in Nat
        BY <4>1, PowMonotone, PowTwo
      <4> QED
        BY <2>3, <4>2
    <3>4. a * u * u <= ((r + 1) * u) * ((r + 1) * u) - (r + 1) * u
      <4>1. r + 1 \in Nat
        OBVIOUS
      <4> QED
        BY <1>2, <3>3, <4>1, RootExactAbove
    <3>5. PICK t \in Nat : t = (r + 1) * u /\ t > 0
      <4>1. (r + 1) * u \in Nat /\ (r + 1) * u > 0
        BY <2>3
      <4> QED
        BY <4>1
    <3>6. ~(a * u * u > t * t - t)
      <4>1. a * u * u \in Int /\ t * t \in Int
        OBVIOUS
      <4> QED
        BY <3>4, <3>5, <4>1
    <3> QED
      BY <2>3, <3>5, <3>6
  <2>7. k \div u = r \/ (a >= c /\ k \div u \in {r, r + 1})
    BY <2>3, <2>4, <2>5, <2>6, CutOff
  <2> QED
    BY <1>1, <1>2, <1>5, <2>1, <2>3, <2>7
<1>8. CASE n > p
  <2>1. PICK m \in Nat, h \in Nat :
          /\ ToDouble(a) = m /\ h = Pow(2, n - p - 1) /\ a - h <= m /\ m <= a + h
          /\ Pow(2, n - 1) <= m /\ m <= Pow(2, n)
    BY <1>1, <1>3, <1>8, ToDoubleIs
  <2>2. m < Pow(2, 2 * DoubleBits)
    <3>1. Pow(2, 2 * p) \in Int
      BY PowInt
    <3> QED
      BY <1>1, <1>6, <2>1, <3>1
  <2>3. PICK v \in Nat, e \in Nat, u \in Nat, k \in Nat :
          /\ v * v <= m /\ m < (v + 1) * (v + 1)
          /\ e > 0 /\ e <= p /\ v < Pow(2, e)
          /\ u > 0 /\ u = Pow(2, p - e) /\ SqrtToLong(m) = k \div u
          /\ \A t \in Nat : t > 0 => IF m * u * u > t * t - t THEN k >= t ELSE k < t
    <3>1. PICK v \in Nat, e \in Nat, u \in Nat, k \in Nat :
            /\ v = ISqrt(m) /\ v * v <= m /\ m < (v + 1) * (v + 1)
            /\ e > 0 /\ e <= DoubleBits /\ v < Pow(2, e) /\ (e = 1 \/ Pow(2, e - 1) <= v)
            /\ u > 0 /\ u = Pow(2, DoubleBits - e) /\ SqrtToLong(m) = k \div u
            /\ \A t \in Nat : t > 0 => IF m * u * u > t * t - t THEN k >= t ELSE k < t
      BY <2>2, SqrtToLongIs
    <3>2. e > 0 /\ e <= p /\ u > 0 /\ u = Pow(2, p - e) /\ SqrtToLong(m) = k \div u
      BY <1>1, <3>1
    <3>3. \A t \in Nat : t > 0 => IF m * u * u > t * t - t THEN k >= t ELSE k < t
      BY <3>1
    <3>4. v * v <= m /\ m < (v + 1) * (v + 1) /\ v < Pow(2, e)
      BY <3>1
    <3> QED
      BY <3>2, <3>3, <3>4
  <2>4. PICK q \in Nat, b \in Nat : q = n - p - 1 /\ n = p + q + 1 /\ b = Pow(2, n - 1) /\ b <= a
    <3>1. n - p - 1 \in Nat /\ n - 1 \in Nat
      BY <1>8
    <3>2. Pow(2, n - 1) \in Nat
      BY <3>1, PowTwo
    <3>3. n # 1
      BY <1>1, <1>8
    <3> QED
      BY <1>3, <3>1, <3>2, <3>3
  <2>5. h < r + 1
    <3>1. Pow(2, q + q) = h * h
      BY <2>1, <2>4, PowAdd
    <3>2. q + q \in Nat /\ n - 1 \in Nat /\ q + q <= n - 1
      BY <1>1, <1>4, <2>4
    <3>3. Pow(2, q + q) <= Pow(2, n - 1)
      BY <3>2, PowMonotone
    <3>4. h * h < (r + 1) * (r + 1)
      <4>1. h * h \in Int /\ (r + 1) * (r + 1) \in Int
        OBVIOUS
      <4> QED
        BY <1>2, <2>4, <3>1, <3>3, <4>1
    <3>5. r + 1 \in Nat
      OBVIOUS
    <3> QED
      BY <3>4, <3>5, SquareOrder
  <2>6. k < (r + 2) * u
    <3>1. m <= (r + 2) * (r + 2) - (r + 2)
      <4>1. (r + 2) * (r + 2) - (r + 2) = r * r + 3 * r + 2 /\ (r + 1) * (r + 1) = r * r + 2 * r + 1
        OBVIOUS
      <4>2. r * r \in Nat
        OBVIOUS
      <4>3. m <= r * r + 3 * r
        BY <1>2, <2>1, <2>5, <4>1, <4>2
      <4> QED
        BY <4>1, <4>2, <4>3
    <3>2. r + 2 \in Nat
      OBVIOUS
    <3>3. m * u * u <= ((r + 2) * u) * ((r + 2) * u) - (r + 2) * u
      BY <2>3, <3>1, <3>2, RootAbove
    <3>5. PICK t \in Nat : t = (r + 2) * u /\ t > 0
      <4>1. (r + 2) * u \in Nat /\ (r + 2) * u > 0
        BY <2>3
      <4> QED
        BY <4>1
    <3>6. ~(m * u * u > t * t - t)
      <4>1. m * u * u \in Int /\ t * t \in Int
        OBVIOUS
      <4> QED
        BY <3>3, <3>5, <4>1
    <3> QED
      BY <2>3, <3>5, <3>6
  <2>7. b >= 4
    <3>1. n - 1 \in Nat /\ n - 1 >= 3
      BY <1>1, <2>4
    <3>2. Pow(2, n - 1) > n - 1
      BY <3>1, PowExceeds
    <3> QED
      BY <2>4, <3>1, <3>2
  <2>8. ASSUME r >= 3 PROVE h * u < r
    <3>1. PICK g \in Nat : g = h * u
      OBVIOUS
    <3>2. n <= 2 * e
      <4>1. ASSUME 2 * e <= n - 1 PROVE FALSE
        <5>1. e + e \in Nat /\ n - 1 \in Nat /\ e + e <= n - 1
          BY <1>3, <4>1
        <5>2. Pow(2, e + e) <= b
          BY <2>4, <5>1, PowMonotone
        <5>3. PICK d \in Nat : d = Pow(2, e) /\ v + 1 <= d
          <6>1. Pow(2, e) \in Nat
            BY PowTwo
          <6> QED
            BY <2>3, <6>1
        <5>4. Pow(2, e + e) = d * d
          BY <5>3, PowAdd
        <5>5. (v + 1) * (v + 1) <= d * d
          <6>1. (v + 1) * (v + 1) <= (v + 1) * d /\ (v + 1) * d <= d * d
            BY <5>3
          <6>2. (v + 1) * (v + 1) \in Int /\ (v + 1) * d \in Int /\ d * d \in Int
            OBVIOUS
          <6> QED
            BY <6>1, <6>2
        <5>6. (v + 1) * (v + 1) \in Int /\ d * d \in Int
          OBVIOUS
        <5> QED
          BY <2>1, <2>3, <2>4, <5>2, <5>4, <5>5, <5>6
      <4> QED
        BY <4>1
    <3>3. PICK f \in Nat : f = q + (p - e) /\ g = Pow(2, f)
      <4>1. p - e \in Nat /\ q + (p - e) \in Nat
        BY <2>3
      <4>2. Pow(2, q + (p - e)) = Pow(2, q) * Pow(2, p - e)
        BY <4>1, PowAdd
      <4> QED
        BY <2>1, <2>3, <2>4, <3>1, <4>1, <4>2
    <3>4. 2 * (g * g) <= b
      <4>1. Pow(2, f + f) = g * g
        BY <3>3, PowAdd
      <4>2. f + f \in Nat /\ f + f + 1 \in Nat /\ n - 1 \in Nat /\ f + f + 1 <= n - 1
        BY <2>3, <2>4, <3>2, <3>3
      <4>3. Pow(2, f + f + 1) = 2 * Pow(2, f + f)
        BY <4>2, PowNext
      <4>4. Pow(2, f + f + 1) <= Pow(2, n - 1)
        BY <4>2, PowMonotone
      <4> QED
        BY <2>4, <4>1, <4>3, <4>4
    <3>5. ASSUME g >= r PROVE FALSE
      <4>1. g * g >= g * r /\ g * r >= r * r
        BY <3>5
      <4>2. (r + 1) * (r + 1) = r * r + 2 * r + 1 /\ r * r >= 3 * r
        BY <2>8
      <4>3. g * g \in Int /\ g * r \in Int /\ r * r \in Int
        OBVIOUS
      <4>4. 2 * (r * r) < r * r + 2 * r + 1
        BY <1>2, <2>4, <3>4, <4>1, <4>2, <4>3
      <4> QED
        BY <2>8, <4>2, <4>3, <4>4
    <3> QED
      BY <3>1, <3>5
  <2>9. k >= r * u
    <3>1. CASE r = 0
      BY <3>1
    <3>2. CASE r > 0
      <4>1. PICK j \in Nat : m >= r * r - j /\ j * u < r
        <5>1. CASE r >= 3
          <6>1. r * r \in Int
            OBVIOUS
          <6> QED
            BY <1>2, <2>1, <2>8, <5>1, <6>1
        <5>2. CASE r < 3
          <6>1. r * r <= 4
            <7>1. r = 1 \/ r = 2
              BY <3>2, <5>2
            <7> QED
              BY <7>1
          <6>2. m >= r * r - 0 /\ 0 * u < r
            BY <2>1, <2>4, <2>7, <3>2, <6>1
          <6> QED
            BY <6>2
        <5> QED
          BY <5>1, <5>2
      <4>2. m * u * u > (r * u) * (r * u) - r * u
        BY <2>3, <3>2, <4>1, RootBelow
      <4>3. r * u \in Nat /\ r * u > 0
        BY <2>3, <3>2
      <4> QED
        BY <2>3, <4>2, <4>3
    <3> QED
      BY <3>1, <3>2
  <2>10. k \div u \in {r, r + 1}
    BY <2>3, <2>6, <2>9, CutOff
  <2>11. c <= a
    <3>1. p - 1 \in Nat /\ n - 1 \in Nat /\ p - 1 <= n - 1
      BY <1>1, <2>4
    <3>2. c <= b
      BY <1>5, <2>4, <3>1, PowMonotone
    <3> QED
      BY <2>4, <3>2
  <2> QED
    BY <1>1, <1>2, <1>5, <2>1, <2>3, <2>10, <2>11
<1> QED
  BY <1>7, <1>8

-----------------------------------------------------------------------------
(* The methods of one operand.                                             *)

LEMMA UnaryExact ==
  ASSUME cls \in FixedWidth, NEW a \in Int, Fits(Width(cls), a),
         NEW op \in UnaryOps \ {"kind"}, NEW r \in Unary(cls, op, a)
  PROVE  FixedWidthExact(op, a, 0, r)
<1>1. PICK w \in Nat : w = Width(cls) /\ w > 1 /\ Fits(w, a)
  BY WidthsAre DEF Width, FixedWidth, Narrow
<1>2. /\ cls = "Tinyint" => w = TinyBits
      /\ cls = "Smallint" => w = SmallBits
      /\ cls = "Bigint" => w = LongBits
  BY <1>1 DEF Width
<1>3. cls \in {"Tinyint", "Smallint", "Bigint"}
  BY DEF FixedWidth, Narrow
<1>4. CASE op = "abs"
  <2>1. r = IF a = IntMin(w) THEN Throw("range") ELSE Ok(Abs(a))
    BY <1>2, <1>3, <1>4 DEF Unary, Tinyint_abs, Smallint_abs, Bigint_abs
  <2>2. r = InRangeOr(w, Abs(a))
    BY <1>1, <2>1, AbsFits DEF InRangeOr
  <2>3. Exact(op, a, 0) = Abs(a)
    BY <1>4 DEF Exact
  <2> QED
    BY <1>1, <2>2, <2>3, ExactResult
<1>5. CASE op = "neg" /\ cls \in Narrow
  <2>1. r = IF a = IntMin(w) THEN Throw("range") ELSE Ok(-a)
    BY <1>2, <1>5 DEF Unary, Tinyint_neg, Smallint_neg, Narrow
  <2>2. r = InRangeOr(w, -a)
    BY <1>1, <2>1, AbsFits DEF InRangeOr
  <2>3. Exact(op, a, 0) = -a
    BY <1>5 DEF Exact
  <2> QED
    BY <1>1, <2>2, <2>3, ExactResult
<1>6. CASE op = "neg" /\ cls = "Bigint"
  <2>1. r = Ok(Wrap(LongBits, -a)) /\ Exact(op, a, 0) = -a /\ -a \in Int
    BY <1>6 DEF Unary, Bigint_neg, Exact
  <2> QED
    BY <1>6, <2>1, ModuloResult
<1>7. CASE op = "sqrt"
  <2>1. Exact(op, a, 0) = ISqrt(a)
    BY <1>7 DEF Exact
  <2>2. CASE a < 0
    <3>1. r = Throw("range")
      BY <1>2, <1>3, <1>7, <2>2 DEF Unary, Tinyint_sqrt, Smallint_sqrt, Bigint_sqrt
    <3> QED
      BY <1>7, <2>2, <3>1 DEF FixedWidthExact, Throw
  <2>3. CASE ~(a < 0) /\ cls # "Bigint"
    <3>1. r = Ok(ISqrt(a))
      BY <1>2, <1>3, <1>7, <2>3 DEF Unary, Tinyint_sqrt, Smallint_sqrt
    <3> QED
      BY <2>1, <3>1, ExactResult
  <2>4. CASE ~(a < 0) /\ cls = "Bigint"
    <3>1. r = Ok(SqrtToLong(ToDouble(a)))
      BY <1>7, <2>4 DEF Unary, Bigint_sqrt
    <3>2. a \in Nat /\ a < Pow(2, LongBits - 1)
      <4>1. PICK h \in Nat : IntMin(LongBits) = -h /\ IntMax(LongBits) = h - 1 /\ Pow(2, LongBits - 1) = h
        BY WidthsAre, WidthIs
      <4>2. Fits(LongBits, a)
        BY <1>1, <1>2, <2>4
      <4> QED
        BY <2>4, <4>1, <4>2 DEF Fits
    <3>3. \/ r.v = Exact(op, a, 0)
          \/ a >= Pow(2, DoubleBits - 1) /\ r.v = Exact(op, a, 0) + 1
      BY <2>1, <3>1, <3>2, DoubleRoot DEF Ok
    <3>4. r.exc = "none"
      BY <3>1 DEF Ok
    <3> QED
      BY <1>7, <2>4, <3>3, <3>4 DEF FixedWidthExact
  <2> QED
    BY <2>2, <2>3, <2>4
<1>8. CASE op = "toInt"
  <2>1. r = Ok(a)
    BY <1>1, <1>2, <1>3, <1>8 DEF Unary, Bigint_to_long
  <2>2. Exact(op, a, 0) = a
    BY <1>8 DEF Exact
  <2> QED
    BY <2>1, <2>2, ExactResult
<1>9. CASE op = "limits"
  <2>1. r = Ok(<<IntMin(w), IntMax(w)>>)
    <3>1. CASE cls = "Tinyint"
      BY <1>2, <1>9, <3>1 DEF Unary, Tinyint_min, Tinyint_max
    <3>2. CASE cls = "Smallint"
      BY <1>2, <1>9, <3>2 DEF Unary, Smallint_min, Smallint_max
    <3>3. CASE cls = "Bigint"
      BY <1>2, <1>9, <3>3 DEF Unary, Bigint_min, Bigint_max
    <3> QED
      BY <1>3, <3>1, <3>2, <3>3
  <2>2. Exact(op, a, 0) = <<IntMin(w), IntMax(w)>>
    BY <1>1, <1>9 DEF Exact
  <2> QED
    BY <2>1, <2>2, ExactResult
<1> QED
  BY <1>3, <1>4, <1>5, <1>6, <1>7, <1>8, <1>9 DEF UnaryOps, Narrow

(* div and mod fit together.                                               *)
LEMMA DivModAgrees ==
  ASSUME VInv
  PROVE  DivModAgree
<1> SUFFICES ASSUME cls \in Integer, self # <<>>, num # <<>>
             PROVE  DivModAgree
  BY DEF DivModAgree
<1>1. PICK a, b : self = <<a>> /\ num = <<b>> /\ IsValue(cls, a) /\ IsValue(cls, b)
  BY DEF VInv, Holds
<1>2. a \in Int /\ b \in Int /\ (cls \in FixedWidth => Fits(Width(cls), a) /\ Fits(Width(cls), b))
  BY <1>1 DEF IsValue, Integer, FixedWidth
<1>3. self[1] = a /\ num[1] = b
  BY <1>1
<1> SUFFICES ASSUME b # 0, cls = "Varint" => b > 0, ~(a = IntMin(Width(cls)) /\ b = -1),
                    NEW q \in Binary(cls, "div", a, b), NEW m \in Binary(cls, "mod", a, b)
             PROVE  a = q.v * b + m.v /\ Abs(m.v) < Abs(b)
  BY <1>3 DEF DivModAgree
<1>4. PICK d \in Int, e \in Int : /\ d = Quot(a, b) /\ e = Rem(a, b)
                                  /\ a = b * d + e /\ Abs(e) < Abs(b)
  BY <1>2, QuotRem
<1>5. b * d = d * b
  BY <1>2
<1>6. CASE cls \in Narrow
  <2>1. PICK w \in Nat : w = Width(cls) /\ w > 1
    BY <1>6, WidthsAre DEF Width, Narrow
  <2>2. Fits(w, a) /\ Fits(w, b)
    BY <1>2, <1>6, <2>1 DEF FixedWidth
  <2>3. q = NarrowDiv(w, a, b) /\ m = NarrowMod(w, a, b)
    BY <1>6, <2>1, NarrowBinary
  <2>4. ~(a = IntMin(w) /\ b = -1)
    BY <2>1
  <2>5. NarrowDiv(w, a, b) = Ok(Quot(a, b)) /\ NarrowMod(w, a, b) = Ok(Rem(a, b))
    BY <1>2, <2>1, <2>2, <2>4, NarrowDivExact
  <2>6. q.v = d /\ m.v = e
    BY <1>4, <2>3, <2>5 DEF Ok
  <2> QED
    BY <1>4, <1>5, <2>6
<1>7. CASE cls = "Bigint"
  <2>1. q = Bigint_div(a, b) /\ m = Bigint_mod(a, b) /\ Width(cls) = LongBits
    BY <1>7 DEF Binary, Width
  <2>2. q = Ok(d) /\ m = Ok(e)
    BY <1>4, <2>1 DEF Bigint_div, Bigint_mod, Trap
  <2>3. q.v = d /\ m.v = e
    BY <2>2 DEF Ok
  <2> QED
    BY <1>4, <1>5, <2>3
<1>8. CASE cls = "Varint"
  <2>1. b \in Nat /\ b > 0
    BY <1>2, <1>8
  <2>2. q = Ok(a \div b) /\ m = Ok(a % b)
    BY <1>8, <2>1 DEF Binary, Varint_div, Varint_mod, mpz_div, mpz_mod, Abs
  <2>3. q.v = a \div b /\ m.v = a % b
    BY <2>2 DEF Ok
  <2>4. a \div b \in Int /\ a % b \in 0 .. b - 1 /\ a = b * (a \div b) + (a % b)
    BY <1>2, <2>1, DivMod
  <2>5. b * (a \div b) = (a \div b) * b
    BY <1>2, <2>4
  <2>6. Abs(a % b) < Abs(b)
    BY <2>1, <2>4 DEF Abs
  <2> QED
    BY <2>3, <2>4, <2>5, <2>6
<1> QED
  BY <1>6, <1>7, <1>8 DEF Integer

(* Decimals: the one with the smaller scale is multiplied.                 *)
LEMMA AlignedIs ==
  ASSUME NEW a \in [v : Int, scale : Int], NEW b \in [v : Int, scale : Int]
  PROVE  /\ align_decimals(a, b).x \in [v : Int, scale : Int]
         /\ align_decimals(a, b).y \in [v : Int, scale : Int]
         /\ align_decimals(a, b).x.v = Unscaled(a, Larger(a.scale, b.scale))
         /\ align_decimals(a, b).y.v = Unscaled(b, Larger(a.scale, b.scale))
<1>1. PICK s \in Int, t \in Int, v \in Int, u \in Int :
        s = a.scale /\ t = b.scale /\ v = a.v /\ u = b.v
  OBVIOUS
<1>2. Pow(10, 0) = 1 /\ v * 1 = v /\ u * 1 = u
  BY PowZero
<1>3. CASE s < t
  <2>1. t - s \in Nat /\ t - t = 0 /\ Larger(s, t) = t
    BY <1>3 DEF Larger
  <2>2. v * Pow(10, t - s) \in Int
    <3>1. Pow(10, t - s) \in Int
      BY <2>1, PowInt
    <3> QED
      BY <3>1
  <2>3. align_decimals(a, b) = [x |-> [a EXCEPT !.v = v * Pow(10, t - s)], y |-> b]
    BY <1>1, <1>3 DEF align_decimals
  <2> QED
    BY <1>1, <1>2, <2>1, <2>2, <2>3 DEF Unscaled
<1>4. CASE t < s
  <2>1. s - t \in Nat /\ s - s = 0 /\ Larger(s, t) = s
    BY <1>4 DEF Larger
  <2>2. u * Pow(10, s - t) \in Int
    <3>1. Pow(10, s - t) \in Int
      BY <2>1, PowInt
    <3> QED
      BY <3>1
  <2>3. align_decimals(a, b) = [x |-> a, y |-> [b EXCEPT !.v = u * Pow(10, s - t)]]
    BY <1>1, <1>4 DEF align_decimals
  <2> QED
    BY <1>1, <1>2, <2>1, <2>2, <2>3 DEF Unscaled
<1>5. CASE s = t
  <2>1. s - s = 0 /\ Larger(s, t) = s
    BY <1>5 DEF Larger
  <2>2. align_decimals(a, b) = [x |-> a, y |-> b]
    BY <1>1, <1>5 DEF align_decimals
  <2> QED
    BY <1>1, <1>2, <1>5, <2>1, <2>2 DEF Unscaled
<1> QED
  BY <1>3, <1>4, <1>5

(* It is another number then, unless it is zero.                           *)
LEMMA RescaledIs ==
  ASSUME NEW a \in [v : Int, scale : Int], NEW b \in [v : Int, scale : Int]
  PROVE  /\ align_decimals(a, b).x # a <=> a.scale < b.scale /\ a.v # 0
         /\ align_decimals(a, b).y # b <=> b.scale < a.scale /\ b.v # 0
<1>1. PICK s \in Int, t \in Int, v \in Int, u \in Int :
        s = a.scale /\ t = b.scale /\ v = a.v /\ u = b.v
  OBVIOUS
<1>2. ASSUME NEW n \in Int, NEW i \in Int, NEW j \in Int, i < j
      PROVE  n * Pow(10, j - i) # n <=> n # 0
  <2>1. PICK k \in Nat : k = j - i /\ k >= 1
    BY <1>2
  <2>2. Pow(10, k) > k /\ Pow(10, k) \in Int
    <3>1. 10 \in Nat /\ 10 > 1 /\ 10 \in Int
      OBVIOUS
    <3> QED
      BY <3>1, PowExceeds, PowInt
  <2>3. PICK p \in Int : p = Pow(10, k) /\ p > 1
    <3>1. PICK p : p = Pow(10, k)
      OBVIOUS
    <3> QED
      BY <2>1, <2>2, <3>1
  <2>4. n * p - n = n * (p - 1) /\ p - 1 > 0
    BY <2>3
  <2>5. n > 0 => n * (p - 1) > 0
    BY <2>3
  <2>6. n < 0 => n * (p - 1) < 0
    BY <2>3
  <2>7. n * p # n <=> n # 0
    BY <2>3, <2>4, <2>5, <2>6
  <2> QED
    BY <2>1, <2>3, <2>7
<1>3. /\ s < t => (v * Pow(10, t - s) # v <=> v # 0)
      /\ t < s => (u * Pow(10, s - t) # u <=> u # 0)
  BY <1>2
<1>4. ASSUME NEW d \in [v : Int, scale : Int], NEW n
      PROVE  [d EXCEPT !.v = n] # d <=> n # d.v
  OBVIOUS
<1>5. CASE s < t
  <2>1. align_decimals(a, b) = [x |-> [a EXCEPT !.v = v * Pow(10, t - s)], y |-> b]
    BY <1>1, <1>5 DEF align_decimals
  <2> QED
    BY <1>1, <1>3, <1>4, <1>5, <2>1
<1>6. CASE t < s
  <2>1. align_decimals(a, b) = [x |-> a, y |-> [b EXCEPT !.v = u * Pow(10, s - t)]]
    BY <1>1, <1>6 DEF align_decimals
  <2> QED
    BY <1>1, <1>3, <1>4, <1>6, <2>1
<1>7. CASE s = t
  BY <1>1, <1>7 DEF align_decimals
<1> QED
  BY <1>5, <1>6, <1>7

LEMMA DecimalsExact ==
  ASSUME NEW a \in [v : Int, scale : Int], NEW b \in [v : Int, scale : Int],
         NEW op \in {"add", "sub", "mul"}, NEW r \in Binary("Decimal", op, a, b)
  PROVE  DecimalExact(op, a, b, r.v)
<1>1. CASE op = "mul"
  <2>1. r = Ok(Decimal(a.v * b.v, a.scale + b.scale))
    BY <1>1 DEF Binary, Decimal_mul
  <2> QED
    BY <1>1, <2>1 DEF DecimalExact, Ok
<1>2. CASE op = "add"
  <2>1. r = Ok(Decimal(align_decimals(a, b).x.v + align_decimals(a, b).y.v, Larger(a.scale, b.scale)))
    BY <1>2 DEF Binary, Decimal_add
  <2>2. /\ r.v.v = align_decimals(a, b).x.v + align_decimals(a, b).y.v
        /\ r.v.scale = Larger(a.scale, b.scale)
    BY <2>1 DEF Ok, Decimal
  <2> QED
    BY <1>2, <2>2, AlignedIs DEF DecimalExact, Exact
<1>3. CASE op = "sub"
  <2>1. r = Ok(Decimal(align_decimals(a, b).x.v - align_decimals(a, b).y.v, Larger(a.scale, b.scale)))
    BY <1>3 DEF Binary, Decimal_sub
  <2>2. /\ r.v.v = align_decimals(a, b).x.v - align_decimals(a, b).y.v
        /\ r.v.scale = Larger(a.scale, b.scale)
    BY <2>1 DEF Ok, Decimal
  <2> QED
    BY <1>3, <2>2, AlignedIs DEF DecimalExact, Exact
<1> QED
  BY <1>1, <1>2, <1>3

-----------------------------------------------------------------------------
(* Text and back.                                                          *)

(* The decimal digits of a number, as the text of one has them.            *)
LEMMA DecimalDigits ==
  ASSUME NEW n \in Nat
  PROVE  /\ Digits(n, 10) \in Seq(0 .. 9) /\ Len(Digits(n, 10)) > 0
         /\ \A z \in Nat : Spelled(Zeros(z) \o Digits(n, 10), 10) = n
         /\ Spelled(Digits(n, 10), 10) = n
         /\ n # 0 => Digits(n, 10)[1] # 0
<1>1. PICK b \in Nat : b = 10
  OBVIOUS
<1>2. b > 1 /\ b - 1 = 9
  BY <1>1
<1>3. Digits(n, b) \in Seq(0 .. b - 1) /\ Len(Digits(n, b)) = Places(n, b) /\ Places(n, b) > 0
  BY <1>2, DigitsAre, PlacesIs
<1>4. \A z \in Nat : Spelled(Zeros(z) \o Digits(n, b), b) = n
  BY <1>2, SpelledDigits
<1>5. Spelled(Digits(n, b), b) = n
  BY <1>2, SpelledBack
<1>6. n # 0 => Digits(n, b)[1] # 0
  BY <1>2, LeadingDigit
<1> QED
  BY <1>1, <1>2, <1>3, <1>4, <1>5, <1>6

LEMMA IntegerText ==
  ASSUME NEW v \in Int, NEW s, s = AsInteger(php_driver_format_integer(v))
  PROVE  ((s.neg /\ v < 0) \/ (~s.neg /\ v >= 0)) /\ s.mag = Abs(v) /\ ~s.junk
<1>1. PICK n \in Nat : n = Abs(v)
  BY DEF Abs
<1>2. Spelled(Digits(n, 10), 10) = n
  BY DecimalDigits
<1>3. s = [neg |-> v < 0, mag |-> n, junk |-> FALSE]
  BY <1>1, <1>2 DEF AsInteger, php_driver_format_integer, DecimalText
<1>4. s.neg <=> (v < 0)
  <2>1. [neg |-> v < 0, mag |-> n, junk |-> FALSE].neg <=> (v < 0)
    BY Zenon
  <2> QED
    BY <1>3, <2>1, Zenon
<1>5. (v < 0) \/ (v >= 0 /\ ~(v < 0))
  OBVIOUS
<1>6. (s.neg /\ v < 0) \/ (~s.neg /\ v >= 0)
  BY <1>4, <1>5, Zenon
<1>7. s.mag = n /\ s.junk = FALSE
  BY <1>3
<1> QED
  BY <1>1, <1>6, <1>7, Zenon

LEMMA VarintText ==
  ASSUME NEW v \in Int
  PROVE  ThroughText("Varint", v) = Ok(v)
<1>1. PICK s : s = AsInteger(php_driver_format_integer(v))
  OBVIOUS
<1>2. ((s.neg /\ v < 0) \/ (~s.neg /\ v >= 0)) /\ s.mag = Abs(v) /\ ~s.junk
  BY <1>1, IntegerText
<1>3. php_driver_parse_varint(s) = Ok(v)
  BY <1>2 DEF php_driver_parse_varint, NoDigits, Abs
<1> QED
  BY <1>1, <1>3 DEF ThroughText

LEMMA BigintText ==
  ASSUME NEW v \in Int, Fits(LongBits, v)
  PROVE  ThroughText("Bigint", v) = Ok(v)
<1>1. PICK s : s = AsInteger(php_driver_format_integer(v))
  OBVIOUS
<1>2. ((s.neg /\ v < 0) \/ (~s.neg /\ v >= 0)) /\ s.mag = Abs(v) /\ ~s.junk
  BY <1>1, IntegerText
<1>3. PICK h \in Nat : /\ h > 1 /\ IntMin(LongBits) = -h /\ IntMax(LongBits) = h - 1
                       /\ Pow(2, LongBits) = 2 * h
  BY WidthsAre, WidthIs
<1>4. Abs(v) \in Nat /\ Abs(v) <= h /\ (v >= 0 => Abs(v) <= h - 1) /\ Abs(v) # NoDigits
  BY <1>3 DEF Fits, Abs, NoDigits
<1>5. strtoul(s) = Abs(v)
  BY <1>2, <1>3, <1>4 DEF strtoul
<1>6. Abs(v) % (2 * h) = Abs(v)
  <2>1. PICK m \in Nat : m = 2 * h
    OBVIOUS
  <2>2. m > 0 /\ Abs(v) \in 0 .. m - 1 /\ m * 0 + Abs(v) = Abs(v)
    BY <1>3, <1>4, <2>1
  <2>3. (m * 0 + Abs(v)) % m = Abs(v)
    BY <2>2, DivModUnique
  <2> QED
    BY <2>1, <2>2, <2>3
<1>7. ParseInteger(LongBits, s) = Ok(IF s.neg THEN -Abs(v) ELSE Abs(v))
  <2>1. strtoul(s) % Pow(2, LongBits) = Abs(v)
    BY <1>3, <1>5, <1>6
  <2>2. ~(Abs(v) > IntMax(LongBits) + (IF s.neg THEN 1 ELSE 0))
    BY <1>2, <1>3, <1>4
  <2>3. ~(s.mag >= Pow(2, LongBits)) /\ s.mag # NoDigits /\ ~s.junk
    BY <1>2, <1>3, <1>4
  <2> QED
    BY <2>1, <2>2, <2>3 DEF ParseInteger
<1>8. (IF s.neg THEN -Abs(v) ELSE Abs(v)) = v
  BY <1>2 DEF Abs
<1> QED
  BY <1>1, <1>7, <1>8 DEF ThroughText, php_driver_parse_bigint

(* A decimal text whose digits spell the magnitude is read as the value,   *)
(* unless it has no dot and starts with a zero, that is octal, or has both *)
(* a dot and an exponent, that is refused.                                 *)
LEMMA ReadDecimal ==
  ASSUME NEW t, NEW v \in Int, (t.neg /\ v < 0) \/ (~t.neg /\ v >= 0), t.dots \in {0, 1}, t.exp # MissingExponent,
         t.int # <<>>, t.int \o t.frac # <<>>,
         Spelled(t.int \o t.frac, 10) = Abs(v), t.dots = 1 \/ t.int[1] # 0,
         t.dots = 0 \/ t.exp = NoExponent
  PROVE  php_driver_parse_decimal(t) =
           Ok([v |-> v, scale |-> Len(t.frac) - (IF t.exp = NoExponent THEN 0 ELSE t.exp)])
<1>1. (IF t.neg THEN -1 ELSE 1) * Abs(v) = v
  BY DEF Abs
<1>2. ~(t.int # <<>> /\ t.int[1] = 0 /\ t.dots = 0) /\ ~(t.dots > 1)
  OBVIOUS
<1> QED
  BY <1>1, <1>2 DEF php_driver_parse_decimal

(* Zero is the one number written with a leading zero and no dot.          *)
LEMMA ZeroText ==
  /\ Digits(0, 10) = <<0>>
  /\ php_driver_parse_decimal(DecimalText(0 < 0, <<0>>, 0, <<>>, NoExponent)) = Ok([v |-> 0, scale |-> 0])
<1>1. PICK n \in Nat, b \in Nat : n = 0 /\ b = 10
  OBVIOUS
<1>2. b > 1
  BY <1>1
<1>3. PICK c \in Nat : /\ c = Places(n, b) /\ c > 0
                       /\ c = 1 \/ Pow(b, c - 1) <= n
  BY <1>2, PlacesIs
<1>4. c = 1
  <2>1. c - 1 \in Nat /\ b > 0
    BY <1>2, <1>3
  <2>2. Pow(b, c - 1) \in Int /\ Pow(b, c - 1) > 0
    BY <2>1, PowPos, PowInt
  <2> QED
    BY <1>1, <1>3, <2>2
<1>5. Digits(n, b)[1] = 0
  <2>1. Digits(n, b)[1] = n \div Pow(b, c - 1)
    BY <1>2, <1>3, LeadingDigit
  <2>2. c - 1 = 0 /\ Pow(b, 0) = 1
    BY <1>4, PowZero
  <2> QED
    BY <1>1, <2>1, <2>2
<1>6. Digits(n, b) \in Seq(0 .. b - 1) /\ Len(Digits(n, b)) = 1
  BY <1>2, <1>3, <1>4, DigitsAre
<1>7. Digits(n, b) = <<0>>
  BY <1>5, <1>6
<1>8. Spelled(<<0>>, 8) = 0
  <2>1. PICK s : s = [i \in 0 .. 1 |-> 0]
    OBVIOUS
  <2>2. <<0>> \in Seq(Int) /\ Len(<<0>>) = 1
    OBVIOUS
  <2>3. s[0] = 0 /\ \A i \in 1 .. Len(<<0>>) : s[i] = s[i - 1] * 8 + <<0>>[i]
    BY <2>1, <2>2
  <2>4. PICK ds : ds = <<0>>
    OBVIOUS
  <2>7. PICK e \in Int : e = 8
    OBVIOUS
  <2>5. /\ ds \in Seq(Int) /\ s[0] = 0
        /\ \A i \in 1 .. Len(ds) : s[i] = s[i - 1] * e + ds[i]
    BY <2>1, <2>2, <2>3, <2>4, <2>7
  <2>6. Spelled(ds, e) = s[Len(ds)]
    BY <2>5, SpelledIs
  <2> QED
    BY <2>1, <2>2, <2>4, <2>6, <2>7
<1>9. PICK t : t = DecimalText(0 < 0, <<0>>, 0, <<>>, NoExponent)
  OBVIOUS
<1>10. t.int = <<0>> /\ t.dots = 0 /\ t.frac = <<>> /\ t.exp = NoExponent
  BY <1>9 DEF DecimalText
<1>11. t.int \o t.frac = <<0>>
  BY <1>10
<1>12. (IF t.neg THEN -1 ELSE 1) * 0 = 0
  OBVIOUS
<1>13. php_driver_parse_decimal(t) = Ok([v |-> 0, scale |-> 0])
  <2>1. t.int # <<>> /\ t.int[1] = 0 /\ t.dots = 0 /\ ~(t.dots > 1)
    BY <1>10
  <2>2. ~(t.exp # NoExponent \/ \E i \in 1 .. Len(t.int) : t.int[i] > 7)
    BY <1>10
  <2>3. (IF t.neg THEN -1 ELSE 1) * Spelled(t.int \o t.frac, 8) = 0
    BY <1>8, <1>11, <1>12
  <2> QED
    BY <2>1, <2>2, <2>3 DEF php_driver_parse_decimal
<1> QED
  BY <1>1, <1>7, <1>9, <1>13

LEMMA DigitsBehind ==
  ASSUME NEW ds \in Seq(0 .. 9), NEW p \in Nat, p + 1 <= Len(ds)
  PROVE  /\ SubSeq(ds, p + 1, Len(ds)) \in Seq(0 .. 9)
         /\ Len(SubSeq(ds, p + 1, Len(ds))) = Len(ds) - p
OBVIOUS

LEMMA DecimalsText ==
  ASSUME NEW d \in [v : Int, scale : Int], ~Unreadable(d)
  PROVE  ThroughText("Decimal", d) = Ok(d)
<1>1. PICK v \in Int, s \in Nat : v = d.v /\ s = d.scale /\ d = [v |-> v, scale |-> s]
  <2>1. d.scale >= 0
    BY DEF Unreadable
  <2> QED
    BY <2>1
<1>2. PICK n \in Nat : n = Abs(v) /\ (v # 0 => n # 0)
  BY DEF Abs
<1>3. PICK ds \in Seq(0 .. 9) :
        /\ ds = Digits(n, 10) /\ Len(ds) > 0
        /\ \A z \in Nat : Spelled(Zeros(z) \o ds, 10) = n
        /\ Spelled(ds, 10) = n
        /\ n # 0 => ds[1] # 0
  BY DecimalDigits
<1>4. PICK l \in Nat, p \in Int : l = Len(ds) /\ l > 0 /\ p = l - s
  BY <1>3, LenProperties
<1>5. ds # <<>> /\ NoExponent # MissingExponent
  BY <1>3 DEF NoExponent, MissingExponent
<1> DEFINE Goal(t) == php_driver_parse_decimal(t) = Ok([v |-> v, scale |-> s])
<1>6. ASSUME NEW int, NEW frac, NEW exp, exp # MissingExponent, int # <<>>, int \o frac # <<>>,
             Spelled(int \o frac, 10) = n,
             Len(frac) - (IF exp = NoExponent THEN 0 ELSE exp) = s
      PROVE  /\ exp = NoExponent => Goal(DecimalText(v < 0, int, 1, frac, exp))
             /\ int[1] # 0 => Goal(DecimalText(v < 0, int, 0, frac, exp))
  <2>1. ASSUME NEW dots \in {0, 1}, dots = 1 \/ int[1] # 0, dots = 0 \/ exp = NoExponent
        PROVE  Goal(DecimalText(v < 0, int, dots, frac, exp))
    <3>1. PICK t : t = DecimalText(v < 0, int, dots, frac, exp)
      OBVIOUS
    <3>2. t.int = int /\ t.dots = dots /\ t.frac = frac /\ t.exp = exp
      BY <3>1 DEF DecimalText
    <3>3. t.neg <=> (v < 0)
      <4>1. DecimalText(v < 0, int, dots, frac, exp).neg <=> (v < 0)
        BY Zenon DEF DecimalText
      <4> QED
        BY <3>1, <4>1, Zenon
    <3>4. (v < 0) \/ (v >= 0 /\ ~(v < 0))
      OBVIOUS
    <3>5. (t.neg /\ v < 0) \/ (~t.neg /\ v >= 0)
      BY <3>3, <3>4, Zenon
    <3>6. Spelled(t.int \o t.frac, 10) = Abs(v) /\ (t.dots = 1 \/ t.int[1] # 0) /\ t.dots \in {0, 1}
      BY <1>2, <1>6, <2>1, <3>2
    <3>7. /\ t.exp # MissingExponent /\ t.int # <<>> /\ t.int \o t.frac # <<>>
          /\ t.dots = 0 \/ t.exp = NoExponent
      BY <1>6, <2>1, <3>2
    <3>8. php_driver_parse_decimal(t) =
            Ok([v |-> v, scale |-> Len(t.frac) - (IF t.exp = NoExponent THEN 0 ELSE t.exp)])
      BY <3>5, <3>6, <3>7, ReadDecimal
    <3>9. Len(t.frac) - (IF t.exp = NoExponent THEN 0 ELSE t.exp) = s
      BY <1>6, <3>2
    <3> QED
      BY <3>1, <3>8, <3>9
  <2> QED
    BY <2>1
<1> HIDE DEF Goal
<1>12. ASSUME NEW t, php_driver_format_decimal(v, s) = Ok(t), Goal(t)
      PROVE  ThroughText("Decimal", d) = Ok(d)
  BY <1>1, <1>12 DEF ThroughText, Read, Decimal_to_string, Ok, Goal
<1>7. CASE s = 0 /\ v # 0
  <2>1. php_driver_format_decimal(v, s) = Ok(DecimalText(v < 0, ds, 0, <<>>, NoExponent))
    BY <1>2, <1>3, <1>7 DEF php_driver_format_decimal
  <2>2. ds \o <<>> = ds /\ Len(<<>>) - (IF NoExponent = NoExponent THEN 0 ELSE NoExponent) = s
    BY <1>7, ConcatEmptySeq
  <2>3. ds[1] # 0
    BY <1>2, <1>3, <1>7
  <2>4. Goal(DecimalText(v < 0, ds, 0, <<>>, NoExponent))
    BY <1>2, <1>3, <1>5, <2>2, <2>3, <1>6
  <2> QED
    BY <2>1, <2>4, <1>12
<1>8. CASE s = 0 /\ v = 0
  <2>1. n = 0
    BY <1>2, <1>8 DEF Abs
  <2>2. php_driver_format_decimal(v, s) = Ok(DecimalText(0 < 0, <<0>>, 0, <<>>, NoExponent))
    BY <1>2, <1>3, <1>8, <2>1, ZeroText DEF php_driver_format_decimal
  <2> QED
    BY <1>8, <1>12, <2>2, ZeroText DEF Goal
<1>9. CASE s > 0 /\ p - 1 >= -6 /\ p <= 0
  <2>1. PICK f : f = Zeros(-p) \o ds
    OBVIOUS
  <2>2. php_driver_format_decimal(v, s) = Ok(DecimalText(v < 0, <<0>>, 1, f, NoExponent))
    BY <1>2, <1>3, <1>4, <1>9, <2>1 DEF php_driver_format_decimal
  <2>3. /\ -p \in Nat /\ Zeros(-p) \in Seq(0 .. 9) /\ Len(Zeros(-p)) = -p
        /\ Zeros(-p + 1) \in Seq(0 .. 9) /\ Len(Zeros(-p + 1)) = -p + 1
    <3>1. ASSUME NEW z \in Nat PROVE Zeros(z) \in Seq(0 .. 9) /\ Len(Zeros(z)) = z
      <4>1. Zeros(z) \in [1 .. z -> 0 .. 9]
        BY DEF Zeros
      <4>2. Zeros(z) \in Seq(0 .. 9)
        BY <4>1, SeqDef
      <4> QED
        BY <4>1, <4>2, LenProperties
    <3>2. -p \in Nat /\ -p + 1 \in Nat
      BY <1>9
    <3> QED
      BY <3>1, <3>2
  <2>4. f \in Seq(0 .. 9) /\ Len(f) = s
    <3>1. f \in Seq(0 .. 9) /\ Len(f) = Len(Zeros(-p)) + Len(ds)
      BY <2>1, <2>3, ConcatProperties
    <3>2. Len(Zeros(-p)) = -p /\ Len(ds) = l
      BY <1>4, <2>3
    <3>3. Len(f) = -p + l
      BY <3>1, <3>2, Zenon
    <3>4. -p + l = s
      BY <1>4
    <3> QED
      BY <3>1, <3>3, <3>4, Zenon
  <2>5. <<0>> \o f = Zeros(-p + 1) \o ds
    <3>1. <<0>> \o Zeros(-p) = Zeros(-p + 1)
      <4>1. <<0>> \in Seq(0 .. 9)
        OBVIOUS
      <4>2. PICK e \in Seq(0 .. 9) : e = <<0>> \o Zeros(-p)
        BY <2>3, <4>1, ConcatProperties
      <4>3. Len(e) = -p + 1 /\ \A i \in 1 .. Len(e) : e[i] = 0
        BY <2>3, <4>2 DEF Zeros
      <4>4. \A i \in 1 .. Len(Zeros(-p + 1)) : Zeros(-p + 1)[i] = 0
        BY <2>3 DEF Zeros
      <4> QED
        BY <2>3, <4>2, <4>3, <4>4, SeqEqual
    <3>2. <<0>> \o f = (<<0>> \o Zeros(-p)) \o ds
      <4>1. <<0>> \in Seq(0 .. 9) /\ Zeros(-p) \in Seq(0 .. 9) /\ ds \in Seq(0 .. 9)
        BY <1>3, <2>3
      <4>2. (<<0>> \o Zeros(-p)) \o ds = <<0>> \o (Zeros(-p) \o ds)
        BY <4>1, ConcatAssociative, SMTT(30)
      <4> QED
        BY <2>1, <4>2, Zenon
    <3> QED
      BY <3>1, <3>2, Zenon
  <2>6. Spelled(<<0>> \o f, 10) = Abs(v) /\ <<0>> \o f # <<>>
    <3>1. -p + 1 \in Nat
      BY <2>3
    <3>2. <<0>> \o f # <<>>
      BY <2>4
    <3> QED
      BY <1>2, <1>3, <2>5, <3>1, <3>2
  <2>7. Goal(DecimalText(v < 0, <<0>>, 1, f, NoExponent))
    <3>1. Len(f) - (IF NoExponent = NoExponent THEN 0 ELSE NoExponent) = s
      BY <2>4
    <3>2. <<0>> # <<>>
      OBVIOUS
    <3>3. Spelled(<<0>> \o f, 10) = n
      BY <1>2, <2>6
    <3> QED
      BY <1>5, <1>6, <2>6, <3>1, <3>2, <3>3, Zenon
  <2> QED
    BY <1>12, <2>2, <2>7
<1>10. CASE s > 0 /\ p > 0
  <2>1. PICK i, f : i = SubSeq(ds, 1, p) /\ f = SubSeq(ds, p + 1, Len(ds))
    OBVIOUS
  <2>2. php_driver_format_decimal(v, s) = Ok(DecimalText(v < 0, i, 1, f, NoExponent))
    BY <1>2, <1>3, <1>4, <1>10, <2>1 DEF php_driver_format_decimal
  <2>3. p \in 1 .. l /\ p + 1 \in 1 .. l
    BY <1>4, <1>10
  <2>4. i \in Seq(0 .. 9) /\ Len(i) = p /\ f \in Seq(0 .. 9) /\ Len(f) = s
    <3>1. 1 \in 1 .. Len(ds) + 1 /\ p + 1 \in 1 .. Len(ds) + 1 /\ p \in 1 .. Len(ds) /\ Len(ds) \in 1 .. Len(ds)
      BY <1>4, <2>3
    <3>2. i \in Seq(0 .. 9) /\ Len(i) = p
      <4>1. \A j \in 1 .. p : ds[j] \in 0 .. 9
        BY <1>4, <2>3
      <4> QED
        BY <2>1, <2>3, <4>1, SubSeqProperties
    <3>3. f \in Seq(0 .. 9) /\ Len(f) = Len(ds) - p
      <4>1. p \in Nat /\ p + 1 <= Len(ds)
        BY <1>4, <2>3
      <4>2. ds \in Seq(0 .. 9)
        BY <1>3
      <4> QED
        BY <2>1, <4>1, <4>2, DigitsBehind, Zenon
    <3> QED
      BY <1>4, <3>2, <3>3
  <2>5. i \o f = ds
    <3>1. ds = SubSeq(ds, 1, Len(ds))
      BY SubSeqFull
    <3>2. p \in 1 .. Len(ds) /\ Len(ds) \in p .. Len(ds) /\ 1 \in 1 .. Len(ds)+1 /\ p \in 0 .. Len(ds)
      BY <1>4, <2>3
    <3>3. SubSeq(ds, 1, p) \o SubSeq(ds, p + 1, Len(ds)) = SubSeq(ds, 1, Len(ds))
      BY <3>2, ConcatAdjacentSubSeq
    <3> QED
      BY <2>1, <3>1, <3>3
  <2>6. i # <<>> /\ Spelled(i \o f, 10) = Abs(v)
    BY <1>2, <1>3, <2>3, <2>4, <2>5
  <2>7. Goal(DecimalText(v < 0, i, 1, f, NoExponent))
    <3>1. Len(f) - (IF NoExponent = NoExponent THEN 0 ELSE NoExponent) = s
      BY <2>4
    <3>2. i \o f # <<>> /\ Spelled(i \o f, 10) = n
      BY <1>3, <1>5, <2>5
    <3> QED
      BY <1>5, <1>6, <2>6, <3>1, <3>2, Zenon
  <2> QED
    BY <1>12, <2>2, <2>7
<1>11. CASE s > 0 /\ p - 1 < -6
  <2>1. v # 0 /\ ds[1] # 0 /\ l = 1
    <3>1. ~(d.v = 0 \/ Len(Digits(Abs(d.v), 10)) > 1)
      <4>1. Len(Digits(Abs(d.v), 10)) = l /\ d.scale = s /\ l - s < -5
        BY <1>1, <1>2, <1>3, <1>4, <1>11
      <4> QED
        BY <4>1 DEF Unreadable
    <3>2. Len(Digits(Abs(d.v), 10)) = l
      BY <1>1, <1>2, <1>3, <1>4
    <3>3. v # 0 /\ l = 1
      BY <1>1, <1>4, <3>1, <3>2
    <3> QED
      BY <1>2, <1>3, <3>3
  <2>2. p - 1 # MissingExponent /\ p - 1 # NoExponent
    BY <1>11 DEF MissingExponent, NoExponent
  <2>3. php_driver_format_decimal(v, s) = Ok(DecimalText(v < 0, ds, 0, <<>>, p - 1))
    BY <1>2, <1>3, <1>4, <1>11, <2>1 DEF php_driver_format_decimal
  <2>4. ds \o <<>> = ds /\ Len(<<>>) - (IF p - 1 = NoExponent THEN 0 ELSE p - 1) = s
    BY <1>4, <2>1, <2>2, ConcatEmptySeq
  <2>5. Goal(DecimalText(v < 0, ds, 0, <<>>, p - 1))
    BY <1>2, <1>3, <1>5, <2>1, <2>2, <2>4, <1>6
  <2> QED
    BY <1>12, <2>3, <2>5
<1> QED
  BY <1>7, <1>8, <1>9, <1>10, <1>11

(* The others are not read at all.                                         *)
LEMMA UnreadableText ==
  ASSUME NEW d \in [v : Int, scale : Int], Unreadable(d)
  PROVE  ThroughText("Decimal", d).exc # "none"
<1>1. PICK v \in Int, s \in Int : v = d.v /\ s = d.scale
  OBVIOUS
<1>2. PICK n \in Nat : n = Abs(v) /\ (v = 0 => n = 0)
  BY DEF Abs
<1>3. PICK ds \in Seq(0 .. 9) : ds = Digits(n, 10) /\ Len(ds) > 0
  BY DecimalDigits
<1>4. PICK l \in Nat, p \in Int : l = Len(ds) /\ l > 0 /\ p = l - s
  BY <1>3, LenProperties
<1>5. s < 0 \/ (p - 1 < -6 /\ (v = 0 \/ l > 1))
  <2>1. Len(Digits(Abs(d.v), 10)) = l
    BY <1>1, <1>2, <1>3, <1>4
  <2>2. s < 0 \/ (l - s < -5 /\ (v = 0 \/ l > 1))
    BY <1>1, <2>1 DEF Unreadable
  <2> QED
    BY <1>4, <2>2
<1>6. CASE s < 0
  <2>1. php_driver_format_decimal(v, s) = Throw("abort")
    BY <1>6 DEF php_driver_format_decimal
  <2> QED
    BY <1>1, <2>1 DEF ThroughText, Read, Decimal_to_string, Throw
<1> DEFINE Refused(t) == php_driver_parse_decimal(t) = Throw("invalid")
<1>7. ASSUME NEW t, php_driver_format_decimal(v, s) = Ok(t), Refused(t)
      PROVE  ThroughText("Decimal", d).exc # "none"
  BY <1>1, <1>7 DEF ThroughText, Read, Decimal_to_string, Ok, Throw
<1>8. CASE s > 0 /\ p - 1 < -6 /\ v = 0
  <2>1. ds = <<0>> /\ l = 1
    BY <1>2, <1>3, <1>4, <1>8, ZeroText
  <2>2. l = 1
    BY <2>1
  <2>3. PICK t : t = DecimalText(v < 0, ds, 0, <<>>, p - 1)
    OBVIOUS
  <2>4. php_driver_format_decimal(v, s) = Ok(t)
    BY <1>2, <1>3, <1>4, <1>8, <2>2, <2>3 DEF php_driver_format_decimal
  <2>5. t.int = <<0>> /\ t.dots = 0 /\ t.exp # NoExponent
    BY <1>8, <2>1, <2>3 DEF DecimalText, NoExponent
  <2>6. Refused(t)
    BY <2>5 DEF php_driver_parse_decimal
  <2> QED
    BY <1>7, <2>4, <2>6
<1>9. CASE s > 0 /\ p - 1 < -6 /\ l > 1
  <2>1. PICK t : t = DecimalText(v < 0, <<ds[1]>>, 1, Tail(ds), p - 1)
    OBVIOUS
  <2>2. s > 0 /\ p - 1 < -6 /\ l # 1
    BY <1>9
  <2>3. php_driver_format_decimal(v, s) = Ok(DecimalText(v < 0, <<ds[1]>>, 1, Tail(ds), p - 1))
    BY <1>2, <1>3, <1>4, <2>2 DEF php_driver_format_decimal
  <2>4. t.dots = 1 /\ t.exp # NoExponent
    BY <1>9, <2>1 DEF DecimalText, NoExponent
  <2>5. Refused(t)
    BY <2>4 DEF php_driver_parse_decimal
  <2> QED
    BY <1>7, <2>1, <2>3, <2>5
<1> QED
  BY <1>4, <1>5, <1>6, <1>8, <1>9

LEMMA MagnitudeIs ==
  ASSUME NEW w \in Nat, w > 1, NEW n \in Int, Fits(w, n), n # IntMin(w)
  PROVE  Magnitude(w, n) = Abs(n)
<1>1. -n \in Int /\ Fits(w, -n)
  BY AbsFits
<1>2. Wrap(w, -n) = -n
  BY <1>1, WrapIs
<1> QED
  BY <1>2 DEF Magnitude, Abs

LEMMA DurationText ==
  ASSUME NEW v, IsDuration(v), \A i \in 1 .. 3 : v[i] \notin {IntMin(IntBits), IntMin(LongBits)}
  PROVE  ThroughText("Duration", v) = Ok(v)
<1>1. PICK m \in Int, d \in Int, n \in Int :
        /\ v = <<m, d, n>> /\ Fits(IntBits, m) /\ Fits(IntBits, d) /\ Fits(LongBits, n)
        /\ SameSign({m, d, n})
  BY DEF IsDuration
<1>2. v[1] = m /\ v[2] = d /\ v[3] = n
  BY <1>1
<1>3. m # IntMin(IntBits) /\ d # IntMin(IntBits) /\ n # IntMin(LongBits)
  <2>1. 1 \in 1 .. 3 /\ 2 \in 1 .. 3 /\ 3 \in 1 .. 3
    OBVIOUS
  <2> QED
    BY <1>2, <2>1, Zenon
<1>4. /\ Magnitude(IntBits, m) = Abs(m) /\ Magnitude(IntBits, d) = Abs(d)
      /\ Magnitude(LongBits, n) = Abs(n)
  BY <1>1, <1>3, WidthsAre, MagnitudeIs
<1>5. PICK t : t = php_driver_duration_to_string(v)
  OBVIOUS
<1>6. t.parts = <<Abs(m), Abs(d), Abs(n)>>
  BY <1>2, <1>4, <1>5 DEF php_driver_duration_to_string
<1>7. t.neg <=> (\E i \in 1 .. 3 : v[i] < 0)
  <2>1. php_driver_duration_to_string(v).neg <=> (\E i \in 1 .. 3 : v[i] < 0)
    BY Zenon DEF php_driver_duration_to_string
  <2> QED
    BY <1>5, <2>1, Zenon
<1>8. (\E i \in 1 .. 3 : v[i] < 0) => m <= 0 /\ d <= 0 /\ n <= 0
  BY <1>1, <1>2 DEF SameSign
<1>9. ~(\E i \in 1 .. 3 : v[i] < 0) => m >= 0 /\ d >= 0 /\ n >= 0
  BY <1>1, <1>2
<1>10. /\ m <= 0 /\ d <= 0 /\ n <= 0 => -Abs(m) = m /\ -Abs(d) = d /\ -Abs(n) = n
       /\ m >= 0 /\ d >= 0 /\ n >= 0 => Abs(m) = m /\ Abs(d) = d /\ Abs(n) = n
  BY DEF Abs
<1>11. [i \in 1 .. 3 |-> IF t.neg THEN -t.parts[i] ELSE t.parts[i]] = v
  <2>1. CASE t.neg
    <3>1. -Abs(m) = m /\ -Abs(d) = d /\ -Abs(n) = n
      BY <1>7, <1>8, <1>10, <2>1
    <3>2. [i \in 1 .. 3 |-> IF t.neg THEN -t.parts[i] ELSE t.parts[i]] =
            <<-t.parts[1], -t.parts[2], -t.parts[3]>>
      BY <2>1
    <3> QED
      BY <1>1, <1>6, <3>1, <3>2
  <2>2. CASE ~t.neg
    <3>1. Abs(m) = m /\ Abs(d) = d /\ Abs(n) = n
      BY <1>7, <1>9, <1>10, <2>2
    <3>2. [i \in 1 .. 3 |-> IF t.neg THEN -t.parts[i] ELSE t.parts[i]] =
            <<t.parts[1], t.parts[2], t.parts[3]>>
      BY <2>2
    <3> QED
      BY <1>1, <1>6, <3>1, <3>2
  <2> QED
    BY <2>1, <2>2
<1> QED
  BY <1>5, <1>11 DEF ThroughText

(* The wire.                                                               *)
LEMMA WireBack ==
  ASSUME NEW c \in {"Varint", "Decimal"}, NEW v, IsValue(c, v)
  PROVE  ThroughWire(c, v).v # v <=> Imitates(IF c = "Decimal" THEN v.v ELSE v)
<1>1. CASE c = "Varint"
  <2>1. v \in Int
    BY <1>1 DEF IsValue
  <2>2. import_twos_complement(export_twos_complement(v)) # v <=> Imitates(v)
    BY <2>1, WireExact, WireWrong
  <2>3. ThroughWire(c, v).v = import_twos_complement(export_twos_complement(v))
    BY <1>1 DEF ThroughWire, Ok
  <2> QED
    BY <1>1, <2>2, <2>3
<1>2. CASE c = "Decimal"
  <2>1. v \in [v : Int, scale : Int]
    BY <1>2 DEF IsValue
  <2>2. PICK a \in Int : a = v.v
    BY <2>1
  <2>3. PICK b : b = import_twos_complement(export_twos_complement(a))
    OBVIOUS
  <2>4. b # a <=> Imitates(a)
    BY <2>3, WireExact, WireWrong
  <2>5. ThroughWire(c, v) = Ok([v EXCEPT !.v = b])
    BY <1>2, <2>2, <2>3 DEF ThroughWire
  <2>6. [v EXCEPT !.v = b] # v <=> b # a
    <3>1. [v EXCEPT !.v = a] = v
      BY <2>1, <2>2
    <3>2. [v EXCEPT !.v = b].v = b
      BY <2>1
    <3> QED
      BY <2>2, <3>1, <3>2
  <2> QED
    BY <1>2, <2>2, <2>4, <2>5, <2>6 DEF Ok
<1> QED
  BY <1>1, <1>2

-----------------------------------------------------------------------------
(* Times and dates.                                                        *)

LEMMA TimestampFields ==
  ASSUME NEW s \in Int, NEW us \in Nat, NEW ts, ts = Timestamp_init(s, us)
  PROVE  /\ ts \in Int /\ Fits(LongBits, ts)
         /\ Timestamp_init(Timestamp_properties(ts).seconds, Timestamp_properties(ts).microseconds) = ts
<1>1. Milli \in Int /\ Milli # 0
  BY UnitsAre
<1>2. Quot(us, Milli) + s * Milli \in Int
  <2>1. Quot(us, Milli) \in Int
    BY <1>1, QuotRem
  <2> QED
    BY <1>1, <2>1
<1>3. ts \in Int /\ Fits(LongBits, ts)
  BY <1>2, WidthsAre, WrapIs DEF Timestamp_init
<1>4. PICK sec \in Int : sec = Quot(ts, Milli)
  BY <1>1, <1>3, QuotRem
<1>5. PICK q \in Int : q = sec * Milli
  BY <1>1
<1>6. ts - q \in Int
  BY <1>3
<1>7. Quot((ts - q) * Milli, Milli) = ts - q
  BY <1>1, <1>6, QuotExact
<1>8. /\ Timestamp_properties(ts).seconds = sec
      /\ Timestamp_properties(ts).microseconds = (ts - q) * Milli
  BY <1>4, <1>5 DEF Timestamp_properties
<1>9. Timestamp_init(sec, (ts - q) * Milli) = Wrap(LongBits, (ts - q) + q)
  BY <1>5, <1>7 DEF Timestamp_init
<1>10. (ts - q) + q = ts
  BY <1>3
<1>11. Wrap(LongBits, ts) = ts
  BY <1>3, WidthsAre, WrapIs
<1> QED
  BY <1>3, <1>8, <1>9, <1>10, <1>11

(* A time of day is a second of the day and a rest.                        *)
LEMMA SecondOfDay ==
  ASSUME NEW t \in 0 .. LastNs
  PROVE  /\ t \div NsPerSecond \in 0 .. DaySeconds - 1
         /\ t - (t \div NsPerSecond) * NsPerSecond \in Int
<1>1. PICK n \in Nat, d \in Nat : n = NsPerSecond /\ d = DaySeconds /\ n > 0 /\ d > 0
  BY UnitsAre
<1>2. t \in Int /\ t >= 0 /\ t < d * n
  <2>1. d * n \in Int
    BY <1>1
  <2> QED
    BY <1>1, <2>1 DEF LastNs
<1>3. PICK q \in Int, r \in 0 .. n - 1 : q = t \div n /\ t = n * q + r
  <2>1. t \div n \in Int /\ t % n \in 0 .. n - 1 /\ t = n * (t \div n) + (t % n)
    BY <1>1, <1>2, DivMod
  <2> QED
    BY <2>1
<1>4. q >= 0
  <2>1. q <= -1 => n * q <= -n
    BY <1>1
  <2> QED
    BY <1>1, <1>2, <1>3, <2>1
<1>5. q < d
  <2>1. q >= d => n * q >= n * d /\ n * d = d * n
    BY <1>1
  <2> QED
    BY <1>1, <1>2, <1>3, <2>1
<1> QED
  BY <1>1, <1>2, <1>3, <1>4, <1>5

LEMMA DateTimeBack ==
  ASSUME NEW d \in Int, NEW t \in 0 .. LastNs
  PROVE  /\ Date_fromDateTime(Date_toDateTime(d, t)) = d
         /\ Time_fromDateTime(Date_toDateTime(d, t)) = (t \div NsPerSecond) * NsPerSecond
<1>1. PICK m \in Nat : m = DaySeconds /\ m > 0
  BY UnitsAre
<1>2. PICK r \in 0 .. m - 1 : r = t \div NsPerSecond
  BY <1>1, SecondOfDay
<1>3. d * m = m * d
  BY <1>1
<1>4. Date_toDateTime(d, t) = m * d + r
  BY <1>1, <1>2, <1>3 DEF Date_toDateTime, cass_date_time_to_epoch
<1>5. (m * d + r) \div m = d /\ (m * d + r) % m = r
  BY <1>1, DivModUnique
<1> QED
  BY <1>1, <1>2, <1>4, <1>5 DEF Date_fromDateTime, Time_fromDateTime, cass_date_from_epoch,
                                cass_time_from_epoch

LEMMA ClockDate ==
  ASSUME NEW v \in Int
  PROVE  Date_init([kind |-> "long", n |-> Clock("Date", v).s]) = Ok(v)
<1>1. PICK m \in Nat : m = DaySeconds /\ m > 0
  BY UnitsAre
<1>2. 0 \div NsPerSecond = 0
  BY UnitsAre
<1>3. v * m = m * v /\ v * m \in Int
  BY <1>1
<1>4. Clock("Date", v).s = m * v + 0
  BY <1>1, <1>2, <1>3 DEF Clock, Date_seconds, cass_date_time_to_epoch
<1>5. (m * v + 0) \div m = v
  BY <1>1, DivModUnique
<1> QED
  BY <1>1, <1>4, <1>5 DEF Date_init, cass_date_from_epoch

LEMMA ClockTime ==
  ASSUME NEW v \in 0 .. LastNs
  PROVE  Time_fromDateTime(Clock("Time", v).s) + Clock("Time", v).sub = v
<1>1. PICK m \in Nat, n \in Nat : m = DaySeconds /\ m > 0 /\ n = NsPerSecond
  BY UnitsAre
<1>2. PICK s \in 0 .. m - 1 : s = v \div NsPerSecond
  BY <1>1, SecondOfDay
<1>3. Clock("Time", v) = [s |-> s, sub |-> v - s * n]
  BY <1>1, <1>2 DEF Clock, Time_seconds
<1>4. s % m = s
  <2>1. m * 0 + s = s /\ (m * 0 + s) % m = s
    BY <1>1, DivModUnique
  <2> QED
    BY <2>1
<1>5. PICK p \in Int : p = s * n
  BY <1>1
<1>6. Time_fromDateTime(s) = p
  BY <1>1, <1>4, <1>5 DEF Time_fromDateTime, cass_time_from_epoch
<1>7. v \in Int
  <2>1. LastNs \in Int
    BY UnitsAre DEF LastNs
  <2> QED
    BY <2>1
<1> QED
  BY <1>3, <1>5, <1>6, <1>7

LEMMA ClockTimestamp ==
  ASSUME NEW v \in Int
  PROVE  /\ Timestamp_toDateTime(v) = Clock("Timestamp", v).s
         /\ Clock("Timestamp", v).s * Milli + Clock("Timestamp", v).sub = v
<1>1. Milli \in Int /\ Milli # 0
  BY UnitsAre
<1>2. PICK s \in Int : s = Quot(v, Milli)
  BY <1>1, QuotRem
<1>3. PICK p \in Int : p = s * Milli
  BY <1>1
<1>4. Clock("Timestamp", v) = [s |-> s, sub |-> v - p]
  BY <1>2, <1>3 DEF Clock, Timestamp_time, Timestamp_microtime
<1>5. p + (v - p) = v
  OBVIOUS
<1> QED
  BY <1>2, <1>3, <1>4, <1>5 DEF Timestamp_toDateTime

LEMMA ClockTimeuuid ==
  ASSUME NEW v \in Int
  PROVE  /\ Timeuuid_toDateTime(v) = Clock("Timeuuid", v).s
         /\ Clock("Timeuuid", v).s * Milli + Clock("Timeuuid", v).sub = v
<1>1. PICK m \in Nat : m = Milli /\ m > 0
  BY UnitsAre
<1>2. v \div m \in Int /\ v % m \in 0 .. m - 1 /\ v = m * (v \div m) + (v % m)
  BY <1>1, DivMod
<1>3. (v \div m) * m = m * (v \div m)
  BY <1>1, <1>2
<1>4. Clock("Timeuuid", v) = [s |-> v \div m, sub |-> v % m]
  BY <1>1 DEF Clock, Timeuuid_time
<1> QED
  BY <1>1, <1>2, <1>3, <1>4 DEF Timeuuid_toDateTime

(* Two hexadecimal digits are a byte.                                      *)
LEMMA HexBack ==
  ASSUME NEW blob \in Seq(0 .. 255), NEW i \in 1 .. Len(blob)
  PROVE  php_driver_bytes_to_hex(blob)[2 * i - 1] * 16 + php_driver_bytes_to_hex(blob)[2 * i] = blob[i]
<1>1. PICK l \in Nat : l = Len(blob)
  BY LenProperties
<1>2. PICK v \in Int : v = blob[i]
  <2>1. blob[i] \in 0 .. 255
    BY ElementOfSeq
  <2>2. 0 .. 255 \subseteq Int
    OBVIOUS
  <2> QED
    BY <2>1, <2>2, Zenon
<1>3. 2 * i - 1 \in 1 .. 2 * l /\ 2 * i \in 1 .. 2 * l
  BY <1>1
<1>4. /\ (2 * i - 1) % 2 = 1 /\ ((2 * i - 1) + 1) \div 2 = i
      /\ (2 * i) % 2 # 1 /\ (2 * i) \div 2 = i
  BY <1>1
<1>5. php_driver_bytes_to_hex(blob)[2 * i - 1] = v \div 16
  BY <1>1, <1>2, <1>3, <1>4 DEF php_driver_bytes_to_hex
<1>6. php_driver_bytes_to_hex(blob)[2 * i] = v % 16
  BY <1>1, <1>2, <1>3, <1>4 DEF php_driver_bytes_to_hex
<1>7. (v \div 16) * 16 + (v % 16) = v
  OBVIOUS
<1> QED
  BY <1>2, <1>5, <1>6, <1>7

-----------------------------------------------------------------------------
(* The last call: what went in are values of the class, or what PHP code   *)
(* can pass, and what came out is what the method returns for them.        *)

Constructed ==
  /\ out.op = "new"
  /\ cls = "Duration" \/ (out.in \in Inputs(cls) /\ out.r \in Init_(cls, out.in))

(* The operands of add and sub are aligned by the call, others as before.  *)
Left(a, b) ==
  LET p == IF cls = "Decimal" /\ out.op \in {"add", "sub"} THEN align_decimals(a, b)
                                                           ELSE [x |-> a, y |-> b]
  IN  self = <<p.x>> /\ num = <<p.y>>

CalledWith(a, b) ==
  /\ IsValue(cls, a) /\ IsValue(cls, b) /\ out.in = <<a, b>>
  /\ out.op \in BinaryOps /\ out.r \in Binary(cls, out.op, a, b) /\ Left(a, b)

CalledOn(a) ==
  /\ IsValue(cls, a) /\ out.in = <<a>>
  /\ \/ out.op \in UnaryOps /\ Has(cls, out.op) /\ out.r \in Unary(cls, out.op, a)
     \/ /\ out.op = "text" /\ cls \in {"Bigint", "Varint", "Decimal", "Duration"}
        /\ out.r = ThroughText(cls, a)
     \/ out.op = "wire" /\ cls \in {"Varint", "Decimal"} /\ out.r = ThroughWire(cls, a)
     \/ /\ out.op = "clock" /\ cls \in {"Date", "Time", "Timestamp", "Timeuuid"} /\ self = <<a>>
        /\ out.r = Ok(Clock(cls, a))

FieldsOf(s, us, ts) ==
  /\ out.op = "fields" /\ self = <<ts>> /\ ts = Timestamp_init(s, us)
  /\ out.r = Ok(Timestamp_init(Timestamp_properties(ts).seconds, Timestamp_properties(ts).microseconds))

DateTimeOf(d, t) ==
  /\ out.op = "datetime" /\ out.in = <<d, t>>
  /\ out.r = Ok(<<Date_fromDateTime(Date_toDateTime(d, t)), Time_fromDateTime(Date_toDateTime(d, t))>>)

HexOf(blob) ==
  /\ out.op = "hex" /\ self = <<blob>> /\ out.in = blob
  /\ out.r = Ok(php_driver_bytes_to_hex(blob))

Recorded ==
  \/ out.op = None
  \/ Constructed
  \/ \E a, b : CalledWith(a, b)
  \/ \E a : CalledOn(a)
  \/ \E s \in Int, us \in Nat : \E ts : FieldsOf(s, us, ts)
  \/ \E d \in Int, t \in 0 .. LastNs : DateTimeOf(d, t)
  \/ \E blob \in Seq(0 .. 255) : HexOf(blob)

LEMMA RecordedConstruct ==
  ASSUME Recorded
  PROVE  ConstructExact
<1> SUFFICES ASSUME out.op = "new", cls \in Integer, out.r.exc = "none"
             PROVE  ConstructExact
  BY DEF ConstructExact
<1>1. Constructed
  BY DEF Recorded, CalledWith, CalledOn, FieldsOf, DateTimeOf, HexOf, BinaryOps, UnaryOps, None
<1>2. PICK z, r : z = out.in /\ r = out.r /\ z \in Inputs(cls) /\ r \in Init_(cls, z)
  BY <1>1 DEF Constructed, Integer, Narrow
<1>3. IntegerInput(cls, z) /\ r.exc = "none"
  BY <1>2, IntegerInputs
<1>4. \/ r.v = Given(z, r.v)
      \/ cls \in Narrow /\ ~Fits(IntBits, Given(z, r.v))
      \/ cls = "Bigint" /\ z.kind = "double" /\ Given(z, r.v) = Pow(2, LongBits - 1)
  <2>1. CASE cls = "Tinyint"
    <3>1. r = NarrowInit(TinyBits, z) /\ Width(cls) = TinyBits /\ cls \in Narrow
      BY <1>2, <2>1 DEF Init_, Tinyint_init, Width, Narrow
    <3> QED
      BY <1>3, <3>1, WidthsAre, NarrowInitExact
  <2>2. CASE cls = "Smallint"
    <3>1. r = NarrowInit(SmallBits, z) /\ Width(cls) = SmallBits /\ cls \in Narrow
      BY <1>2, <2>2 DEF Init_, Smallint_init, Width, Narrow
    <3> QED
      BY <1>3, <3>1, WidthsAre, NarrowInitExact
  <2>3. CASE cls = "Bigint"
    <3>1. r = Bigint_init(z) /\ IntegerInput("Bigint", z)
      BY <1>2, <1>3, <2>3 DEF Init_
    <3> QED
      BY <1>3, <2>3, <3>1, BigintInitExact
  <2>4. CASE cls = "Varint"
    <3>1. r = Varint_init(z) /\ IntegerInput("Varint", z)
      BY <1>2, <1>3, <2>4 DEF Init_
    <3> QED
      BY <1>3, <3>1, VarintInitExact
  <2> QED
    BY <2>1, <2>2, <2>3, <2>4 DEF Integer, Narrow
<1> QED
  BY <1>2, <1>4 DEF ConstructExact, Given, SpelledBy

LEMMA RecordedArithmetic ==
  ASSUME VInv, Recorded
  PROVE  ArithmeticExact
<1>1. PICK second : second = IF Len(out.in) = 2 THEN out.in[2] ELSE 0
  OBVIOUS
<1>2. cls \in FixedWidth /\ out.op \in (BinaryOps \ {"mod"}) \cup UnaryOps =>
        FixedWidthExact(out.op, out.in[1], second, out.r)
  <2> SUFFICES ASSUME cls \in FixedWidth, out.op \in (BinaryOps \ {"mod"}) \cup UnaryOps
               PROVE  FixedWidthExact(out.op, out.in[1], second, out.r)
    OBVIOUS
  <2>1. (\E a, b : CalledWith(a, b)) \/ (\E a : CalledOn(a))
    BY DEF Recorded, Constructed, FieldsOf, DateTimeOf, HexOf, BinaryOps, UnaryOps, None
  <2>2. ASSUME NEW a, NEW b, CalledWith(a, b)
        PROVE  FixedWidthExact(out.op, out.in[1], second, out.r)
    <3>1. out.in = <<a, b>> /\ out.op \in BinaryOps /\ out.r \in Binary(cls, out.op, a, b)
      BY <2>2 DEF CalledWith
    <3>2. out.in[1] = a /\ second = b
      BY <1>1, <3>1
    <3>3. a \in Int /\ b \in Int /\ Fits(Width(cls), a) /\ Fits(Width(cls), b)
      BY <2>2 DEF CalledWith, IsValue
    <3>4. out.op \in BinaryOps \ {"mod"}
      BY <3>1 DEF UnaryOps
    <3>5. CASE cls \in Narrow
      BY <3>1, <3>2, <3>3, <3>4, <3>5, NarrowExact
    <3>6. CASE cls = "Bigint"
      <4>1. Fits(LongBits, a) /\ Fits(LongBits, b)
        BY <3>3, <3>6 DEF Width
      <4> QED
        BY <3>1, <3>2, <3>3, <3>4, <3>6, <4>1, BigintExact
    <3> QED
      BY <3>5, <3>6 DEF FixedWidth
  <2>3. ASSUME NEW a, CalledOn(a)
        PROVE  FixedWidthExact(out.op, out.in[1], second, out.r)
    <3>1. out.in = <<a>> /\ out.op \in UnaryOps /\ Has(cls, out.op) /\ out.r \in Unary(cls, out.op, a)
      BY <2>3 DEF CalledOn, BinaryOps, UnaryOps
    <3>2. out.in[1] = a /\ second = 0
      BY <1>1, <3>1
    <3>3. a \in Int /\ Fits(Width(cls), a)
      BY <2>3 DEF CalledOn, IsValue
    <3>4. out.op \in UnaryOps \ {"kind"}
      BY <3>1 DEF Has, FixedWidth, Narrow
    <3> QED
      BY <3>1, <3>2, <3>3, <3>4, UnaryExact
  <2> QED
    BY <2>1, <2>2, <2>3
<1>3. cls = "Decimal" /\ out.op \in {"add", "sub", "mul"} =>
        DecimalExact(out.op, out.in[1], second, out.r.v)
  <2> SUFFICES ASSUME cls = "Decimal", out.op \in {"add", "sub", "mul"}
               PROVE  DecimalExact(out.op, out.in[1], second, out.r.v)
    OBVIOUS
  <2>1. PICK a, b : CalledWith(a, b)
    BY DEF Recorded, Constructed, CalledOn, FieldsOf, DateTimeOf, HexOf, UnaryOps, None
  <2>2. out.in = <<a, b>> /\ out.r \in Binary("Decimal", out.op, a, b)
    BY <2>1 DEF CalledWith
  <2>3. out.in[1] = a /\ second = b
    BY <1>1, <2>2
  <2>4. a \in [v : Int, scale : Int] /\ b \in [v : Int, scale : Int]
    BY <2>1 DEF CalledWith, IsValue
  <2> QED
    BY <2>2, <2>3, <2>4, DecimalsExact
<1>4. ASSUME cls = "Decimal", out.op \in BinaryOps
      PROVE  /\ self[1] # out.in[1] <=> Rescaled(out.op, out.in[1], second)
             /\ num[1] # second <=> Rescaled(out.op, second, out.in[1])
  <2>1. PICK a, b : CalledWith(a, b)
    BY <1>4 DEF Recorded, Constructed, CalledOn, FieldsOf, DateTimeOf, HexOf, BinaryOps, UnaryOps, None
  <2>2. out.in = <<a, b>> /\ out.in[1] = a /\ second = b
    BY <1>1, <2>1 DEF CalledWith
  <2>3. a \in [v : Int, scale : Int] /\ b \in [v : Int, scale : Int]
    BY <1>4, <2>1 DEF CalledWith, IsValue
  <2>4. CASE out.op \in {"add", "sub"}
    <3>1. self[1] = align_decimals(a, b).x /\ num[1] = align_decimals(a, b).y
      BY <1>4, <2>1, <2>4 DEF CalledWith, Left
    <3> QED
      BY <2>2, <2>3, <2>4, <3>1, RescaledIs DEF Rescaled
  <2>5. CASE out.op \notin {"add", "sub"}
    <3>1. self[1] = a /\ num[1] = b
      BY <2>1, <2>5 DEF CalledWith, Left
    <3> QED
      BY <2>2, <2>5, <3>1 DEF Rescaled
  <2> QED
    BY <2>4, <2>5
<1> QED
  BY <1>1, <1>2, <1>3, <1>4, DivModAgrees DEF ArithmeticExact

(* Each kind of call reads back what was written.                          *)
LEMMA RecordedText ==
  ASSUME Recorded, out.op = "text"
  PROVE  \/ out.r = Ok(out.in[1]) /\ (cls = "Decimal" => ~Unreadable(out.in[1]))
         \/ cls = "Decimal" /\ Unreadable(out.in[1]) /\ out.r.exc # "none"
         \/ cls = "Duration" /\ \E i \in 1 .. 3 : out.in[1][i] \in {IntMin(IntBits), IntMin(LongBits)}
<1>1. PICK a : CalledOn(a)
  BY DEF Recorded, Constructed, CalledWith, FieldsOf, DateTimeOf, HexOf, BinaryOps, None
<1>2. /\ IsValue(cls, a) /\ out.in = <<a>> /\ out.r = ThroughText(cls, a)
      /\ cls \in {"Bigint", "Varint", "Decimal", "Duration"}
  BY <1>1 DEF CalledOn, UnaryOps
<1>3. out.in[1] = a
  BY <1>2
<1>4. CASE cls = "Bigint"
  <2>1. a \in Int /\ Fits(LongBits, a)
    BY <1>2, <1>4 DEF IsValue, FixedWidth, Width
  <2> QED
    BY <1>2, <1>3, <1>4, <2>1, BigintText
<1>5. CASE cls = "Varint"
  <2>1. a \in Int
    BY <1>2, <1>5 DEF IsValue
  <2> QED
    BY <1>2, <1>3, <1>5, <2>1, VarintText
<1>6. CASE cls = "Decimal"
  <2>1. a \in [v : Int, scale : Int]
    BY <1>2, <1>6 DEF IsValue
  <2>2. ~Unreadable(a) => ThroughText("Decimal", a) = Ok(a)
    BY <2>1, DecimalsText
  <2>3. Unreadable(a) => ThroughText("Decimal", a).exc # "none"
    BY <2>1, UnreadableText
  <2> QED
    BY <1>2, <1>3, <1>6, <2>2, <2>3
<1>7. CASE cls = "Duration"
  <2>1. IsDuration(a)
    BY <1>2, <1>7 DEF IsValue
  <2>2. (\A i \in 1 .. 3 : a[i] \notin {IntMin(IntBits), IntMin(LongBits)}) =>
          ThroughText("Duration", a) = Ok(a)
    BY <2>1, DurationText
  <2> QED
    BY <1>2, <1>3, <1>7, <2>2
<1> QED
  BY <1>2, <1>4, <1>5, <1>6, <1>7

LEMMA RecordedWire ==
  ASSUME Recorded, out.op = "wire"
  PROVE  out.r.v # out.in[1] <=> Imitates(IF cls = "Decimal" THEN out.in[1].v ELSE out.in[1])
<1>1. PICK a : CalledOn(a)
  BY DEF Recorded, Constructed, CalledWith, FieldsOf, DateTimeOf, HexOf, BinaryOps, None
<1>2. /\ IsValue(cls, a) /\ out.in = <<a>> /\ out.r = ThroughWire(cls, a)
      /\ cls \in {"Varint", "Decimal"}
  BY <1>1 DEF CalledOn, UnaryOps
<1>3. out.in[1] = a
  BY <1>2
<1> QED
  BY <1>2, <1>3, WireBack

LEMMA RecordedFields ==
  ASSUME Recorded, out.op = "fields"
  PROVE  out.r.v = self[1]
<1>0. PICK s \in Int, us \in Nat : \E ts : FieldsOf(s, us, ts)
  BY DEF Recorded, Constructed, CalledWith, CalledOn, DateTimeOf, HexOf, BinaryOps, UnaryOps, None
<1>1. PICK ts : FieldsOf(s, us, ts)
  BY <1>0
<1>2. self = <<ts>> /\ ts = Timestamp_init(s, us)
  BY <1>1 DEF FieldsOf
<1>3. Timestamp_init(Timestamp_properties(ts).seconds, Timestamp_properties(ts).microseconds) = ts
  BY <1>2, TimestampFields
<1> QED
  BY <1>1, <1>2, <1>3 DEF FieldsOf, Ok

LEMMA RecordedClock ==
  ASSUME Recorded, out.op = "clock", NEW t, t = out.r.v
  PROVE  CASE cls = "Date" -> Date_init([kind |-> "long", n |-> t.s]) = Ok(self[1])
           [] cls = "Time" -> Time_fromDateTime(t.s) + t.sub = self[1]
           [] cls = "Timestamp" -> Timestamp_toDateTime(self[1]) = t.s /\ t.s * Milli + t.sub = self[1]
           [] OTHER -> Timeuuid_toDateTime(self[1]) = t.s /\ t.s * Milli + t.sub = self[1]
<1>1. PICK a : CalledOn(a)
  BY DEF Recorded, Constructed, CalledWith, FieldsOf, DateTimeOf, HexOf, BinaryOps, None
<1>2. /\ IsValue(cls, a) /\ self = <<a>> /\ out.r = Ok(Clock(cls, a))
      /\ cls \in {"Date", "Time", "Timestamp", "Timeuuid"}
  BY <1>1 DEF CalledOn, UnaryOps
<1>3. self[1] = a /\ t = Clock(cls, a)
  BY <1>2 DEF Ok
<1>4. CASE cls = "Date"
  <2>1. a \in Int
    BY <1>2, <1>4 DEF IsValue
  <2> QED
    BY <1>3, <1>4, <2>1, ClockDate
<1>5. CASE cls = "Time"
  <2>1. a \in 0 .. LastNs
    BY <1>2, <1>5 DEF IsValue
  <2> QED
    BY <1>3, <1>5, <2>1, ClockTime
<1>6. CASE cls = "Timestamp"
  <2>1. a \in Int
    BY <1>2, <1>6 DEF IsValue
  <2> QED
    BY <1>3, <1>6, <2>1, ClockTimestamp
<1>7. CASE cls = "Timeuuid"
  <2>1. a \in Int
    BY <1>2, <1>7 DEF IsValue
  <2> QED
    BY <1>3, <1>7, <2>1, ClockTimeuuid
<1> QED
  BY <1>2, <1>4, <1>5, <1>6, <1>7

LEMMA RecordedDateTime ==
  ASSUME Recorded, out.op = "datetime"
  PROVE  out.r.v = <<out.in[1], (out.in[2] \div NsPerSecond) * NsPerSecond>>
<1>1. PICK d \in Int, t \in 0 .. LastNs : DateTimeOf(d, t)
  BY DEF Recorded, Constructed, CalledWith, CalledOn, FieldsOf, HexOf, BinaryOps, UnaryOps, None
<1>2. out.in[1] = d /\ out.in[2] = t
  BY <1>1 DEF DateTimeOf
<1>3. out.r.v = <<Date_fromDateTime(Date_toDateTime(d, t)), Time_fromDateTime(Date_toDateTime(d, t))>>
  BY <1>1 DEF DateTimeOf, Ok
<1> QED
  BY <1>2, <1>3, DateTimeBack

LEMMA RecordedHex ==
  ASSUME Recorded, out.op = "hex"
  PROVE  /\ Blob_toBinaryString(self[1]) = out.in
         /\ \A i \in 1 .. Len(self[1]) : out.r.v[2 * i - 1] * 16 + out.r.v[2 * i] = self[1][i]
<1>1. PICK blob \in Seq(0 .. 255) : HexOf(blob)
  BY DEF Recorded, Constructed, CalledWith, CalledOn, FieldsOf, DateTimeOf, BinaryOps, UnaryOps, None
<1>2. self[1] = blob /\ out.in = blob /\ out.r.v = php_driver_bytes_to_hex(blob)
  BY <1>1 DEF HexOf, Ok
<1>3. \A i \in 1 .. Len(blob) :
        php_driver_bytes_to_hex(blob)[2 * i - 1] * 16 + php_driver_bytes_to_hex(blob)[2 * i] = blob[i]
  BY HexBack
<1> QED
  BY <1>2, <1>3 DEF Blob_toBinaryString

LEMMA RecordedRoundTrip ==
  ASSUME Recorded
  PROVE  RoundTrip
BY RecordedText, RecordedWire, RecordedFields, RecordedClock, RecordedDateTime, RecordedHex
   DEF RoundTrip

-----------------------------------------------------------------------------
(* The invariant holds initially and every step keeps it.                  *)

VInvR == VInv /\ Recorded

LEMMA SelfHolds ==
  ASSUME VInv, self # <<>>
  PROVE  \E a : self = <<a>> /\ self[1] = a /\ IsValue(cls, a)
BY DEF VInv, Holds

LEMMA ParamIs ==
  ASSUME NEW z \in SomeParam, NEW w, get_param(z, w).exc = "none"
  PROVE  get_param(z, w).v \in Int /\ Fits(w, get_param(z, w).v)
<1>1. z \in {[kind |-> "other"]} \/ z \in [kind : {"long"}, n : Params]
  BY DEF SomeParam
<1>2. CASE z \in {[kind |-> "other"]}
  BY <1>2 DEF get_param, Throw
<1>3. CASE z \in [kind : {"long"}, n : Params]
  <2>1. z.kind = "long" /\ z.n \in Params
    BY <1>3
  <2>2. Params \subseteq Int
    BY InputsAssumption
  <2>3. z.n \in Int
    BY <2>1, <2>2
  <2>4. get_param(z, w) = IF ~Fits(w, z.n) THEN Throw("invalid") ELSE Ok(z.n)
    BY <2>1 DEF get_param, Ok
  <2> QED
    BY <2>3, <2>4 DEF Throw, Ok
<1> QED
  BY <1>1, <1>2, <1>3

LEMMA DurationInitIs ==
  ASSUME NEW m \in SomeParam, NEW d \in SomeParam, NEW n \in SomeParam,
         Duration_init(m, d, n).exc = "none"
  PROVE  IsDuration(Duration_init(m, d, n).v)
<1>1. PICK a, b, c : a = get_param(m, IntBits) /\ b = get_param(d, IntBits) /\ c = get_param(n, LongBits)
  OBVIOUS
<1>2. /\ a.exc = "none" /\ b.exc = "none" /\ c.exc = "none" /\ SameSign({a.v, b.v, c.v})
      /\ Duration_init(m, d, n) = Ok(<<a.v, b.v, c.v>>)
  BY <1>1 DEF Duration_init, Throw
<1>3. /\ a.v \in Int /\ Fits(IntBits, a.v) /\ b.v \in Int /\ Fits(IntBits, b.v)
      /\ c.v \in Int /\ Fits(LongBits, c.v)
  BY <1>1, <1>2, ParamIs
<1>4. PICK v : v = <<a.v, b.v, c.v>>
  OBVIOUS
<1>5. v[1] = a.v /\ v[2] = b.v /\ v[3] = c.v /\ v = Duration_init(m, d, n).v
  BY <1>2, <1>4 DEF Ok
<1> QED
  BY <1>2, <1>3, <1>4, <1>5 DEF IsDuration

LEMMA ConstructKeeps ==
  ASSUME VInv, NEW z \in Inputs(cls), Construct(z)
  PROVE  VInvR'
<1>1. PICK r \in Init_(cls, z) : /\ out' = Call("new", z, r)
                                 /\ self' = IF r.exc = "none" THEN <<r.v>> ELSE <<>>
  BY DEF Construct
<1>2. cls' = cls /\ num' = num /\ num = <<>>
  BY DEF Construct, VInv
<1>3. r.exc = "none" => IsValue(cls, r.v)
  BY <1>1, InitIsValue
<1>4. Recorded'
  BY <1>1, <1>2 DEF Recorded, Constructed, Call
<1> QED
  BY <1>1, <1>2, <1>3, <1>4 DEF VInvR, VInv, Holds

LEMMA OperandKeeps ==
  ASSUME VInv, NEW z \in Operands(cls), Operand(z)
  PROVE  VInvR'
<1>1. z \in Inputs(cls)
  BY DEF Operands
<1>2. PICK r \in Init_(cls, z) : r.exc = "none" /\ num' = <<r.v>>
  BY DEF Operand
<1>3. cls' = cls /\ self' = self /\ cls \in Numeric /\ self # <<>> /\ out' = NoCall
  BY DEF Operand
<1>4. IsValue(cls, r.v)
  BY <1>1, <1>2, InitIsValue
<1>5. Recorded'
  BY <1>3 DEF Recorded, NoCall, Call
<1> QED
  BY <1>2, <1>3, <1>4, <1>5 DEF VInvR, VInv, Holds

LEMMA TwoInOne ==
  ASSUME NEW a, NEW b
  PROVE  <<a>> \o <<b>> = <<a, b>>
<1>1. PICK s, t : s = <<a>> /\ t = <<b>>
  OBVIOUS
<1>2. PICK S : S = {a, b}
  OBVIOUS
<1>3. s \in Seq(S) /\ t \in Seq(S) /\ Len(s) = 1 /\ Len(t) = 1 /\ s[1] = a /\ t[1] = b
  BY <1>1, <1>2
<1>4. PICK q, r : q = s \o t /\ r = <<a, b>>
  OBVIOUS
<1>5. /\ q \in Seq(S) /\ Len(q) = Len(s) + Len(t)
      /\ \A i \in 1 .. Len(s) + Len(t) : q[i] = IF i <= Len(s) THEN s[i] ELSE t[i - Len(s)]
  BY <1>3, <1>4, ConcatProperties, Zenon
<1>6. Len(q) = 2 /\ \A i \in 1 .. 2 : q[i] = IF i <= 1 THEN s[i] ELSE t[i - 1]
  BY <1>3, <1>5
<1>7. q[1] = a /\ q[2] = b
  BY <1>3, <1>6
<1>8. r \in Seq(S) /\ Len(r) = 2 /\ r[1] = a /\ r[2] = b
  BY <1>2, <1>4
<1>9. \A i \in 1 .. Len(q) : q[i] = r[i]
  BY <1>6, <1>7, <1>8
<1>10. q = r
  BY <1>5, <1>6, <1>8, <1>9, SeqEqual
<1> QED
  BY <1>1, <1>4, <1>10

LEMMA BinaryCallKeeps ==
  ASSUME VInv, NEW op \in BinaryOps, BinaryCall(op)
  PROVE  VInvR'
<1>1. PICK a, b : self = <<a>> /\ num = <<b>> /\ IsValue(cls, a) /\ IsValue(cls, b)
  BY DEF VInv, Holds, BinaryCall
<1>2. self[1] = a /\ num[1] = b /\ self \o num = <<a, b>>
  <2>1. <<a>>[1] = a /\ <<b>>[1] = b
    OBVIOUS
  <2>2. <<a>> \o <<b>> = <<a, b>>
    BY TwoInOne
  <2> QED
    BY <1>1, <2>1, <2>2, Zenon
<1>3. PICK r \in Binary(cls, op, a, b) : out' = Call(op, <<a, b>>, r)
  BY <1>2 DEF BinaryCall
<1>4. cls' = cls /\ cls \in Numeric
  BY DEF BinaryCall, VInv
<1>5. Recorded'
  <2>1. Left(a, b)'
    BY <1>2, <1>3, <1>4 DEF BinaryCall, Left, Call
  <2>2. CalledWith(a, b)'
    BY <1>1, <1>3, <1>4, <2>1 DEF CalledWith, Call
  <2> QED
    BY <2>2 DEF Recorded
<1>6. PICK c, d : self' = <<c>> /\ num' = <<d>> /\ IsValue(cls, c) /\ IsValue(cls, d)
  <2>1. CASE cls = "Decimal" /\ op \in {"add", "sub"}
    <3>1. /\ self' = <<align_decimals(a, b).x>> /\ num' = <<align_decimals(a, b).y>>
      BY <1>2, <2>1 DEF BinaryCall
    <3>2. a \in [v : Int, scale : Int] /\ b \in [v : Int, scale : Int]
      BY <1>1, <2>1 DEF IsValue
    <3>3. /\ align_decimals(a, b).x \in [v : Int, scale : Int]
          /\ align_decimals(a, b).y \in [v : Int, scale : Int]
      BY <3>2, AlignedIs
    <3>4. IsValue(cls, align_decimals(a, b).x) /\ IsValue(cls, align_decimals(a, b).y)
      BY <2>1, <3>3 DEF IsValue, FixedWidth, Narrow
    <3> QED
      BY <3>1, <3>4
  <2>2. CASE ~(cls = "Decimal" /\ op \in {"add", "sub"})
    <3>1. self' = <<a>> /\ num' = <<b>>
      BY <1>2, <2>2 DEF BinaryCall
    <3> QED
      BY <1>1, <3>1
  <2> QED
    BY <2>1, <2>2
<1> QED
  BY <1>4, <1>5, <1>6 DEF VInvR, VInv, Holds

(* The calls that leave both values alone.                                 *)
LEMMA ObserversKeep ==
  ASSUME VInv, \/ \E op \in UnaryOps : UnaryCall(op)
               \/ WriteText \/ WriteWire \/ TellTime
  PROVE  VInvR'
<1>1. cls' = cls /\ self' = self /\ num' = num /\ self # <<>>
  BY DEF UnaryCall, WriteText, WriteWire, TellTime
<1>2. PICK a : self = <<a>> /\ self[1] = a /\ IsValue(cls, a)
  BY <1>1, SelfHolds
<1>3. CalledOn(a)'
  <2>1. CASE \E op \in UnaryOps : UnaryCall(op)
    <3>1. PICK op \in UnaryOps : UnaryCall(op)
      BY <2>1
    <3>2. PICK r \in Unary(cls, op, a) : out' = Call(op, <<a>>, r)
      BY <1>2, <3>1 DEF UnaryCall
    <3>3. Has(cls, op)
      BY <3>1 DEF UnaryCall
    <3> QED
      BY <1>1, <1>2, <3>2, <3>3 DEF CalledOn, Call
  <2>2. CASE WriteText
    <3>1. out' = Call("text", <<a>>, ThroughText(cls, a)) /\ cls \in {"Bigint", "Varint", "Decimal", "Duration"}
      BY <1>2, <2>2 DEF WriteText
    <3> QED
      BY <1>1, <1>2, <3>1 DEF CalledOn, Call
  <2>3. CASE WriteWire
    <3>1. out' = Call("wire", <<a>>, ThroughWire(cls, a)) /\ cls \in {"Varint", "Decimal"}
      BY <1>2, <2>3 DEF WriteWire
    <3> QED
      BY <1>1, <1>2, <3>1 DEF CalledOn, Call
  <2>4. CASE TellTime
    <3>1. out' = Call("clock", <<a>>, Ok(Clock(cls, a))) /\ cls \in {"Date", "Time", "Timestamp", "Timeuuid"}
      BY <1>2, <2>4 DEF TellTime
    <3> QED
      BY <1>1, <1>2, <3>1 DEF CalledOn, Call
  <2> QED
    BY <2>1, <2>2, <2>3, <2>4
<1>4. Recorded'
  BY <1>3 DEF Recorded
<1> QED
  BY <1>1, <1>4 DEF VInvR, VInv, Holds

LEMMA DateTimeKeeps ==
  ASSUME VInv, NEW t \in 0 .. LastNs, self # <<>>, DateTime(self[1], t)
  PROVE  VInvR'
<1>1. cls' = cls /\ self' = self /\ num' = num /\ cls = "Date"
  BY DEF DateTime
<1>2. PICK a : self = <<a>> /\ self[1] = a /\ IsValue(cls, a)
  BY SelfHolds
<1>3. a \in Int
  BY <1>1, <1>2 DEF IsValue
<1>4. DateTimeOf(a, t)'
  BY <1>2 DEF DateTime, DateTimeOf, Call
<1>5. Recorded'
  BY <1>3, <1>4 DEF Recorded
<1> QED
  BY <1>1, <1>5 DEF VInvR, VInv, Holds

LEMMA NewTimestampKeeps ==
  ASSUME VInv, NEW s \in Seconds, NEW us \in Microseconds, NewTimestamp(s, us)
  PROVE  VInvR'
<1>1. Seconds \subseteq Int /\ Microseconds \subseteq Nat
  BY InputsAssumption
<1>2. s \in Int /\ us \in Nat
  BY <1>1
<1>3. cls' = cls /\ cls = "Timestamp" /\ num' = num /\ num = <<>>
  BY DEF NewTimestamp, VInv
<1>4. PICK ts : ts = Timestamp_init(s, us)
  OBVIOUS
<1>5. self' = <<ts>> /\ self'[1] = ts
  BY <1>4 DEF NewTimestamp
<1>6. ts \in Int /\ Fits(LongBits, ts)
  BY <1>2, <1>4, TimestampFields
<1>7. IsValue(cls, ts)
  BY <1>3, <1>6 DEF IsValue, FixedWidth, Narrow
<1>8. FieldsOf(s, us, ts)'
  BY <1>4, <1>5 DEF NewTimestamp, FieldsOf, Call
<1>9. Recorded'
  BY <1>2, <1>8 DEF Recorded
<1> QED
  BY <1>3, <1>5, <1>7, <1>9 DEF VInvR, VInv, Holds

LEMMA NewDurationKeeps ==
  ASSUME VInv, NEW m \in SomeParam, NEW d \in SomeParam, NEW n \in SomeParam, NewDuration(m, d, n)
  PROVE  VInvR'
<1>1. PICK r : r = Duration_init(m, d, n)
  OBVIOUS
<1>2. /\ out' = Call("new", <<m, d, n>>, r)
      /\ self' = IF r.exc = "none" THEN <<r.v>> ELSE <<>>
      /\ cls' = cls /\ cls = "Duration" /\ num' = num /\ num = <<>>
  BY <1>1 DEF NewDuration, VInv
<1>3. r.exc = "none" => IsValue(cls, r.v)
  <2>1. r.exc = "none" => IsDuration(r.v)
    BY <1>1, DurationInitIs
  <2> QED
    BY <1>2, <2>1 DEF IsValue, FixedWidth, Narrow
<1>4. Recorded'
  BY <1>2 DEF Recorded, Constructed, Call
<1> QED
  BY <1>2, <1>3, <1>4 DEF VInvR, VInv, Holds

LEMMA NewBlobKeeps ==
  ASSUME VInv, NEW bytes \in Blobs, NewBlob(bytes)
  PROVE  VInvR'
<1>1. Blobs \subseteq Seq(0 .. 255)
  BY InputsAssumption
<1>2. bytes \in Seq(0 .. 255)
  BY <1>1
<1>3. /\ self' = <<bytes>> /\ self'[1] = bytes /\ cls' = cls /\ cls = "Blob"
      /\ num' = num /\ num = <<>>
  BY DEF NewBlob, Blob_init, VInv
<1>4. IsValue(cls, bytes)
  BY <1>2, <1>3 DEF IsValue, FixedWidth, Narrow
<1>5. HexOf(bytes)'
  BY <1>3 DEF NewBlob, HexOf, Call
<1>6. Recorded'
  BY <1>2, <1>5 DEF Recorded
<1> QED
  BY <1>3, <1>4, <1>6 DEF VInvR, VInv, Holds

LEMMA RestKeeps ==
  ASSUME VInvR, UNCHANGED <<cls, self, num, out>>
  PROVE  VInvR'
<1>1. VInv'
  BY DEF VInvR, VInv, Holds
<1>2. Recorded'
  BY DEF VInvR, Recorded, Constructed, CalledWith, Left, CalledOn, FieldsOf, DateTimeOf, HexOf
<1> QED
  BY <1>1, <1>2 DEF VInvR

LEMMA InitVInvR == Init => VInvR
BY DEF Init, VInvR, VInv, Holds, Recorded, NoCall, Call

LEMMA NextVInvR == VInvR /\ [Next]_vars => VInvR'
<1> SUFFICES ASSUME VInvR, [Next]_vars
             PROVE  VInvR'
  OBVIOUS
<1>0. VInv
  BY DEF VInvR
<1>1. CASE \E z \in Inputs(cls) : Construct(z)
  BY <1>0, <1>1, ConstructKeeps
<1>2. CASE \E z \in Operands(cls) : Operand(z)
  BY <1>0, <1>2, OperandKeeps
<1>3. CASE \E op \in BinaryOps : BinaryCall(op)
  BY <1>0, <1>3, BinaryCallKeeps
<1>4. CASE (\E op \in UnaryOps : UnaryCall(op)) \/ WriteText \/ WriteWire \/ TellTime
  BY <1>0, <1>4, ObserversKeep
<1>5. CASE \E s \in Seconds, us \in Microseconds : NewTimestamp(s, us)
  BY <1>0, <1>5, NewTimestampKeeps
<1>6. CASE \E t \in 0 .. LastNs : self # <<>> /\ DateTime(self[1], t)
  BY <1>0, <1>6, DateTimeKeeps
<1>7. CASE \E m, d, n \in SomeParam : NewDuration(m, d, n)
  BY <1>0, <1>7, NewDurationKeeps
<1>8. CASE \E bytes \in Blobs : NewBlob(bytes)
  BY <1>0, <1>8, NewBlobKeeps
<1>9. CASE \E tok \in NextTokens(ip) : ParseToken(tok)
  BY <1>9, RestKeeps DEF ParseToken
<1>10. CASE UNCHANGED vars
  BY <1>10, RestKeeps DEF vars
<1> QED
  BY <1>1, <1>2, <1>3, <1>4, <1>5, <1>6, <1>7, <1>8, <1>9, <1>10 DEF Next

(* For every width of the integer types, every unit of time and every set  *)
(* of inputs: what a constructor returned and what a method was called on  *)
(* are values of the class (an integer that fits its width, a time within  *)
(* a day, three parts of a duration with one sign...), and the last call   *)
(* is a call of the class on such values.                                  *)
THEOREM CallsOnValues == Spec => []VInvR
<1>1. Init => VInvR
  BY InitVInvR
<1>2. VInvR /\ [Next]_vars => VInvR'
  BY NextVInvR
<1> QED
  BY <1>1, <1>2, PTL DEF Spec

(* The arithmetic of Bigint, Smallint, Tinyint, Varint and Decimal: the    *)
(* methods of Smallint.c and Tinyint.c that compute first and check the    *)
(* wrapped result afterwards throw exactly when the result does not fit,   *)
(* those of Bigint.c are exact modulo the width, and the root it computes  *)
(* in a double is the integral root for every number a double has a bit to *)
(* spare for, and at most one more for the others; decimals of any two     *)
(* scales add, subtract and multiply exactly, and div fits mod.            *)
THEOREM ArithmeticIsExact == Spec => []ArithmeticExact
<1>1. VInvR => ArithmeticExact
  BY RecordedArithmetic DEF VInvR
<1> QED
  BY <1>1, CallsOnValues, PTL

(* A constructor of an integer class stores the number it was given or     *)
(* throws: the init functions of Bigint.c, Smallint.c, Tinyint.c and       *)
(* Varint.c, with the exceptions ConstructExact names.                     *)
THEOREM ConstructorsAreExact == Spec => []ConstructExact
<1>1. VInvR => ConstructExact
  BY RecordedConstruct DEF VInvR
<1> QED
  BY <1>1, CallsOnValues, PTL

(* Text, wire bytes, fields, clock, DateTime and hexadecimal digits of a   *)
(* value give the value back when they are read: format and parse of       *)
(* util/math.c, export and import of the two's complement, the date and    *)
(* time functions.  The decimals whose text is not read back and the       *)
(* varints that come back wrong are exactly those RoundTrip names.         *)
THEOREM ReadBackAsWritten == Spec => []RoundTrip
<1>1. VInvR => RoundTrip
  BY RecordedRoundTrip DEF VInvR
<1> QED
  BY <1>1, CallsOnValues, PTL

-----------------------------------------------------------------------------
(***************************************************************************)
(* Addresses.  Sound is the inductive invariant of the parser of Inet's    *)
(* constructor: the tokens it has consumed are the bytes it has written,   *)
(* compress is the number of bytes before "::", and the state tells the    *)
(* last tokens of the text, also where AFTERDEC has taken a field back.    *)
(* OnWayV6 and OnWayV4 follow it through the texts of                      *)
(* php_driver_format_address.                                              *)
(***************************************************************************)
FieldTokens == {"hex"} \cup Decimals

ParserStates == {"start", "compressed", "aftercolon", "field", "afterhex", "afterdec",
                 "ipv4byte", "ipv4dot", "end", "accepted", "rejected"}

ParserRecord ==
  [state : ParserStates, pos : Int, compress : Int, ipv4 : Int, addr : [0 .. V6Length - 1 -> Int],
   len : Int, text : Seq(Tokens), in : Nat, top : Int]

(* The first n tokens are the bytes written so far.                        *)
StoredAt(p, n) ==
  /\ Len(BytesTo(p.text, n)) = p.pos + 1
  /\ \A k \in 1 .. p.pos + 1 : BytesTo(p.text, n)[k] = p.addr[k - 1]
Stored(p) == StoredAt(p, p.in)

(* compress is the number of bytes before the only "::".                   *)
Marked(p) ==
  IF p.compress = -1 THEN Compression(p.text) = {}
  ELSE \E i \in Compression(p.text) :
         /\ Compression(p.text) = {i} /\ i < p.in
         /\ Len(BytesTo(p.text, i)) = p.compress

(* A part of a dotted quad was read: the first one, whose dot is known     *)
(* already, or one after a dot.                                            *)
AfterPart(p) ==
  LET l == Len(p.text)
  IN  \/ p.in = l - 1 /\ p.in >= 1 /\ p.text[l] = "dot" /\ p.text[l - 1] = "dec"
      \/ p.in = l /\ l > 1 /\ p.text[l] = "dec" /\ p.text[l - 1] = "dot"

(* Where the parser stands in the text, state by state.                    *)
Place(p) ==
  LET l == Len(p.text)
  IN  \/ p.state = "start" /\ l = 0 /\ p.in = 0 /\ p.pos = -1
      \/ p.state = "compressed" /\ l = 1 /\ p.in = 1 /\ p.text[1] = "colon" /\ p.pos = -1
      \/ p.state = "aftercolon" /\ l > 0 /\ p.in = l /\ p.text[l] = "colon"
      \/ p.state = "field" /\ l > 0 /\ p.in = l /\ p.text[l] = "colon" /\ p.compress # -1
      \/ p.state = "afterhex" /\ l > 0 /\ p.in = l /\ p.text[l] = "hex"
      \/ /\ p.state = "afterdec" /\ l > 0 /\ p.in = l /\ p.text[l] \in Decimals
         /\ l > 1 => p.text[l - 1] # "dot"
         /\ p.compress < p.pos
      \/ /\ p.state = "ipv4byte"
         /\ \/ p.in = l - 2 /\ p.text[l - 1] \in Decimals /\ p.text[l] = "dot"
            \/ p.in = l /\ l > 0 /\ p.text[l] = "dot"
      \/ p.state \in {"ipv4dot", "end"} /\ AfterPart(p)

Running(p) ==
  /\ p.in <= Len(p.text) /\ p.pos >= -1 /\ p.pos + 1 <= V6Length
  /\ -1 <= p.compress /\ p.compress <= p.pos + 1
  /\ p.len = IF p.state = "end" /\ p.compress = -1 /\ p.pos + 1 = V4Length THEN V4Length ELSE 0
  /\ Stored(p) /\ Marked(p) /\ Place(p)

AsWritten(p) == [i \in 1 .. p.len |-> p.addr[i - 1]] = Spelling(p.text)

(* The texts php_driver_format_address writes, followed by their end, and  *)
(* the parser on its way through them.                                     *)
V6Token(i) == IF i = V6Length THEN "end" ELSE IF i % 2 = 1 THEN "hex" ELSE "colon"
V4Token(i) == IF i = 2 * V4Length THEN "end" ELSE IF i % 2 = 1 THEN "dec" ELSE "dot"
AlongV6(text) == Len(text) <= V6Length /\ \A i \in 1 .. Len(text) : text[i] = V6Token(i)
AlongV4(text) == Len(text) <= 2 * V4Length /\ \A i \in 1 .. Len(text) : text[i] = V4Token(i)

OnWayV6(p) ==
  LET l == Len(p.text)
  IN  \/ p.state = "accepted"
      \/ /\ p.compress = -1 /\ p.len = 0 /\ p.in = l /\ l < V6Length
         /\ \/ p.state = "start" /\ l = 0 /\ p.pos = -1
            \/ p.state = "afterhex" /\ l % 2 = 1 /\ p.pos = l
            \/ p.state = "aftercolon" /\ l % 2 = 0 /\ p.pos = l - 1

OnWayV4(p) ==
  LET l == Len(p.text)
  IN  \/ p.state = "accepted"
      \/ /\ p.state = "start" /\ l = 0 /\ p.in = 0 /\ p.pos = -1
         /\ p.compress = -1 /\ p.len = 0
      \/ /\ p.state = "afterdec" /\ l = 1 /\ p.in = 1 /\ p.pos = 1
         /\ p.compress = -1 /\ p.len = 0
      \/ /\ p.state = "ipv4byte" /\ p.in = 2 * p.ipv4 /\ p.pos = p.ipv4 - 1
         /\ 0 <= p.ipv4 /\ p.ipv4 < V4Length /\ (l = p.in \/ (l = 2 /\ p.in = 0))
         /\ p.compress = -1 /\ p.len = 0 /\ l >= 2
      \/ /\ p.state = "ipv4dot" /\ p.in = 2 * p.ipv4 - 1 /\ p.pos = p.ipv4 - 1
         /\ 1 <= p.ipv4 /\ p.ipv4 < V4Length /\ (l = p.in \/ (l = 2 /\ p.in = 1))
         /\ p.compress = -1 /\ p.len = 0 /\ l >= 2
      \/ /\ p.state = "end" /\ p.in = 2 * V4Length - 1 /\ l = p.in
         /\ p.len = V4Length

Sound(p) ==
  /\ p \in ParserRecord
  /\ p.top < V6Length
  /\ p.state \notin {"accepted", "rejected"} => Running(p)
  /\ p.state = "accepted" => AsWritten(p)

IpInv(p) == /\ Sound(p)
            /\ AlongV6(p.text) => OnWayV6(p)
            /\ AlongV4(p.text) => OnWayV4(p)

-----------------------------------------------------------------------------
(* Addresses: the bytes of a text.                                         *)

BytesLoop(text, n, b) ==
  b = [i \in 0 .. n |-> IF i = 0 THEN <<>> ELSE b[i - 1] \o TokenBytes(text, i)]

LEMMA TokenBytesSeq ==
  ASSUME NEW text, NEW i \in Nat
  PROVE  TokenBytes(text, i) \in Seq(Int)
BY DEF TokenBytes

LEMMA BytesLoopAt ==
  ASSUME NEW text, NEW n \in Nat, NEW b, BytesLoop(text, n, b)
  PROVE  /\ b[0] = <<>>
         /\ \A j \in 0 .. n : j + 1 <= n => b[j + 1] = b[j] \o TokenBytes(text, j + 1)
<1>1. \A i \in 0 .. n : b[i] = IF i = 0 THEN <<>> ELSE b[i - 1] \o TokenBytes(text, i)
  BY Zenon DEF BytesLoop
<1>2. 0 \in 0 .. n
  OBVIOUS
<1>3. b[0] = <<>>
  BY <1>1, <1>2, Zenon
<1>4. ASSUME NEW j \in 0 .. n, j + 1 <= n
      PROVE  b[j + 1] = b[j] \o TokenBytes(text, j + 1)
  <2>1. j + 1 \in 0 .. n /\ j + 1 # 0 /\ (j + 1) - 1 = j
    BY <1>4
  <2>2. b[j + 1] = b[(j + 1) - 1] \o TokenBytes(text, j + 1)
    BY <1>1, <2>1, Zenon
  <2> QED
    BY <2>1, <2>2, Zenon
<1> QED
  BY <1>3, <1>4

LEMMA BytesLoopExists ==
  ASSUME NEW text
  PROVE  \A n \in Nat : \E b : BytesLoop(text, n, b) /\ b \in [0 .. n -> Seq(Int)]
<1> DEFINE S == {n \in Nat : \E b : BytesLoop(text, n, b) /\ b \in [0 .. n -> Seq(Int)]}
<1>1. 0 \in S
  <2>1. PICK b : b = [i \in 0 .. 0 |-> <<>>]
    OBVIOUS
  <2>2. BytesLoop(text, 0, b) /\ b \in [0 .. 0 -> Seq(Int)]
    BY <2>1 DEF BytesLoop
  <2> QED
    BY <2>2
<1>2. ASSUME NEW n \in S PROVE n + 1 \in S
  <2>1. PICK b : BytesLoop(text, n, b) /\ b \in [0 .. n -> Seq(Int)]
    OBVIOUS
  <2>2. PICK t \in Seq(Int) : t = b[n] \o TokenBytes(text, n + 1)
    <3>1. TokenBytes(text, n + 1) \in Seq(Int) /\ b[n] \in Seq(Int)
      BY <2>1, TokenBytesSeq
    <3> QED
      BY <3>1, ConcatProperties
  <2>3. PICK c : c = [i \in 0 .. n + 1 |-> IF i = n + 1 THEN t ELSE b[i]]
    OBVIOUS
  <2>4. c \in [0 .. n + 1 -> Seq(Int)]
    BY <2>1, <2>3
  <2>5. \A i \in 0 .. n : c[i] = b[i]
    BY <2>3
  <2>6. ASSUME NEW i \in 0 .. n + 1
        PROVE  c[i] = IF i = 0 THEN <<>> ELSE c[i - 1] \o TokenBytes(text, i)
    <3>1. CASE i = n + 1
      <4>1. c[i] = t /\ c[n] = b[n] /\ i - 1 = n /\ i # 0
        BY <2>3, <2>5, <3>1
      <4>2. c[i - 1] \o TokenBytes(text, i) = b[n] \o TokenBytes(text, n + 1)
        BY <3>1, <4>1, Zenon
      <4> QED
        BY <2>2, <4>1, <4>2, Zenon
    <3>2. CASE i \in 1 .. n
      <4>1. PICK j \in 0 .. n : j + 1 = i /\ j + 1 <= n /\ i - 1 = j /\ i # 0 /\ i \in 0 .. n
        BY <3>2
      <4>2. b[j + 1] = b[j] \o TokenBytes(text, j + 1)
        BY <2>1, <4>1, BytesLoopAt
      <4>3. c[i] = b[i] /\ c[j] = b[j]
        BY <2>5, <4>1
      <4> QED
        BY <4>1, <4>2, <4>3, Zenon
    <3>3. CASE i = 0
      <4>1. 0 \in 0 .. n
        OBVIOUS
      <4>2. c[0] = b[0]
        BY <2>5, <4>1, Zenon
      <4>3. b[0] = <<>>
        BY <2>1, BytesLoopAt
      <4> QED
        BY <3>3, <4>2, <4>3, Zenon
    <3> QED
      BY <3>1, <3>2, <3>3
  <2>7. BytesLoop(text, n + 1, c)
    BY <2>4, <2>6 DEF BytesLoop
  <2> QED
    BY <2>4, <2>7
<1> HIDE DEF S
<1>3. S \in SUBSET Nat
  BY DEF S
<1>4. \A n \in Nat : n \in S
  BY <1>1, <1>2, <1>3, AllNat
<1> QED
  BY <1>4 DEF S

(* Two such loops agree as far as both go and the tokens stand for the     *)
(* same bytes.                                                             *)
LEMMA BytesLoopUnique ==
  ASSUME NEW t, NEW u, NEW n \in Nat, NEW m \in Nat, NEW b, NEW c,
         BytesLoop(t, n, b), BytesLoop(u, m, c), n <= m,
         \A i \in 1 .. n : TokenBytes(t, i) = TokenBytes(u, i)
  PROVE  \A i \in 0 .. n : b[i] = c[i]
<1> DEFINE S == {i \in Nat : i > n \/ b[i] = c[i]}
<1>1. 0 \in S
  BY DEF BytesLoop
<1>2. ASSUME NEW i \in S PROVE i + 1 \in S
  <2>1. CASE i + 1 > n
    BY <2>1
  <2>2. CASE i + 1 <= n
    <3>1. /\ i \in 0 .. n /\ i \in 0 .. m /\ i + 1 \in 1 .. n /\ i + 1 <= m
          /\ b[i] = c[i] /\ i + 1 \in Nat
      BY <2>2
    <3>2. b[i + 1] = b[i] \o TokenBytes(t, i + 1)
      BY <2>2, <3>1, BytesLoopAt
    <3>3. c[i + 1] = c[i] \o TokenBytes(u, i + 1)
      BY <3>1, BytesLoopAt
    <3>4. TokenBytes(t, i + 1) = TokenBytes(u, i + 1)
      BY <3>1, Zenon
    <3>5. b[i + 1] = c[i + 1]
      BY <3>1, <3>2, <3>3, <3>4, Zenon
    <3> QED
      BY <3>1, <3>5
  <2> QED
    BY <2>1, <2>2
<1> HIDE DEF S
<1>3. S \in SUBSET Nat
  BY DEF S
<1>4. \A i \in Nat : i \in S
  BY <1>1, <1>2, <1>3, AllNat
<1> QED
  BY <1>4 DEF S

LEMMA BytesIs ==
  ASSUME NEW text, NEW n \in Nat
  PROVE  \E b : BytesLoop(text, n, b) /\ b \in [0 .. n -> Seq(Int)] /\ BytesTo(text, n) = b[n]
<1>1. PICK b : BytesLoop(text, n, b) /\ b \in [0 .. n -> Seq(Int)]
  BY BytesLoopExists
<1>2. PICK c : c = CHOOSE d : BytesLoop(text, n, d)
  OBVIOUS
<1>3. BytesLoop(text, n, c)
  BY <1>1, <1>2
<1>4. BytesTo(text, n) = c[n]
  BY <1>2 DEF BytesTo, BytesLoop
<1>5. \A i \in 0 .. n : b[i] = c[i]
  BY <1>1, <1>3, BytesLoopUnique
<1> QED
  BY <1>1, <1>4, <1>5

LEMMA BytesSeq ==
  ASSUME NEW text, NEW n \in Nat
  PROVE  BytesTo(text, n) \in Seq(Int)
BY BytesIs

LEMMA BytesZero ==
  ASSUME NEW text
  PROVE  BytesTo(text, 0) = <<>>
<1>1. PICK b : BytesLoop(text, 0, b) /\ BytesTo(text, 0) = b[0]
  BY BytesIs
<1> QED
  BY <1>1 DEF BytesLoop

LEMMA BytesNext ==
  ASSUME NEW text, NEW n \in Nat
  PROVE  BytesTo(text, n + 1) = BytesTo(text, n) \o TokenBytes(text, n + 1)
<1>1. PICK b : BytesLoop(text, n, b) /\ BytesTo(text, n) = b[n]
  BY BytesIs
<1>2. n + 1 \in Nat
  OBVIOUS
<1>3. PICK c : BytesLoop(text, n + 1, c) /\ BytesTo(text, n + 1) = c[n + 1]
  BY <1>2, BytesIs
<1>4. \A i \in 0 .. n : b[i] = c[i]
  BY <1>1, <1>2, <1>3, BytesLoopUnique
<1>5. c[n + 1] = c[n] \o TokenBytes(text, n + 1)
  <2>1. n \in 0 .. n + 1 /\ n + 1 <= n + 1
    OBVIOUS
  <2> QED
    BY <1>2, <1>3, <2>1, BytesLoopAt
<1>6. b[n] = c[n]
  BY <1>4
<1> QED
  BY <1>1, <1>3, <1>5, <1>6, Zenon

LEMMA BytesSame ==
  ASSUME NEW t, NEW u, NEW n \in Nat,
         \A i \in 1 .. n : TokenBytes(t, i) = TokenBytes(u, i)
  PROVE  BytesTo(t, n) = BytesTo(u, n)
<1>1. PICK b : BytesLoop(t, n, b) /\ BytesTo(t, n) = b[n]
  BY BytesIs
<1>2. PICK c : BytesLoop(u, n, c) /\ BytesTo(u, n) = c[n]
  BY BytesIs
<1>3. \A i \in 0 .. n : b[i] = c[i]
  BY <1>1, <1>2, BytesLoopUnique
<1> QED
  BY <1>1, <1>2, <1>3

(* One token more leaves the bytes of the tokens before it as they are,    *)
(* unless it is the first dot after a field.                               *)
LEMMA BytesAppend ==
  ASSUME NEW text \in Seq(Tokens), NEW tok \in Tokens, NEW n \in 0 .. Len(text),
         \/ n < Len(text)
         \/ tok # "dot"
         \/ text[n] \notin FieldTokens
         \/ n > 1 /\ text[n - 1] = "dot"
  PROVE  BytesTo(Append(text, tok), n) = BytesTo(text, n)
<1>1. PICK u \in Seq(Tokens) : /\ u = Append(text, tok) /\ Len(u) = Len(text) + 1
                               /\ \A i \in 1 .. Len(text) : u[i] = text[i]
                               /\ u[Len(text) + 1] = tok
  BY AppendProperties, ZenonT(60)
<1>2. ASSUME NEW i \in 1 .. n PROVE TokenBytes(u, i) = TokenBytes(text, i)
  <2>1. Len(text) \in Nat /\ u[i] = text[i] /\ (i > 1 => u[i - 1] = text[i - 1])
    BY <1>1
  <2>2. CASE i < Len(text)
    BY <1>1, <2>1, <2>2 DEF TokenBytes
  <2>3. CASE i = Len(text)
    BY <1>1, <2>1, <2>3 DEF TokenBytes, FieldTokens
  <2> QED
    BY <2>2, <2>3
<1>3. n \in Nat
  OBVIOUS
<1> QED
  BY <1>1, <1>2, <1>3, BytesSame

LEMMA CompressionAppend ==
  ASSUME NEW text \in Seq(Tokens), NEW tok \in Tokens
  PROVE  Compression(Append(text, tok)) =
           Compression(text) \cup
             {i \in {Len(text)} : i > 0 /\ text[i] = "colon" /\ tok = "colon"}
<1>1. PICK u \in Seq(Tokens) : /\ u = Append(text, tok) /\ Len(u) = Len(text) + 1
                               /\ \A i \in 1 .. Len(text) : u[i] = text[i]
                               /\ u[Len(text) + 1] = tok
  BY AppendProperties
<1>2. Len(text) \in Nat
  OBVIOUS
<1> QED
  BY <1>1, <1>2 DEF Compression


-----------------------------------------------------------------------------
(* The end of the parser: what it stores is what the text spells.          *)

Bounds(p) == /\ p.pos >= -1 /\ p.pos + 1 <= V6Length
             /\ -1 <= p.compress /\ p.compress <= p.pos + 1

LEMMA LengthsAre ==
  V6Length \in Nat /\ V4Length \in Nat /\ V4Length > 1 /\ V4Length < V6Length
BY LengthsAssumption

LEMMA StoredIs ==
  ASSUME NEW p \in ParserRecord, Bounds(p), Stored(p)
  PROVE  BytesTo(p.text, p.in) = [i \in 1 .. p.pos + 1 |-> p.addr[i - 1]]
<1>1. PICK s \in Seq(Int) : s = BytesTo(p.text, p.in)
  BY BytesSeq DEF ParserRecord, ParserStates
<1>2. Len(s) = p.pos + 1 /\ \A k \in 1 .. p.pos + 1 : s[k] = p.addr[k - 1]
  BY <1>1 DEF Stored, StoredAt
<1>3. s = [i \in 1 .. Len(s) |-> s[i]]
  OBVIOUS
<1> QED
  BY <1>1, <1>2, <1>3

LEMMA ZerosSeq ==
  ASSUME NEW z \in Nat
  PROVE  Zeros(z) \in Seq(Int) /\ Len(Zeros(z)) = z /\ \A i \in 1 .. z : Zeros(z)[i] = 0
<1>1. Zeros(z) \in [1 .. z -> Int]
  BY DEF Zeros
<1>2. Zeros(z) \in Seq(Int)
  BY <1>1, SeqDef
<1> QED
  BY <1>1, <1>2, LenProperties DEF Zeros

(* A sequence of n bytes with z zeros after the first c.                   *)
WithZeros(s, n, c, z) ==
  [i \in 1 .. n + z |-> IF i <= c THEN s[i] ELSE IF i <= c + z THEN 0 ELSE s[i - z]]

LEMMA Inserted ==
  ASSUME NEW s \in Seq(Int), NEW n \in Nat, n = Len(s), NEW c \in Nat, c <= n, NEW z \in Nat
  PROVE  SubSeq(s, 1, c) \o Zeros(z) \o SubSeq(s, c + 1, n) = WithZeros(s, n, c, z)
<1>1. PICK t \in Seq(Int) : t = SubSeq(s, 1, c)
  <2>1. SubSeq(s, 1, c) \in Seq(Int)
    OBVIOUS
  <2> QED
    BY <2>1, Zenon
<1>2. Len(t) = c
  BY <1>1
<1>3. \A i \in 1 .. c : t[i] = s[i]
  BY <1>1
<1>4. PICK u \in Seq(Int) : u = SubSeq(s, c + 1, n)
  <2>1. SubSeq(s, c + 1, n) \in Seq(Int)
    OBVIOUS
  <2> QED
    BY <2>1, Zenon
<1>5. Len(u) = n - c
  BY <1>4
<1>6. \A i \in 1 .. n - c : u[i] = s[c + i]
  BY <1>4
<1>7. PICK o \in Seq(Int) : o = Zeros(z)
  BY ZerosSeq
<1>8. Len(o) = z
  BY <1>7, ZerosSeq
<1>9. \A i \in 1 .. z : o[i] = 0
  BY <1>7, ZerosSeq
<1>10. PICK v \in Seq(Int) : v = t \o o
  BY ConcatProperties
<1>11. Len(v) = c + z
  <2>1. Len(v) = Len(t) + Len(o)
    BY <1>10, ConcatProperties, Zenon
  <2> QED
    BY <1>2, <1>8, <2>1, Zenon
<1>12. \A i \in 1 .. c + z : v[i] = IF i <= c THEN t[i] ELSE o[i - c]
  <2>1. \A i \in 1 .. Len(t) + Len(o) : v[i] = IF i <= Len(t) THEN t[i] ELSE o[i - Len(t)]
    BY <1>10, ConcatProperties, Zenon
  <2> QED
    BY <1>2, <1>8, <2>1, Zenon
<1>13. PICK w \in Seq(Int) : w = v \o u
  BY ConcatProperties
<1>14. Len(w) = n + z
  <2>1. Len(w) = Len(v) + Len(u)
    BY <1>13, ConcatProperties, Zenon
  <2>2. (c + z) + (n - c) = n + z
    OBVIOUS
  <2> QED
    BY <1>5, <1>11, <2>1, <2>2, Zenon
<1>15. \A i \in 1 .. n + z : w[i] = IF i <= c + z THEN v[i] ELSE u[i - (c + z)]
  <2>1. \A i \in 1 .. Len(v) + Len(u) : w[i] = IF i <= Len(v) THEN v[i] ELSE u[i - Len(v)]
    BY <1>13, ConcatProperties, Zenon
  <2>2. (c + z) + (n - c) = n + z
    OBVIOUS
  <2> QED
    BY <1>5, <1>11, <2>1, <2>2, Zenon
<1>16. ASSUME NEW i \in 1 .. n + z
       PROVE  w[i] = IF i <= c THEN s[i] ELSE IF i <= c + z THEN 0 ELSE s[i - z]
  <2>1. w[i] = IF i <= c + z THEN v[i] ELSE u[i - (c + z)]
    BY <1>15, Zenon
  <2>2. CASE i <= c
    <3>1. i <= c + z /\ i \in 1 .. c + z /\ i \in 1 .. c
      BY <2>2
    <3>2. v[i] = t[i] /\ t[i] = s[i]
      BY <1>3, <1>12, <2>2, <3>1, Zenon
    <3> QED
      BY <2>1, <2>2, <3>1, <3>2, Zenon
  <2>3. CASE ~(i <= c) /\ i <= c + z
    <3>1. i \in 1 .. c + z /\ i - c \in 1 .. z
      BY <2>3
    <3>2. v[i] = o[i - c] /\ o[i - c] = 0
      BY <1>9, <1>12, <2>3, <3>1, Zenon
    <3> QED
      BY <2>1, <2>3, <3>1, <3>2, Zenon
  <2>4. CASE ~(i <= c + z)
    <3>1. ~(i <= c) /\ i - (c + z) \in 1 .. n - c /\ c + (i - (c + z)) = i - z
      BY <2>4
    <3>2. u[i - (c + z)] = s[c + (i - (c + z))]
      BY <1>6, <3>1, Zenon
    <3> QED
      BY <2>1, <2>4, <3>1, <3>2, Zenon
  <2> QED
    BY <2>2, <2>3, <2>4
<1>17. w = [i \in 1 .. Len(w) |-> w[i]]
  BY <1>14
<1>18. w = WithZeros(s, n, c, z)
  BY <1>14, <1>16, <1>17 DEF WithZeros
<1>19. w = SubSeq(s, 1, c) \o Zeros(z) \o SubSeq(s, c + 1, n)
  BY <1>1, <1>4, <1>7, <1>10, <1>13, Zenon
<1> QED
  BY <1>18, <1>19, Zenon

(* f is addr with its bytes from c on moved to the end, and zeros between. *)
Moved(f, addr, pos, c, V) ==
  f = [i \in 0 .. V - 1 |->
         IF i < c THEN addr[i]
         ELSE IF i < V - (pos + 1 - c) THEN 0 ELSE addr[i - (V - (pos + 1))]]
Copied(s, addr, n) == \A k \in 1 .. n : s[k] = addr[k - 1]

MovedByte(f, addr, n, c, V, j) ==
  f[j] = IF j < c THEN addr[j] ELSE IF j < V - (n - c) THEN 0 ELSE addr[j - (V - n)]

LEMMA MovedAt ==
  ASSUME NEW f, NEW addr, NEW pos \in Int, NEW c \in Nat, NEW V \in Nat, NEW n \in Nat,
         n = pos + 1, Moved(f, addr, pos, c, V), NEW j \in 0 .. V - 1
  PROVE  MovedByte(f, addr, n, c, V, j)
<1>1. f[j] = IF j < c THEN addr[j]
             ELSE IF j < V - (pos + 1 - c) THEN 0 ELSE addr[j - (V - (pos + 1))]
  BY Zenon DEF Moved
<1>2. V - (pos + 1 - c) = V - (n - c) /\ V - (pos + 1) = V - n
  OBVIOUS
<1> QED
  BY <1>1, <1>2, Zenon DEF MovedByte

Shifted(n, c, z, V, i, j) ==
  /\ j \in 0 .. V - 1 /\ j = i - 1
  /\ i <= c => j < c /\ i \in 1 .. n
  /\ ~(i <= c) /\ i <= c + z => ~(j < c) /\ j < V - (n - c)
  /\ ~(i <= c + z) => /\ ~(j < c) /\ ~(j < V - (n - c)) /\ ~(i <= c)
                      /\ i - z \in 1 .. n /\ (i - z) - 1 \in 0 .. V - 1
                      /\ (i - z) - 1 = j - (V - n)

LEMMA Shift ==
  ASSUME NEW n \in Nat, NEW c \in Nat, NEW z \in Nat, NEW V \in Nat, c <= n, V = n + z,
         NEW i \in 1 .. V
  PROVE  Shifted(n, c, z, V, i, i - 1)
BY DEF Shifted

(* Inflating "::" in place inserts the zeros.                              *)
LEMMA InflatedIs ==
  ASSUME NEW q \in ParserRecord, NEW s \in Seq(Int), NEW n \in Nat, NEW c \in Nat,
         c <= n, n < V6Length, n = q.pos + 1, c = q.compress, Copied(s, q.addr, n)
  PROVE  /\ Inflated(q) \in [0 .. V6Length - 1 -> Int]
         /\ [i \in 1 .. V6Length |-> Inflated(q)[i - 1]] = WithZeros(s, n, c, V6Length - n)
<1>1. PICK V \in Nat : V = V6Length
  BY LengthsAre
<1>2. PICK z \in Nat : z = V6Length - n /\ V = n + z
  BY <1>1
<1>3. PICK addr \in [0 .. V - 1 -> Int] : addr = q.addr
  BY <1>1 DEF ParserRecord
<1>4. PICK f, h : f = Inflated(q) /\ h = [i \in 1 .. V |-> f[i - 1]]
  OBVIOUS
<1>7. PICK pos \in Int : pos = q.pos /\ n = pos + 1
  BY DEF ParserRecord
<1>5. Moved(f, addr, pos, c, V)
  <2>1. Moved(f, q.addr, q.pos, q.compress, V6Length)
    BY <1>4, Zenon DEF Moved, Inflated
  <2> QED
    BY <1>1, <1>3, <1>7, <2>1, Zenon
<1>6. Copied(s, addr, n)
  BY <1>3, Zenon
<1>8. ASSUME NEW i \in 1 .. V
      PROVE  /\ f[i - 1] = IF i <= c THEN s[i] ELSE IF i <= c + z THEN 0 ELSE s[i - z]
             /\ f[i - 1] \in Int
  <2>0. V = n + z
    BY <1>2, Zenon
  <2>1. PICK j : j = i - 1
    OBVIOUS
  <2>6. Shifted(n, c, z, V, i, j)
    <3>1. Shifted(n, c, z, V, i, i - 1)
      BY <2>0, Shift
    <3> QED
      BY <2>1, <3>1, Zenon
  <2>7. j \in 0 .. V - 1
    BY <2>6, Zenon DEF Shifted
  <2>2. f[j] = IF j < c THEN addr[j] ELSE IF j < V - (n - c) THEN 0 ELSE addr[j - (V - n)]
    <3>1. n = pos + 1
      BY <1>7, Zenon
    <3>2. MovedByte(f, addr, n, c, V, j)
      BY <1>5, <2>7, <3>1, MovedAt, Zenon
    <3> QED
      BY <3>2, Zenon DEF MovedByte
  <2>3. CASE i <= c
    <3>1. j < c /\ i \in 1 .. n
      BY <2>3, <2>6, Zenon DEF Shifted
    <3>2. s[i] = addr[j] /\ addr[j] \in Int
      BY <1>6, <2>1, <2>7, <3>1 DEF Copied
    <3> QED
      BY <2>1, <2>2, <2>3, <3>1, <3>2
  <2>4. CASE ~(i <= c) /\ i <= c + z
    <3>1. ~(j < c) /\ j < V - (n - c)
      BY <2>4, <2>6, Zenon DEF Shifted
    <3> QED
      BY <2>1, <2>2, <2>4, <3>1
  <2>5. CASE ~(i <= c + z)
    <3>1. i - z \in 1 .. n /\ (i - z) - 1 \in 0 .. V - 1 /\ (i - z) - 1 = j - (V - n)
      BY <2>5, <2>6, Zenon DEF Shifted
    <3>2. ~(j < c) /\ ~(j < V - (n - c)) /\ ~(i <= c)
      BY <2>5, <2>6, Zenon DEF Shifted
    <3>3. s[i - z] = addr[(i - z) - 1] /\ addr[(i - z) - 1] \in Int
      BY <1>6, <3>1 DEF Copied
    <3>4. f[j] = addr[(i - z) - 1]
      BY <2>2, <3>1, <3>2, Zenon
    <3> QED
      BY <2>1, <2>5, <3>2, <3>3, <3>4, Zenon
  <2> QED
    BY <2>3, <2>4, <2>5
<1>9. ASSUME NEW i \in 0 .. V - 1 PROVE f[i] \in Int
  <2>1. i + 1 \in 1 .. V /\ (i + 1) - 1 = i
    OBVIOUS
  <2> QED
    BY <1>8, <2>1
<1>10. f \in [0 .. V - 1 -> Int]
  <2>1. f = [i \in 0 .. V - 1 |-> f[i]]
    BY <1>5, Zenon DEF Moved
  <2> QED
    BY <1>9, <2>1
<1>11. h = WithZeros(s, n, c, z)
  BY <1>2, <1>4, <1>8 DEF WithZeros
<1> QED
  BY <1>1, <1>2, <1>4, <1>10, <1>11, Zenon

LEMMA FinishKeeps ==
  ASSUME NEW q \in ParserRecord, q.in = Len(q.text), Bounds(q), Stored(q), Marked(q),
         q.len = 0 \/ (q.len = V4Length /\ q.compress = -1 /\ q.pos + 1 = V4Length)
  PROVE  /\ Finish(q) \in ParserRecord /\ Finish(q).state \in {"accepted", "rejected"}
         /\ Finish(q).top = q.top /\ Finish(q).text = q.text
         /\ Finish(q).state = "accepted" => AsWritten(Finish(q))
<1>1. PICK s \in Seq(Int) : /\ s = BytesTo(q.text, Len(q.text)) /\ Len(s) = q.pos + 1
                            /\ \A k \in 1 .. q.pos + 1 : s[k] = q.addr[k - 1]
                            /\ s = [i \in 1 .. q.pos + 1 |-> q.addr[i - 1]]
  <2>1. BytesTo(q.text, q.in) \in Seq(Int)
    BY BytesSeq DEF ParserRecord, ParserStates
  <2> QED
    BY <2>1, StoredIs DEF Stored, StoredAt
<1>2. q.compress = -1 => Spelling(q.text) = s
  BY <1>1 DEF Marked, Spelling
<1>3. CASE q.len = V4Length
  <2>1. Finish(q) = [q EXCEPT !.state = "accepted"]
    BY <1>3 DEF Finish
  <2>2. q.compress = -1 /\ q.pos + 1 = V4Length
    BY <1>3, LengthsAre
  <2> QED
    BY <1>1, <1>2, <1>3, <2>1, <2>2, ZenonT(60) DEF ParserRecord, ParserStates, AsWritten
<1>4. CASE q.len # V4Length /\ q.compress # -1
  <2>1. CASE q.pos + 1 >= V6Length
    <3>1. Finish(q) = [q EXCEPT !.state = "rejected"]
      BY <1>4, <2>1 DEF Finish, Reject
    <3> QED
      BY <3>1 DEF ParserRecord, ParserStates
  <2>2. CASE ~(q.pos + 1 >= V6Length)
    <3>1. Finish(q) = [q EXCEPT !.addr = Inflated(q), !.len = V6Length, !.state = "accepted"]
      BY <1>4, <2>2 DEF Finish
    <3>2. PICK n \in Nat, c \in Nat : c <= n /\ n = q.pos + 1 /\ c = q.compress /\ n < V6Length
      BY <1>4, <2>2, LengthsAre, SMTT(30) DEF Bounds, ParserRecord
    <3>3. PICK z \in Nat : z = V6Length - n
      BY <3>2, LengthsAre
    <3>7. Spelling(q.text) = SubSeq(s, 1, c) \o Zeros(z) \o SubSeq(s, c + 1, n)
      <4>1. PICK i \in Compression(q.text) :
              Compression(q.text) = {i} /\ Len(BytesTo(q.text, i)) = q.compress
        BY <1>4 DEF Marked
      <4>2. (CHOOSE j \in Compression(q.text) : TRUE) = i /\ Compression(q.text) # {}
        BY <4>1
      <4>3. Len(BytesTo(q.text, CHOOSE j \in Compression(q.text) : TRUE)) = c
        BY <3>2, <4>1, <4>2, Zenon
      <4>4. V6Length - Len(s) = z /\ Len(s) = n
        BY <1>1, <3>2, <3>3, Zenon
      <4> QED
        BY <1>1, <4>2, <4>3, <4>4, Zenon DEF Spelling
    <3>8. n = Len(s) /\ c <= n
      BY <1>1, <3>2, Zenon
    <3>4. Copied(s, q.addr, n)
      BY <1>1, <3>2, Zenon DEF Copied
    <3>5. /\ Inflated(q) \in [0 .. V6Length - 1 -> Int]
          /\ [i \in 1 .. V6Length |-> Inflated(q)[i - 1]] = WithZeros(s, n, c, V6Length - n)
      BY <3>2, <3>4, InflatedIs
    <3>9. [i \in 1 .. V6Length |-> Inflated(q)[i - 1]] = Spelling(q.text)
      <4>1. Spelling(q.text) = WithZeros(s, n, c, z)
        <5>1. n = Len(s) /\ c <= n
          BY <3>8, Zenon
        <5>2. SubSeq(s, 1, c) \o Zeros(z) \o SubSeq(s, c + 1, n) = WithZeros(s, n, c, z)
          BY <5>1, Inserted
        <5> QED
          BY <3>7, <5>2, Zenon
      <4> QED
        BY <3>3, <3>5, <4>1, Zenon
    <3>10. /\ Finish(q).addr = Inflated(q) /\ Finish(q).len = V6Length
           /\ Finish(q).state = "accepted" /\ Finish(q).text = q.text /\ Finish(q).top = q.top
      BY <3>1 DEF ParserRecord, ParserStates
    <3>11. AsWritten(Finish(q))
      BY <3>9, <3>10 DEF AsWritten
    <3>12. Finish(q) \in ParserRecord
      <4>2. Inflated(q) \in [0 .. V6Length - 1 -> Int] /\ V6Length \in Int
        BY <3>5, LengthsAre
      <4> QED
        BY <3>1, <4>2 DEF ParserRecord, ParserStates
    <3> QED
      BY <3>10, <3>11, <3>12
  <2> QED
    BY <2>1, <2>2
<1>5. CASE q.len # V4Length /\ q.compress = -1
  <2>1. CASE q.pos + 1 # V6Length
    <3>1. Finish(q) = [q EXCEPT !.state = "rejected"]
      BY <1>5, <2>1 DEF Finish, Reject
    <3> QED
      BY <3>1 DEF ParserRecord, ParserStates
  <2>2. CASE q.pos + 1 = V6Length
    <3>1. Finish(q) = [q EXCEPT !.len = V6Length, !.state = "accepted"]
      BY <1>5, <2>2 DEF Finish
    <3>2. /\ Finish(q) \in ParserRecord /\ Finish(q).state = "accepted" /\ Finish(q).len = V6Length
          /\ Finish(q).addr = q.addr /\ Finish(q).text = q.text /\ Finish(q).top = q.top
      <4>1. V6Length \in Int
        BY LengthsAre
      <4> QED
        BY <3>1, <4>1 DEF ParserRecord, ParserStates
    <3>3. AsWritten(Finish(q))
      BY <1>1, <1>2, <1>5, <2>2, <3>2, Zenon DEF AsWritten
    <3> QED
      BY <3>2, <3>3
  <2> QED
    BY <2>1, <2>2
<1> QED
  BY <1>3, <1>4, <1>5

(* A field or a part too many ends the loop with too high a position.      *)
LEMMA FinishRejects ==
  ASSUME NEW q \in ParserRecord, q.len = 0, q.pos + 1 > V6Length
  PROVE  Finish(q) = [q EXCEPT !.state = "rejected"]
BY LengthsAre DEF Finish, Reject, ParserRecord


-----------------------------------------------------------------------------
(* One token more: what reading and storing it change.                     *)

LEMMA RejectSound ==
  ASSUME NEW q \in ParserRecord, q.top < V6Length
  PROVE  Sound(Reject(q))
<1>1. PICK r : r = Reject(q)
  OBVIOUS
<1>2. r \in ParserRecord /\ r.state = "rejected" /\ r.top = q.top
  BY <1>1 DEF Reject, ParserRecord, ParserStates
<1> QED
  BY <1>1, <1>2 DEF Sound

ReadToken(p, tok) ==
  [p EXCEPT !.in = @ + 1, !.text = IF p.in < Len(@) THEN @ ELSE Append(@, tok)]

SameBut(p, q) == /\ q.state = p.state /\ q.pos = p.pos /\ q.compress = p.compress
                 /\ q.ipv4 = p.ipv4 /\ q.addr = p.addr /\ q.len = p.len /\ q.top = p.top

LEMMA ReadIs ==
  ASSUME NEW p \in ParserRecord, NEW tok \in Tokens
  PROVE  /\ ReadToken(p, tok) \in ParserRecord
         /\ SameBut(p, ReadToken(p, tok))
         /\ ReadToken(p, tok).in = p.in + 1
         /\ ReadToken(p, tok).text = IF p.in < Len(p.text) THEN p.text ELSE Append(p.text, tok)
<1>1. PICK t : t = IF p.in < Len(p.text) THEN p.text ELSE Append(p.text, tok)
  OBVIOUS
<1>2. p.text \in Seq(Tokens) /\ p.in + 1 \in Nat
  BY DEF ParserRecord
<1>3. t \in Seq(Tokens)
  BY <1>1, <1>2, AppendProperties
<1>4. ReadToken(p, tok) = [p EXCEPT !.in = p.in + 1, !.text = t]
  BY <1>1, Zenon DEF ReadToken
<1> QED
  BY <1>1, <1>2, <1>3, <1>4 DEF ParserRecord, SameBut

(* A token that is not in the text yet leaves the bytes and the place of   *)
(* "::" as they are, unless it is the first dot after a field or a colon   *)
(* after a colon.                                                          *)
SecondDot(p, tok) == \/ tok # "dot"
                     \/ p.text[p.in] \notin FieldTokens
                     \/ p.in > 1 /\ p.text[p.in - 1] = "dot"
NoColons(p, tok) == tok # "colon" \/ p.in = 0 \/ p.text[p.in] # "colon"

OneMore(p, q, tok) ==
  /\ Len(q.text) = p.in + 1 /\ q.in = p.in + 1 /\ q.text[p.in + 1] = tok
  /\ \A i \in 1 .. p.in : q.text[i] = p.text[i]
  /\ StoredAt(q, p.in)
  /\ NoColons(p, tok) => Marked(q)

LEMMA ReadNew ==
  ASSUME NEW p \in ParserRecord, Running(p), p.in = Len(p.text), NEW tok \in Tokens,
         NEW q, q = ReadToken(p, tok), SecondDot(p, tok)
  PROVE  OneMore(p, q, tok)
<1>1. PICK t \in Seq(Tokens), n \in Nat : t = p.text /\ n = p.in /\ n = Len(t)
  BY DEF ParserRecord
<1>2. q.text = Append(t, tok) /\ q.in = n + 1 /\ SameBut(p, q) /\ q \in ParserRecord
  <2>1. ~(p.in < Len(p.text))
    BY <1>1
  <2> QED
    BY <1>1, <2>1, ReadIs
<1>3. PICK u \in Seq(Tokens) : /\ u = Append(t, tok) /\ Len(u) = n + 1 /\ u[n + 1] = tok
                               /\ \A i \in 1 .. n : u[i] = t[i]
  <2>1. PICK u \in Seq(Tokens) : /\ u = Append(t, tok) /\ Len(u) = Len(t) + 1
                                 /\ \A i \in 1 .. Len(t) : u[i] = t[i]
                                 /\ u[Len(t) + 1] = tok
    BY AppendProperties, ZenonT(60)
  <2>2. n = Len(t)
    BY <1>1
  <2> QED
    BY <2>1, <2>2, Zenon
<1>4. ASSUME NEW k \in 0 .. n, k < n \/ k = n PROVE BytesTo(u, k) = BytesTo(t, k)
  BY <1>1, <1>3, BytesAppend DEF SecondDot
<1>5. StoredAt(q, n)
  <2>1. BytesTo(q.text, n) = BytesTo(p.text, n)
    BY <1>1, <1>2, <1>3, <1>4
  <2>2. StoredAt(p, n)
    BY <1>1 DEF Running, Stored
  <2>3. q.pos = p.pos /\ q.addr = p.addr
    BY <1>2 DEF SameBut
  <2> QED
    BY <2>1, <2>2, <2>3, Zenon DEF StoredAt
<1>6. ASSUME NoColons(p, tok) PROVE Marked(q)
  <2>1. Compression(u) = Compression(t)
    <3>1. Compression(u) = Compression(t) \cup
            {i \in {n} : i > 0 /\ t[i] = "colon" /\ tok = "colon"}
      BY <1>1, <1>3, CompressionAppend
    <3> QED
      BY <1>1, <1>6, <3>1 DEF NoColons
  <2>2. Marked(p) /\ q.compress = p.compress /\ q.text = u
    BY <1>2, <1>3 DEF Running, SameBut
  <2>3. CASE p.compress = -1
    BY <1>1, <2>1, <2>2, <2>3 DEF Marked
  <2>4. CASE p.compress # -1
    <3>1. PICK i \in Compression(t) : /\ Compression(t) = {i} /\ i < n
                                      /\ Len(BytesTo(t, i)) = p.compress
      BY <1>1, <2>2, <2>4 DEF Marked
    <3>2. i \in 0 .. n /\ i < n + 1
      BY <1>1, <3>1 DEF Compression
    <3>3. BytesTo(u, i) = BytesTo(t, i)
      BY <1>4, <3>1, <3>2
    <3> QED
      BY <1>2, <2>1, <2>2, <2>4, <3>1, <3>2, <3>3 DEF Marked
  <2> QED
    BY <2>3, <2>4
<1> QED
  BY <1>1, <1>2, <1>3, <1>5, <1>6 DEF OneMore

LEMMA NoBytes ==
  ASSUME NEW q \in ParserRecord, NEW n \in Nat, StoredAt(q, n), q.text[n + 1] \notin FieldTokens
  PROVE  StoredAt(q, n + 1)
<1>1. TokenBytes(q.text, n + 1) = <<>>
  BY DEF TokenBytes, FieldTokens
<1>2. BytesTo(q.text, n) \in Seq(Int)
  BY BytesSeq
<1>3. BytesTo(q.text, n + 1) = BytesTo(q.text, n)
  <2>1. BytesTo(q.text, n + 1) = BytesTo(q.text, n) \o <<>>
    BY <1>1, BytesNext
  <2> QED
    BY <1>2, <2>1, ConcatEmptySeq
<1> QED
  BY <1>3, Zenon DEF StoredAt

Written(p, w, i, b) ==
  /\ w \in ParserRecord /\ w.top < V6Length /\ w.addr[i] = b
  /\ \A j \in 0 .. V6Length - 1 : j # i => w.addr[j] = p.addr[j]
  /\ w.state = p.state /\ w.pos = p.pos /\ w.compress = p.compress /\ w.ipv4 = p.ipv4
  /\ w.len = p.len /\ w.text = p.text /\ w.in = p.in

LEMMA WriteIs ==
  ASSUME NEW p \in ParserRecord, NEW i \in 0 .. V6Length - 1, NEW b \in Int, p.top < V6Length
  PROVE  Written(p, Write(p, i, b), i, b)
<1>1. PICK a : a = [j \in DOMAIN p.addr |-> IF j = i THEN b ELSE p.addr[j]]
  OBVIOUS
<1>2. p.addr \in [0 .. V6Length - 1 -> Int] /\ p.top \in Int /\ i \in Int /\ i < V6Length
  BY LengthsAre DEF ParserRecord
<1>3. a \in [0 .. V6Length - 1 -> Int] /\ a[i] = b /\ \A j \in 0 .. V6Length - 1 : j # i => a[j] = p.addr[j]
  BY <1>1, <1>2
<1>4. PICK m \in Int : m = (IF i > p.top THEN i ELSE p.top) /\ m < V6Length
  BY <1>2
<1>5. Write(p, i, b) = [p EXCEPT !.addr = a, !.top = m]
  BY <1>1, <1>4, Zenon DEF Write
<1> QED
  BY <1>3, <1>4, <1>5 DEF ParserRecord, Written

LEMMA Extended ==
  ASSUME NEW s \in Seq(Int), NEW t \in Seq(Int), NEW a, NEW b,
         \A k \in 1 .. Len(s) : s[k] = a[k - 1],
         \A j \in 0 .. Len(s) - 1 : b[j] = a[j],
         \A k \in 1 .. Len(t) : t[k] = b[(Len(s) + k) - 1]
  PROVE  /\ Len(s \o t) = Len(s) + Len(t)
         /\ \A k \in 1 .. Len(s) + Len(t) : (s \o t)[k] = b[k - 1]
<1>1. PICK m \in Nat, l \in Nat : m = Len(s) /\ l = Len(t)
  OBVIOUS
<1>2. /\ Len(s \o t) = m + l
      /\ \A i \in 1 .. m + l : (s \o t)[i] = IF i <= m THEN s[i] ELSE t[i - m]
  BY <1>1, ConcatProperties
<1>3. ASSUME NEW k \in 1 .. m + l PROVE (s \o t)[k] = b[k - 1]
  <2>1. CASE k <= m
    <3>1. k \in 1 .. m /\ k - 1 \in 0 .. m - 1
      BY <2>1
    <3> QED
      BY <1>1, <1>2, <2>1, <3>1
  <2>2. CASE ~(k <= m)
    <3>1. k - m \in 1 .. l /\ (m + (k - m)) - 1 = k - 1
      BY <2>2
    <3>2. t[k - m] = b[(m + (k - m)) - 1]
      BY <1>1, <3>1
    <3> QED
      BY <1>2, <2>2, <3>1, <3>2
  <2> QED
    BY <2>1, <2>2
<1> QED
  BY <1>1, <1>2, <1>3

(* The bytes of the next token are stored behind those of the tokens       *)
(* before it.                                                              *)
LEMMA AddBytes ==
  ASSUME NEW q \in ParserRecord, NEW r \in ParserRecord, NEW n \in Nat, StoredAt(q, n),
         NEW m \in Nat, m = q.pos + 1, NEW t \in Seq(Int), t = TokenBytes(q.text, n + 1),
         r.text = q.text, r.pos + 1 = m + Len(t),
         \A j \in 0 .. m - 1 : r.addr[j] = q.addr[j],
         \A k \in 1 .. Len(t) : t[k] = r.addr[(m + k) - 1]
  PROVE  StoredAt(r, n + 1)
<1>1. PICK s \in Seq(Int) : s = BytesTo(q.text, n)
  BY BytesSeq
<1>2. Len(s) = m /\ \A k \in 1 .. m : s[k] = q.addr[k - 1]
  BY <1>1, Zenon DEF StoredAt
<1>3. BytesTo(r.text, n + 1) = s \o t
  BY <1>1, BytesNext, Zenon
<1>4. /\ Len(s \o t) = m + Len(t)
      /\ \A k \in 1 .. m + Len(t) : (s \o t)[k] = r.addr[k - 1]
  <2>1. \A k \in 1 .. Len(s) : s[k] = q.addr[k - 1]
    BY <1>2, Zenon
  <2>2. \A j \in 0 .. Len(s) - 1 : r.addr[j] = q.addr[j]
    BY <1>2, Zenon
  <2>3. \A k \in 1 .. Len(t) : t[k] = r.addr[(Len(s) + k) - 1]
    BY <1>2, Zenon
  <2>4. PICK a, b : a = q.addr /\ b = r.addr
    OBVIOUS
  <2>5. /\ Len(s \o t) = Len(s) + Len(t)
        /\ \A k \in 1 .. Len(s) + Len(t) : (s \o t)[k] = b[k - 1]
    BY <2>1, <2>2, <2>3, <2>4, Extended
  <2> QED
    BY <1>2, <2>4, <2>5, Zenon
<1> QED
  BY <1>3, <1>4, Zenon DEF StoredAt

LEMMA TwoBytes ==
  ASSUME NEW i \in Nat
  PROVE  /\ <<2 * i, 2 * i + 1>> \in Seq(Int) /\ Len(<<2 * i, 2 * i + 1>>) = 2
         /\ <<2 * i, 2 * i + 1>>[1] = 2 * i /\ <<2 * i, 2 * i + 1>>[2] = 2 * i + 1
OBVIOUS

LEMMA OneByte ==
  ASSUME NEW i \in Nat
  PROVE  <<-i>> \in Seq(Int) /\ Len(<<-i>>) = 1 /\ <<-i>>[1] = -i
OBVIOUS

LEMMA PosIs ==
  ASSUME NEW q \in ParserRecord, Bounds(q)
  PROVE  /\ q.pos + 1 \in Nat /\ q.pos + 1 <= V6Length
         /\ q.pos + 2 = (q.pos + 1) + 1 /\ q.pos + 3 = (q.pos + 1) + 2
BY SMTT(30) DEF Bounds, ParserRecord

LEMMA NextPos ==
  ASSUME NEW m \in Nat
  PROVE  (m + 1) + 1 = m + 2
OBVIOUS

(* An IPv6 field: its two bytes.                                           *)
LEMMA AddField ==
  ASSUME NEW q \in ParserRecord, NEW r \in ParserRecord, NEW n \in Nat, StoredAt(q, n),
         Bounds(q), n + 1 = Len(q.text), q.text[n + 1] \in FieldTokens,
         n > 0 => q.text[n] # "dot",
         r.text = q.text, r.pos = q.pos + 2,
         r.addr[q.pos + 1] = 2 * (n + 1), r.addr[q.pos + 2] = 2 * (n + 1) + 1,
         \A j \in 0 .. V6Length - 1 : j # q.pos + 1 /\ j # q.pos + 2 => r.addr[j] = q.addr[j]
  PROVE  StoredAt(r, n + 1)
<1>1. PICK m \in Nat : m = q.pos + 1 /\ m <= V6Length
  BY PosIs, Zenon
<1>2. PICK i \in Nat : i = n + 1
  OBVIOUS
<1>3. PICK t \in Seq(Int) : /\ t = <<2 * i, 2 * i + 1>> /\ Len(t) = 2
                            /\ t[1] = 2 * i /\ t[2] = 2 * i + 1
  BY TwoBytes, Zenon
<1>4. t = TokenBytes(q.text, n + 1)
  <2>1. i - 1 = n /\ ~(i < Len(q.text)) /\ i \in Nat /\ (i > 1 => n > 0)
    BY <1>2
  <2>2. ~(i > 1 /\ q.text[i - 1] = "dot")
    BY <2>1, Zenon
  <2>3. ~(q.text[i] \notin {"hex"} \cup Decimals)
    BY <1>2, Zenon DEF FieldTokens
  <2>4. TokenBytes(q.text, i) = <<2 * i, 2 * i + 1>>
    BY <2>1, <2>2, <2>3, Zenon DEF TokenBytes
  <2> QED
    BY <1>2, <1>3, <2>4, Zenon
<1>5. \A j \in 0 .. m - 1 : r.addr[j] = q.addr[j]
  <2>1. ASSUME NEW j \in 0 .. m - 1
        PROVE  j \in 0 .. V6Length - 1 /\ j # m /\ j # m + 1
    BY <1>1, LengthsAre, SMTT(30)
  <2>2. q.pos + 1 = m /\ q.pos + 2 = m + 1
    BY <1>1, PosIs, Zenon
  <2> QED
    BY <2>1, <2>2, Zenon
<1>6. ASSUME NEW k \in 1 .. Len(t) PROVE t[k] = r.addr[(m + k) - 1]
  <2>1. (k = 1 /\ (m + k) - 1 = m) \/ (k = 2 /\ (m + k) - 1 = m + 1)
    BY <1>1, <1>3
  <2>2. q.pos + 1 = m /\ q.pos + 2 = m + 1
    BY <1>1, PosIs, Zenon
  <2> QED
    BY <1>2, <1>3, <2>1, <2>2, Zenon
<1>7. r.pos + 1 = m + Len(t)
  BY <1>1, <1>3, PosIs, NextPos, Zenon
<1> QED
  BY <1>1, <1>4, <1>5, <1>6, <1>7, AddBytes

(* A part of a dotted quad: its byte.                                      *)
LEMMA AddPart ==
  ASSUME NEW q \in ParserRecord, NEW r \in ParserRecord, NEW n \in Nat, StoredAt(q, n),
         Bounds(q), q.text[n + 1] \in FieldTokens,
         \/ n + 1 < Len(q.text) /\ q.text[n + 2] = "dot"
         \/ n > 0 /\ q.text[n] = "dot",
         r.text = q.text, r.pos = q.pos + 1, r.addr[q.pos + 1] = -(n + 1),
         \A j \in 0 .. V6Length - 1 : j # q.pos + 1 => r.addr[j] = q.addr[j]
  PROVE  StoredAt(r, n + 1)
<1>1. PICK m \in Nat : m = q.pos + 1 /\ m <= V6Length
  BY PosIs, Zenon
<1>2. PICK i \in Nat : i = n + 1
  OBVIOUS
<1>3. PICK t \in Seq(Int) : t = <<-i>> /\ Len(t) = 1 /\ t[1] = -i
  BY OneByte, Zenon
<1>4. t = TokenBytes(q.text, n + 1)
  <2>1. i - 1 = n /\ i + 1 = n + 2 /\ (n > 0 => i > 1)
    BY <1>2
  <2>2. (i < Len(q.text) /\ q.text[i + 1] = "dot") \/ (i > 1 /\ q.text[i - 1] = "dot")
    BY <1>2, <2>1, Zenon
  <2>3. ~(q.text[i] \notin {"hex"} \cup Decimals)
    BY <1>2, Zenon DEF FieldTokens
  <2>4. TokenBytes(q.text, i) = <<-i>>
    BY <2>2, <2>3, Zenon DEF TokenBytes
  <2> QED
    BY <1>2, <1>3, <2>4, Zenon
<1>5. \A j \in 0 .. m - 1 : r.addr[j] = q.addr[j]
  <2>1. ASSUME NEW j \in 0 .. m - 1 PROVE j \in 0 .. V6Length - 1 /\ j # m
    BY <1>1, LengthsAre
  <2> QED
    BY <1>1, <2>1, Zenon
<1>6. ASSUME NEW k \in 1 .. Len(t) PROVE t[k] = r.addr[(m + k) - 1]
  <2>1. k = 1 /\ (m + k) - 1 = m
    BY <1>1, <1>3
  <2> QED
    BY <1>1, <1>2, <1>3, <2>1, Zenon
<1>7. r.pos + 1 = m + Len(t)
  BY <1>1, <1>3, PosIs, NextPos, Zenon
<1> QED
  BY <1>1, <1>4, <1>5, <1>6, <1>7, AddBytes, ZenonT(60)

-----------------------------------------------------------------------------
(* FIELD.  The token n + 1 was read, the ones before it are stored.        *)

Ready(q, n) ==
  /\ q \in ParserRecord /\ q.top < V6Length /\ n \in Nat
  /\ q.in = n + 1 /\ Bounds(q) /\ StoredAt(q, n)

FieldReady(q, n, tok) ==
  /\ Ready(q, n) /\ Marked(q) /\ q.len = 0
  /\ n + 1 = Len(q.text) /\ q.text[n + 1] = tok
  /\ n > 0 => q.text[n] # "dot"

LEMMA MarkedSame ==
  ASSUME NEW q, NEW r, Marked(q), r.text = q.text, r.compress = q.compress, r.in = q.in
  PROVE  Marked(r)
BY Zenon DEF Marked

LEMMA FinishSound ==
  ASSUME NEW q \in ParserRecord, q.top < V6Length, q.in = Len(q.text), Bounds(q), Stored(q),
         Marked(q),
         q.len = 0 \/ (q.len = V4Length /\ q.compress = -1 /\ q.pos + 1 = V4Length)
  PROVE  Sound(Finish(q))
<1>1. /\ Finish(q) \in ParserRecord /\ Finish(q).state \in {"accepted", "rejected"}
      /\ Finish(q).top = q.top /\ Finish(q).text = q.text
      /\ Finish(q).state = "accepted" => AsWritten(Finish(q))
  BY FinishKeeps
<1> QED
  BY <1>1, Zenon DEF Sound

(* A field or a part too many.                                             *)
LEMMA TooMany ==
  ASSUME NEW q \in ParserRecord, q.top < V6Length, q.len = 0, NEW d \in Int,
         (q.pos + d) + 1 > V6Length
  PROVE  Sound(Finish([q EXCEPT !.pos = @ + d]))
<1>1. PICK r : r = [q EXCEPT !.pos = @ + d]
  OBVIOUS
<1>2. r \in ParserRecord /\ r.top = q.top /\ r.len = 0 /\ r.pos = q.pos + d
  BY <1>1, SMTT(30) DEF ParserRecord
<1>3. Finish(r) = Reject(r)
  BY <1>2, FinishRejects DEF Reject
<1> QED
  BY <1>1, <1>2, <1>3, RejectSound

FieldStored(q, tok) ==
  [Write(Write(q, q.pos + 1, 2 * q.in), q.pos + 2, 2 * q.in + 1)
     EXCEPT !.pos = @ + 2, !.state = IF tok = "hex" THEN "afterhex" ELSE "afterdec"]

LEMMA FieldIndices ==
  ASSUME NEW q \in ParserRecord, Bounds(q), q.pos + 3 <= V6Length
  PROVE  /\ q.pos + 1 \in 0 .. V6Length - 1 /\ q.pos + 2 \in 0 .. V6Length - 1
         /\ q.pos + 1 # q.pos + 2
BY LengthsAre, SMTT(30) DEF Bounds, ParserRecord

LEMMA FieldBytes ==
  ASSUME NEW q \in ParserRecord
  PROVE  2 * q.in \in Int /\ 2 * q.in + 1 \in Int
BY DEF ParserRecord

Advanced(v, r, d, s) ==
  /\ r \in ParserRecord /\ r.top = v.top /\ r.state = s /\ r.pos = v.pos + d
  /\ r.compress = v.compress /\ r.len = v.len /\ r.text = v.text /\ r.in = v.in
  /\ r.addr = v.addr

LEMMA AdvancedIs ==
  ASSUME NEW v \in ParserRecord, NEW d \in Int, NEW s \in ParserStates
  PROVE  Advanced(v, [v EXCEPT !.pos = @ + d, !.state = s], d, s)
<1>1. PICK r : r = [v EXCEPT !.pos = @ + d, !.state = s]
  OBVIOUS
<1>2. v.pos + d \in Int
  BY DEF ParserRecord
<1>3. r = [v EXCEPT !.pos = v.pos + d, !.state = s]
  BY <1>1, Zenon
<1>4. r \in ParserRecord
  BY <1>2, <1>3 DEF ParserRecord
<1>5. /\ r.top = v.top /\ r.state = s /\ r.pos = v.pos + d
      /\ r.compress = v.compress /\ r.len = v.len /\ r.text = v.text /\ r.in = v.in
      /\ r.addr = v.addr
  BY <1>3 DEF ParserRecord
<1> QED
  BY <1>1, <1>4, <1>5, Zenon DEF Advanced

FieldWritten(q, r, tok) ==
  /\ r \in ParserRecord /\ r.top < V6Length
  /\ r.state = (IF tok = "hex" THEN "afterhex" ELSE "afterdec")
  /\ r.pos = q.pos + 2 /\ r.compress = q.compress /\ r.len = q.len
  /\ r.text = q.text /\ r.in = q.in
  /\ r.addr[q.pos + 1] = 2 * q.in /\ r.addr[q.pos + 2] = 2 * q.in + 1
  /\ \A j \in 0 .. V6Length - 1 :
       j # q.pos + 1 /\ j # q.pos + 2 => r.addr[j] = q.addr[j]

LEMMA FieldStoredIs ==
  ASSUME NEW q \in ParserRecord, q.top < V6Length, Bounds(q), q.pos + 3 <= V6Length, NEW tok
  PROVE  FieldWritten(q, FieldStored(q, tok), tok)
<1>1. PICK i, j, b, c :
        /\ i = q.pos + 1 /\ j = q.pos + 2 /\ b = 2 * q.in /\ c = 2 * q.in + 1
        /\ i \in 0 .. V6Length - 1 /\ j \in 0 .. V6Length - 1 /\ i # j
        /\ b \in Int /\ c \in Int
  BY FieldIndices, FieldBytes, Zenon
<1>2. PICK w : w = Write(q, i, b)
  OBVIOUS
<1>3. Written(q, w, i, b)
  BY <1>1, <1>2, WriteIs, Zenon
<1>4. PICK v : v = Write(w, j, c)
  OBVIOUS
<1>5. Written(w, v, j, c)
  <2>1. w \in ParserRecord /\ w.top < V6Length
    BY <1>3, Zenon DEF Written
  <2> QED
    BY <1>1, <1>4, <2>1, WriteIs, Zenon
<1>6. PICK s \in ParserStates : s = IF tok = "hex" THEN "afterhex" ELSE "afterdec"
  BY DEF ParserStates
<1>7. PICK r : r = [v EXCEPT !.pos = @ + 2, !.state = s]
  OBVIOUS
<1>8. r = FieldStored(q, tok)
  BY <1>1, <1>2, <1>4, <1>6, <1>7, Zenon DEF FieldStored
<1>9. Advanced(v, r, 2, s)
  <2>1. v \in ParserRecord
    BY <1>5, Zenon DEF Written
  <2>2. PICK d \in Int : d = 2
    OBVIOUS
  <2>3. r = [v EXCEPT !.pos = @ + d, !.state = s]
    BY <1>7, <2>2, Zenon
  <2> QED
    BY <2>1, <2>2, <2>3, AdvancedIs, Zenon
<1>10. /\ r.addr[i] = b /\ r.addr[j] = c
       /\ \A k \in 0 .. V6Length - 1 : k # i /\ k # j => r.addr[k] = q.addr[k]
  BY <1>1, <1>3, <1>5, <1>9, ZenonT(60) DEF Written, Advanced
<1>11. /\ r.pos = q.pos + 2 /\ r.compress = q.compress /\ r.len = q.len
       /\ r.text = q.text /\ r.in = q.in /\ r.top < V6Length /\ r \in ParserRecord
  BY <1>3, <1>5, <1>9, Zenon DEF Written, Advanced
<1> QED
  BY <1>1, <1>6, <1>8, <1>9, <1>10, <1>11, Zenon DEF Advanced, FieldWritten

LEMMA FieldBounds ==
  ASSUME NEW q \in ParserRecord, NEW r \in ParserRecord, Bounds(q), q.pos + 3 <= V6Length,
         r.pos = q.pos + 2, r.compress = q.compress
  PROVE  Bounds(r) /\ r.compress < r.pos
<1>1. PICK m \in Int, c \in Int, V \in Int : m = q.pos /\ c = q.compress /\ V = V6Length
  BY LengthsAre DEF ParserRecord
<1>2. m >= -1 /\ m + 3 <= V /\ -1 <= c /\ c <= m + 1 /\ r.pos = m + 2 /\ r.compress = c
  BY <1>1, Zenon DEF Bounds
<1>3. m + 2 >= -1 /\ (m + 2) + 1 <= V /\ c <= (m + 2) + 1 /\ c < m + 2
  BY <1>2
<1> QED
  BY <1>1, <1>2, <1>3, Zenon DEF Bounds

LEMMA FieldPlace ==
  ASSUME NEW q \in ParserRecord, NEW r \in ParserRecord, NEW n \in Nat,
         NEW tok \in FieldTokens,
         n + 1 = Len(q.text), q.text[n + 1] = tok, n > 0 => q.text[n] # "dot",
         q.in = n + 1, r.text = q.text, r.in = q.in,
         r.state = (IF tok = "hex" THEN "afterhex" ELSE "afterdec"), r.compress < r.pos
  PROVE  Place(r)
<1>1. PICK l \in Nat : l = Len(r.text) /\ l > 0 /\ l = n + 1 /\ l - 1 = n /\ (l > 1 => n > 0)
  BY DEF ParserRecord
<1>2. r.in = l /\ r.text[l] = tok /\ (l > 1 => r.text[l - 1] # "dot")
  BY <1>1, Zenon
<1>3. CASE tok = "hex"
  BY <1>1, <1>2, <1>3, Zenon DEF Place
<1>4. CASE tok # "hex"
  <2>1. tok \in Decimals
    BY <1>4, Zenon DEF FieldTokens
  <2> QED
    BY <1>1, <1>2, <1>4, <2>1, Zenon DEF Place
<1> QED
  BY <1>3, <1>4

LEMMA FieldKeeps ==
  ASSUME NEW q, NEW n, NEW tok \in Tokens, FieldReady(q, n, tok)
  PROVE  Sound(Field(q, tok))
<1>1. /\ q \in ParserRecord /\ q.top < V6Length /\ n \in Nat /\ q.in = n + 1 /\ Bounds(q)
      /\ q.len = 0 /\ StoredAt(q, n) /\ Marked(q) /\ n + 1 = Len(q.text)
      /\ q.text[n + 1] = tok /\ (n > 0 => q.text[n] # "dot")
  BY Zenon DEF FieldReady, Ready
<1>2. CASE tok = "end" /\ q.pos + 1 = q.compress
  <2>1. q.text[n + 1] \notin FieldTokens
    BY <1>1, <1>2 DEF FieldTokens, Decimals
  <2>2. Stored(q)
    BY <1>1, <2>1, NoBytes, Zenon DEF Stored
  <2>3. Sound(Finish(q))
    BY <1>1, <2>2, FinishSound, Zenon
  <2> QED
    BY <1>2, <2>3, Zenon DEF Field
<1>3. CASE ~(tok = "end" /\ q.pos + 1 = q.compress) /\ tok \notin FieldTokens
  <2>1. Field(q, tok) = Reject(q)
    BY <1>3, Zenon DEF Field, FieldTokens
  <2> QED
    BY <1>1, <2>1, RejectSound, Zenon
<1>4. CASE tok \in FieldTokens /\ q.pos + 3 > V6Length
  <2>1. (q.pos + 2) + 1 > V6Length /\ 2 \in Int
    BY <1>1, <1>4 DEF ParserRecord
  <2>2. Sound(Finish([q EXCEPT !.pos = @ + 2]))
    BY <1>1, <2>1, TooMany, Zenon
  <2>3. tok # "end"
    BY <1>4 DEF FieldTokens, Decimals
  <2> QED
    BY <1>4, <2>2, <2>3, Zenon DEF Field, FieldTokens
<1>5. CASE tok \in FieldTokens /\ ~(q.pos + 3 > V6Length)
  <2>1. q.pos + 3 <= V6Length
    BY <1>1, <1>5, LengthsAre DEF ParserRecord
  <2>2. PICK r : r = FieldStored(q, tok)
    OBVIOUS
  <2>15. FieldWritten(q, r, tok)
    BY <1>1, <2>1, <2>2, FieldStoredIs, Zenon
  <2>3. /\ r \in ParserRecord /\ r.top < V6Length
        /\ r.state = (IF tok = "hex" THEN "afterhex" ELSE "afterdec")
        /\ r.pos = q.pos + 2 /\ r.compress = q.compress /\ r.len = q.len
        /\ r.text = q.text /\ r.in = q.in
        /\ r.addr[q.pos + 1] = 2 * q.in /\ r.addr[q.pos + 2] = 2 * q.in + 1
        /\ \A j \in 0 .. V6Length - 1 :
             j # q.pos + 1 /\ j # q.pos + 2 => r.addr[j] = q.addr[j]
    BY <2>15, Zenon DEF FieldWritten
  <2>4. StoredAt(r, n + 1)
    BY <1>1, <1>5, <2>3, AddField, Zenon
  <2>5. Bounds(r) /\ r.compress < r.pos
    BY <1>1, <2>1, <2>3, FieldBounds, Zenon
  <2>6. Place(r)
    BY <1>1, <1>5, <2>3, <2>5, FieldPlace, Zenon
  <2>7. Marked(r)
    BY <1>1, <2>3, MarkedSame, Zenon
  <2>8. Stored(r)
    BY <1>1, <2>3, <2>4, Zenon DEF Stored
  <2>9. r.state \notin {"accepted", "rejected", "end"}
    BY <2>3
  <2>10. r.in <= Len(r.text)
    BY <1>1, <2>3
  <2>11. Running(r)
    BY <1>1, <2>3, <2>5, <2>6, <2>7, <2>8, <2>9, <2>10, Zenon DEF Running, Bounds
  <2>12. Sound(r)
    BY <2>3, <2>9, <2>11, Zenon DEF Sound
  <2>13. tok # "end"
    BY <1>5 DEF FieldTokens, Decimals
  <2>14. Field(q, tok) = FieldStored(q, tok)
    BY <1>5, <2>13, Zenon DEF Field, FieldStored, FieldTokens
  <2> QED
    BY <2>2, <2>12, <2>14, Zenon
<1> QED
  BY <1>2, <1>3, <1>4, <1>5, Zenon

-----------------------------------------------------------------------------
(* A turn of the loop begins by reading a token.                           *)

LEMMA RunningIs ==
  ASSUME NEW p, Sound(p), p.state \notin {"accepted", "rejected"}
  PROVE  /\ p \in ParserRecord /\ p.top < V6Length /\ Running(p) /\ Bounds(p)
         /\ Stored(p) /\ Marked(p) /\ Place(p) /\ p.in \in Nat /\ Len(p.text) \in Nat
         /\ p.state # "end" => p.len = 0
<1>1. p \in ParserRecord /\ p.top < V6Length /\ Running(p)
  BY Zenon DEF Sound
<1>2. p.in \in Nat /\ p.text \in Seq(Tokens)
  BY <1>1 DEF ParserRecord
<1>3. Len(p.text) \in Nat
  BY <1>2
<1> QED
  BY <1>1, <1>2, <1>3, Zenon DEF Running, Bounds

LEMMA ReadRecord ==
  ASSUME NEW p \in ParserRecord, p.top < V6Length, NEW tok \in Tokens
  PROVE  /\ ReadToken(p, tok) \in ParserRecord /\ ReadToken(p, tok).top < V6Length
         /\ SameBut(p, ReadToken(p, tok)) /\ ReadToken(p, tok).in = p.in + 1
BY ReadIs, Zenon DEF SameBut

LEMMA ReadReject ==
  ASSUME NEW p \in ParserRecord, p.top < V6Length, NEW tok \in Tokens
  PROVE  Sound(Reject(ReadToken(p, tok)))
BY ReadRecord, RejectSound, Zenon

SameBounds(p, q) == q.pos = p.pos /\ q.compress = p.compress
LEMMA BoundsSame ==
  ASSUME NEW p, NEW q, Bounds(p), SameBounds(p, q)
  PROVE  Bounds(q)
BY Zenon DEF Bounds, SameBounds

(* Where the token is not in the text yet.                                 *)
NewRead(p, q, tok) ==
  /\ Ready(q, p.in) /\ SameBut(p, q) /\ Len(q.text) = p.in + 1 /\ q.text[p.in + 1] = tok
  /\ p.in > 0 => q.text[p.in] = p.text[p.in]

LEMMA ReadAtEnd ==
  ASSUME NEW p, Sound(p), p.state \notin {"accepted", "rejected"}, p.in = Len(p.text),
         NEW tok \in Tokens, SecondDot(p, tok)
  PROVE  /\ NewRead(p, ReadToken(p, tok), tok)
         /\ NoColons(p, tok) => Marked(ReadToken(p, tok))
<1>1. PICK q : q = ReadToken(p, tok)
  OBVIOUS
<1>2. p \in ParserRecord /\ p.top < V6Length /\ Running(p) /\ Bounds(p) /\ p.in \in Nat
  BY RunningIs, Zenon
<1>3. q \in ParserRecord /\ q.top < V6Length /\ SameBut(p, q)
  BY <1>1, <1>2, ReadRecord, Zenon
<1>4. /\ Len(q.text) = p.in + 1 /\ q.in = p.in + 1 /\ q.text[p.in + 1] = tok
      /\ \A i \in 1 .. p.in : q.text[i] = p.text[i]
      /\ StoredAt(q, p.in)
      /\ NoColons(p, tok) => Marked(q)
  <2>1. OneMore(p, q, tok)
    BY <1>1, <1>2, ReadNew, Zenon
  <2> QED
    BY <2>1, Zenon DEF OneMore
<1>5. Bounds(q)
  BY <1>2, <1>3, BoundsSame, Zenon DEF SameBut, SameBounds
<1>6. ASSUME p.in > 0 PROVE p.in \in 1 .. p.in
  BY <1>2, <1>6
<1>7. NewRead(p, q, tok)
  BY <1>2, <1>3, <1>4, <1>5, <1>6, Zenon DEF NewRead, Ready
<1> QED
  BY <1>1, <1>4, <1>7, Zenon

(* Where it is: the field that turned out to be the first part of a dotted *)
(* quad, and its dot.                                                      *)
LEMMA MarkedLater ==
  ASSUME NEW p \in ParserRecord, NEW q \in ParserRecord, Marked(p), q.text = p.text,
         q.compress = p.compress, q.in = p.in + 1
  PROVE  Marked(q)
<1>1. CASE p.compress = -1
  BY <1>1, Zenon DEF Marked
<1>2. CASE p.compress # -1
  <2>1. PICK i \in Compression(p.text) : /\ Compression(p.text) = {i} /\ i < p.in
                                         /\ Len(BytesTo(p.text, i)) = p.compress
    BY <1>2, Zenon DEF Marked
  <2>2. i \in Int /\ p.in \in Int
    BY <2>1 DEF Compression, ParserRecord
  <2>3. i < q.in
    BY <2>1, <2>2
  <2> QED
    BY <1>2, <2>1, <2>3, Zenon DEF Marked
<1> QED
  BY <1>1, <1>2

LEMMA ReadAgain ==
  ASSUME NEW p, Sound(p), p.state \notin {"accepted", "rejected"}, p.in < Len(p.text),
         NEW tok \in Tokens
  PROVE  /\ Ready(ReadToken(p, tok), p.in) /\ Marked(ReadToken(p, tok))
         /\ SameBut(p, ReadToken(p, tok)) /\ ReadToken(p, tok).text = p.text
<1>1. PICK q : q = ReadToken(p, tok)
  OBVIOUS
<1>2. /\ p \in ParserRecord /\ p.top < V6Length /\ Bounds(p) /\ p.in \in Nat
      /\ Stored(p) /\ Marked(p)
  BY RunningIs, Zenon
<1>3. q \in ParserRecord /\ q.top < V6Length /\ SameBut(p, q) /\ q.in = p.in + 1
  BY <1>1, <1>2, ReadRecord, Zenon
<1>4. q.text = p.text
  BY <1>1, <1>2, ReadIs, Zenon
<1>5. Bounds(q)
  BY <1>2, <1>3, BoundsSame, Zenon DEF SameBut, SameBounds
<1>6. Marked(q)
  BY <1>2, <1>3, <1>4, MarkedLater, Zenon DEF SameBut
<1>7. StoredAt(q, p.in)
  BY <1>2, <1>3, <1>4, Zenon DEF Stored, StoredAt, SameBut
<1> QED
  BY <1>1, <1>2, <1>3, <1>4, <1>5, <1>6, <1>7, Zenon DEF Ready

(* The tokens the parser may be given.                                     *)
LEMMA NextToken ==
  ASSUME NEW p \in ParserRecord, NEW tok \in NextTokens(p)
  PROVE  /\ tok \in Tokens
         /\ p.in < Len(p.text) => tok = p.text[p.in + 1]
<1>1. CASE p.in < Len(p.text)
  <2>1. p.text \in Seq(Tokens) /\ p.in + 1 \in 1 .. Len(p.text)
    BY <1>1 DEF ParserRecord
  <2>2. tok = p.text[p.in + 1]
    BY <1>1, Zenon DEF NextTokens
  <2> QED
    BY <2>1, <2>2
<1>2. CASE ~(p.in < Len(p.text))
  BY <1>2, Zenon DEF NextTokens
<1> QED
  BY <1>1, <1>2

(* A new state and nothing else.                                           *)
LEMMA StateIs ==
  ASSUME NEW q \in ParserRecord, NEW s \in ParserStates
  PROVE  LET r == [q EXCEPT !.state = s]
         IN  /\ r \in ParserRecord /\ r.state = s /\ r.pos = q.pos /\ r.compress = q.compress
             /\ r.ipv4 = q.ipv4 /\ r.addr = q.addr /\ r.len = q.len /\ r.text = q.text
             /\ r.in = q.in /\ r.top = q.top
BY DEF ParserRecord

LEMMA RunningSound ==
  ASSUME NEW r \in ParserRecord, r.top < V6Length, r.in <= Len(r.text), Bounds(r), r.len = 0,
         Stored(r), Marked(r), Place(r), r.state \notin {"accepted", "rejected", "end"}
  PROVE  Sound(r)
<1>1. r.len = IF r.state = "end" /\ r.compress = -1 /\ r.pos + 1 = V4Length THEN V4Length ELSE 0
  OBVIOUS
<1>2. Running(r)
  BY <1>1, Zenon DEF Running, Bounds
<1> QED
  BY <1>2, Zenon DEF Sound

-----------------------------------------------------------------------------
(* The states of the parser, one by one.                                   *)

(* The second colon of "::".                                               *)
LEMMA CompressedKeeps ==
  ASSUME NEW p, Sound(p), p.state \in {"aftercolon", "compressed"}, p.in = Len(p.text), p.in > 0,
         p.text[p.in] = "colon", NEW tok \in Tokens
  PROVE  Sound(Compressed(ReadToken(p, tok), tok))
<1>1. PICK q : q = ReadToken(p, tok)
  OBVIOUS
<1>2. p.state \notin {"accepted", "rejected"} /\ p.state # "end"
  OBVIOUS
<1>3. /\ p \in ParserRecord /\ p.top < V6Length /\ Bounds(p) /\ Marked(p)
      /\ p.in \in Nat /\ p.len = 0
  BY <1>2, RunningIs, Zenon
<1>4. CASE tok # "colon" \/ q.compress # -1
  <2>1. Compressed(q, tok) = Reject(q)
    BY <1>4, Zenon DEF Compressed
  <2> QED
    BY <1>1, <1>3, <2>1, ReadReject, Zenon
<1>5. CASE tok = "colon" /\ q.compress = -1
  <2>1. NewRead(p, q, tok)
    <3>1. SecondDot(p, tok)
      BY <1>5 DEF SecondDot
    <3> QED
      BY <1>1, <1>2, <3>1, ReadAtEnd, Zenon
  <2>2. PICK n \in Nat : n = p.in /\ n > 0
    BY <1>3
  <2>3. /\ q \in ParserRecord /\ q.top < V6Length /\ q.in = n + 1 /\ Bounds(q) /\ StoredAt(q, n)
        /\ SameBut(p, q) /\ Len(q.text) = n + 1 /\ q.text[n + 1] = "colon"
    BY <1>5, <2>1, <2>2, Zenon DEF NewRead, Ready
  <2>4. Compression(q.text) = {n}
    <3>1. p.text \in Seq(Tokens) /\ ~(p.in < Len(p.text))
      BY <1>3 DEF ParserRecord
    <3>2. q.text = Append(p.text, tok)
      BY <1>1, <1>3, <3>1, ReadIs, Zenon
    <3>3. Compression(q.text) = Compression(p.text) \cup
            {i \in {Len(p.text)} : i > 0 /\ p.text[i] = "colon" /\ tok = "colon"}
      BY <3>1, <3>2, CompressionAppend, Zenon
    <3>4. p.compress = -1
      BY <1>5, <2>3, Zenon DEF SameBut
    <3>5. Compression(p.text) = {}
      BY <1>3, <3>4, Zenon DEF Marked
    <3> QED
      BY <1>5, <2>2, <3>3, <3>5
  <2>5. PICK r : r = [q EXCEPT !.compress = q.pos + 1, !.state = "field"]
    OBVIOUS
  <2>6. /\ r \in ParserRecord /\ r.top = q.top /\ r.state = "field" /\ r.pos = q.pos
        /\ r.compress = q.pos + 1 /\ r.len = q.len /\ r.text = q.text /\ r.in = q.in
        /\ r.addr = q.addr
    <3>1. q.pos + 1 \in Int
      BY <2>3 DEF ParserRecord
    <3> QED
      BY <2>3, <2>5, <3>1 DEF ParserRecord, ParserStates
  <2>7. Bounds(r) /\ r.compress # -1
    <3>1. q.pos + 1 \in Nat /\ q.pos + 1 <= V6Length
      BY <2>3, PosIs, Zenon
    <3>2. q.pos + 1 >= -1 /\ q.pos + 1 # -1 /\ q.pos + 1 <= q.pos + 1
      BY <3>1
    <3> QED
      BY <2>3, <2>6, <3>1, <3>2 DEF Bounds
  <2>8. StoredAt(q, n + 1)
    <3>1. q.text[n + 1] \notin FieldTokens
      BY <2>3 DEF FieldTokens, Decimals
    <3> QED
      BY <2>2, <2>3, <3>1, NoBytes, Zenon
  <2>9. Stored(r)
    BY <2>3, <2>6, <2>8, Zenon DEF Stored, StoredAt
  <2>10. Marked(r)
    <3>1. Len(BytesTo(q.text, n)) = q.pos + 1
      BY <2>3, Zenon DEF StoredAt
    <3>2. n < n + 1
      BY <2>2
    <3>3. n \in Compression(r.text) /\ Compression(r.text) = {n}
      BY <2>4, <2>6
    <3> QED
      BY <2>3, <2>6, <2>7, <3>1, <3>2, <3>3, Zenon DEF Marked
  <2>11. Place(r)
    <3>1. PICK l \in Nat : l = n + 1 /\ l > 0
      BY <2>2
    <3>2. l = Len(r.text) /\ r.in = l /\ r.text[l] = "colon"
      BY <2>3, <2>6, <3>1, Zenon
    <3> QED
      BY <2>6, <2>7, <3>1, <3>2, Zenon DEF Place
  <2>12. r.len = 0 /\ r.in <= Len(r.text) /\ r.top < V6Length
    <3>1. r.len = 0 /\ r.top < V6Length
      BY <1>3, <2>3, <2>6, Zenon DEF SameBut
    <3>2. n + 1 <= n + 1
      BY <2>2
    <3> QED
      BY <2>3, <2>6, <3>1, <3>2, Zenon
  <2>13. r.state \notin {"accepted", "rejected", "end"}
    BY <2>6
  <2>14. Sound(r)
    BY <2>6, <2>7, <2>9, <2>10, <2>11, <2>12, <2>13, RunningSound, Zenon
  <2>15. Compressed(q, tok) = r
    BY <1>5, <2>5, Zenon DEF Compressed
  <2> QED
    BY <1>1, <2>14, <2>15, Zenon
<1> QED
  BY <1>1, <1>4, <1>5, Zenon

(* A field, or the end after "::".                                         *)
LEMMA FieldSound ==
  ASSUME NEW p, Sound(p), p.state \in {"start", "aftercolon", "field"}, p.in = Len(p.text),
         p.in > 0 => p.text[p.in] # "dot", NEW tok \in Tokens
  PROVE  Sound(Field(ReadToken(p, tok), tok))
<1>1. PICK q : q = ReadToken(p, tok)
  OBVIOUS
<1>2. p.state \notin {"accepted", "rejected"} /\ p.state # "end"
  OBVIOUS
<1>3. p \in ParserRecord /\ p.top < V6Length /\ p.in \in Nat /\ p.len = 0
  BY <1>2, RunningIs, Zenon
<1>4. CASE tok \notin FieldTokens /\ tok # "end"
  <2>1. Field(q, tok) = Reject(q)
    BY <1>4, Zenon DEF Field, FieldTokens
  <2> QED
    BY <1>1, <1>3, <2>1, ReadReject, Zenon
<1>5. CASE tok \in FieldTokens \/ tok = "end"
  <2>1. tok # "dot" /\ tok # "colon"
    BY <1>5 DEF FieldTokens, Decimals
  <2>2. SecondDot(p, tok) /\ NoColons(p, tok)
    BY <2>1, Zenon DEF SecondDot, NoColons
  <2>3. NewRead(p, q, tok) /\ Marked(q)
    BY <1>1, <1>2, <2>2, ReadAtEnd, Zenon
  <2>4. FieldReady(q, p.in, tok)
    BY <1>3, <2>3, Zenon DEF NewRead, FieldReady, SameBut
  <2> QED
    BY <1>1, <2>4, FieldKeeps, Zenon
<1> QED
  BY <1>4, <1>5

(* The end or a colon after a field.                                       *)
LEMMA AfterHexSound ==
  ASSUME NEW p, Sound(p), p.state \in {"afterhex", "afterdec"}, p.in = Len(p.text), p.in > 0,
         p.text[p.in] # "colon", NEW tok \in Tokens
  PROVE  Sound(AfterHex(ReadToken(p, tok), tok))
<1>1. PICK q : q = ReadToken(p, tok)
  OBVIOUS
<1>2. p.state \notin {"accepted", "rejected"} /\ p.state # "end"
  OBVIOUS
<1>3. p \in ParserRecord /\ p.top < V6Length /\ p.in \in Nat /\ p.len = 0
  BY <1>2, RunningIs, Zenon
<1>4. CASE tok # "end" /\ tok # "colon"
  <2>1. AfterHex(q, tok) = Reject(q)
    BY <1>4 DEF AfterHex
  <2> QED
    BY <1>1, <1>3, <2>1, ReadReject, Zenon
<1>5. CASE tok = "end" \/ tok = "colon"
  <2>1. SecondDot(p, tok) /\ NoColons(p, tok) /\ tok \notin FieldTokens
    BY <1>5 DEF SecondDot, NoColons, FieldTokens, Decimals
  <2>2. NewRead(p, q, tok) /\ Marked(q)
    BY <1>1, <1>2, <2>1, ReadAtEnd, Zenon
  <2>3. PICK n \in Nat : n = p.in
    BY <1>3
  <2>4. /\ q \in ParserRecord /\ q.top < V6Length /\ q.in = n + 1 /\ Bounds(q) /\ StoredAt(q, n)
        /\ SameBut(p, q) /\ Len(q.text) = n + 1 /\ q.text[n + 1] = tok /\ q.len = 0
    BY <1>3, <2>2, <2>3, Zenon DEF NewRead, Ready, SameBut
  <2>5. StoredAt(q, n + 1)
    BY <2>1, <2>3, <2>4, NoBytes, Zenon
  <2>6. Stored(q) /\ q.in = Len(q.text)
    BY <2>4, <2>5, Zenon DEF Stored
  <2>7. CASE tok = "end"
    <3>1. Sound(Finish(q))
      BY <2>2, <2>4, <2>6, FinishSound, Zenon
    <3>2. AfterHex(q, tok) = Finish(q)
      BY <2>7 DEF AfterHex
    <3> QED
      BY <1>1, <3>1, <3>2, Zenon
  <2>8. CASE tok = "colon"
    <3>1. PICK r : r = [q EXCEPT !.state = "aftercolon"]
      OBVIOUS
    <3>2. /\ r \in ParserRecord /\ r.state = "aftercolon" /\ r.pos = q.pos
          /\ r.compress = q.compress /\ r.addr = q.addr /\ r.len = q.len /\ r.text = q.text
          /\ r.in = q.in /\ r.top = q.top
      <4>1. PICK s \in ParserStates : s = "aftercolon"
        BY DEF ParserStates
      <4> QED
        BY <2>4, <3>1, <4>1, StateIs
    <3>3. Stored(r) /\ Marked(r) /\ Bounds(r)
      BY <2>2, <2>4, <2>6, <3>2, MarkedSame, BoundsSame, ZenonT(60) DEF Stored, StoredAt, SameBounds
    <3>4. Place(r)
      <4>1. PICK l \in Nat : l = n + 1 /\ l > 0
        BY <2>3
      <4>2. l = Len(r.text) /\ r.in = l /\ r.text[l] = "colon"
        BY <2>4, <2>8, <3>2, <4>1, Zenon
      <4> QED
        BY <3>2, <4>1, <4>2, Zenon DEF Place
    <3>5. r.in <= Len(r.text)
      <4>1. n + 1 <= n + 1
        BY <2>3
      <4> QED
        BY <2>4, <3>2, <4>1, Zenon
    <3>6. r.state \notin {"accepted", "rejected", "end"}
      BY <3>2
    <3>7. Sound(r)
      BY <2>4, <3>2, <3>3, <3>4, <3>5, <3>6, RunningSound, Zenon
    <3>8. AfterHex(q, tok) = r
      BY <2>8, <3>1 DEF AfterHex
    <3> QED
      BY <1>1, <3>7, <3>8, Zenon
  <2> QED
    BY <1>5, <2>7, <2>8
<1> QED
  BY <1>4, <1>5

(* A separator that only moves the parser on.                              *)
LEMMA PassedSound ==
  ASSUME NEW q, NEW n, Ready(q, n), Marked(q), q.len = 0, n + 1 <= Len(q.text),
         q.text[n + 1] \notin FieldTokens,
         NEW s \in ParserStates, s \notin {"accepted", "rejected", "end"},
         Place([q EXCEPT !.state = s])
  PROVE  Sound([q EXCEPT !.state = s])
<1>1. PICK r : r = [q EXCEPT !.state = s]
  OBVIOUS
<1>2. /\ q \in ParserRecord /\ q.top < V6Length /\ n \in Nat /\ q.in = n + 1 /\ Bounds(q)
      /\ StoredAt(q, n)
  BY Zenon DEF Ready
<1>3. /\ r \in ParserRecord /\ r.state = s /\ r.pos = q.pos /\ r.compress = q.compress
      /\ r.addr = q.addr /\ r.len = q.len /\ r.text = q.text /\ r.in = q.in /\ r.top = q.top
  BY <1>1, <1>2, StateIs
<1>4. StoredAt(q, n + 1)
  BY <1>2, NoBytes, Zenon
<1>5. Stored(r) /\ Marked(r) /\ Bounds(r)
  <2>4. r.pos = q.pos /\ r.addr = q.addr /\ r.text = q.text /\ r.in = n + 1
    BY <1>2, <1>3, Zenon
  <2>5. StoredAt(r, n + 1)
    BY <1>4, <2>4, Zenon DEF StoredAt
  <2>1. Stored(r)
    BY <2>4, <2>5, Zenon DEF Stored
  <2>2. Marked(r)
    BY <1>3, MarkedSame, Zenon
  <2>3. Bounds(r)
    BY <1>2, <1>3, BoundsSame, Zenon DEF SameBounds
  <2> QED
    BY <2>1, <2>2, <2>3
<1>6. Sound(r)
  BY <1>1, <1>2, <1>3, <1>5, RunningSound, Zenon
<1> QED
  BY <1>1, <1>6, Zenon

LEMMA StartSound ==
  ASSUME NEW p, Sound(p), p.state = "start", NEW tok \in Tokens
  PROVE  Sound(Start(ReadToken(p, tok), tok))
<1>1. PICK q : q = ReadToken(p, tok)
  OBVIOUS
<1>2. p.state \notin {"accepted", "rejected"} /\ p.state # "end"
  OBVIOUS
<1>3. /\ p \in ParserRecord /\ p.top < V6Length /\ p.in \in Nat /\ p.len = 0
      /\ Place(p)
  BY <1>2, RunningIs, Zenon
<1>4. Len(p.text) = 0 /\ p.in = 0 /\ p.pos = -1
  BY <1>3 DEF Place
<1>5. CASE tok \notin FieldTokens /\ tok # "colon"
  <2>1. Start(q, tok) = Reject(q)
    BY <1>5, Zenon DEF Start, FieldTokens
  <2> QED
    BY <1>1, <1>3, <2>1, ReadReject, Zenon
<1>6. CASE tok \in FieldTokens
  <2>1. tok # "colon"
    BY <1>6 DEF FieldTokens, Decimals
  <2>2. Start(q, tok) = Field(q, tok)
    BY <1>6, <2>1, Zenon DEF Start, FieldTokens
  <2>3. p.state \in {"start", "aftercolon", "field"} /\ p.in = Len(p.text) /\ ~(p.in > 0)
    BY <1>4
  <2>4. Sound(Field(ReadToken(p, tok), tok))
    BY <2>3, FieldSound, Zenon
  <2> QED
    BY <1>1, <2>2, <2>4, Zenon
<1>7. CASE tok = "colon"
  <2>1. SecondDot(p, tok) /\ NoColons(p, tok) /\ tok \notin FieldTokens
    BY <1>4, <1>7 DEF SecondDot, NoColons, FieldTokens, Decimals
  <2>2. p.in = Len(p.text)
    BY <1>4
  <2>3. NewRead(p, q, tok) /\ Marked(q)
    BY <1>1, <1>2, <2>1, <2>2, ReadAtEnd, Zenon
  <2>4. PICK n \in Nat : n = p.in /\ n + 1 = 1
    BY <1>4
  <2>5. /\ Ready(q, n) /\ q \in ParserRecord /\ Len(q.text) = n + 1 /\ q.text[n + 1] = tok
        /\ q.len = 0 /\ q.in = n + 1 /\ q.pos = -1
    BY <1>3, <1>4, <2>3, <2>4, Zenon DEF NewRead, Ready, SameBut
  <2>6. PICK s \in ParserStates : s = "compressed"
    BY DEF ParserStates
  <2>7. PICK r : r = [q EXCEPT !.state = s]
    OBVIOUS
  <2>8. r.state = s /\ r.text = q.text /\ r.in = q.in /\ r.pos = q.pos
    BY <2>5, <2>7, StateIs
  <2>9. Len(r.text) = 1 /\ r.in = 1 /\ r.text[1] = "colon" /\ r.pos = -1
    BY <1>7, <2>4, <2>5, <2>8, Zenon
  <2>10. Place(r)
    BY <2>6, <2>8, <2>9, Zenon DEF Place
  <2>11. n + 1 <= Len(q.text) /\ s \notin {"accepted", "rejected", "end"}
    BY <2>4, <2>5, <2>6
  <2>12. Sound([q EXCEPT !.state = s])
    BY <2>1, <2>3, <2>5, <2>6, <2>7, <2>10, <2>11, PassedSound, Zenon
  <2>13. Start(q, tok) = r
    BY <1>7, <2>6, <2>7, Zenon DEF Start
  <2> QED
    BY <1>1, <2>7, <2>12, <2>13, Zenon
<1> QED
  BY <1>5, <1>6, <1>7

LEMMA AfterColonSound ==
  ASSUME NEW p, Sound(p), p.state = "aftercolon", NEW tok \in Tokens
  PROVE  Sound(AfterColon(ReadToken(p, tok), tok))
<1>1. p.state \notin {"accepted", "rejected"}
  OBVIOUS
<1>2. Place(p)
  BY <1>1, RunningIs, Zenon
<1>3. Len(p.text) > 0 /\ p.in = Len(p.text) /\ p.text[Len(p.text)] = "colon"
  BY <1>2 DEF Place
<1>4. p.in > 0 /\ p.text[p.in] = "colon" /\ p.text[p.in] # "dot"
  BY <1>3
<1>5. p.state \in {"aftercolon", "compressed"} /\ p.state \in {"start", "aftercolon", "field"}
  OBVIOUS
<1>6. Sound(Compressed(ReadToken(p, tok), tok))
  BY <1>3, <1>4, <1>5, CompressedKeeps, Zenon
<1>7. Sound(Field(ReadToken(p, tok), tok))
  BY <1>3, <1>4, <1>5, FieldSound, Zenon
<1> QED
  BY <1>6, <1>7, Zenon DEF AfterColon

LEMMA CompressedSound ==
  ASSUME NEW p, Sound(p), p.state = "compressed", NEW tok \in Tokens
  PROVE  Sound(Compressed(ReadToken(p, tok), tok))
<1>1. p.state \notin {"accepted", "rejected"}
  OBVIOUS
<1>2. Place(p)
  BY <1>1, RunningIs, Zenon
<1>3. Len(p.text) = 1 /\ p.in = 1 /\ p.text[1] = "colon"
  BY <1>2 DEF Place
<1>4. p.in > 0 /\ p.text[p.in] = "colon" /\ p.in = Len(p.text)
  BY <1>3
<1>5. p.state \in {"aftercolon", "compressed"}
  OBVIOUS
<1> QED
  BY <1>4, <1>5, CompressedKeeps, Zenon

LEMMA FieldStateSound ==
  ASSUME NEW p, Sound(p), p.state = "field", NEW tok \in Tokens
  PROVE  Sound(Field(ReadToken(p, tok), tok))
<1>1. p.state \notin {"accepted", "rejected"}
  OBVIOUS
<1>2. Place(p)
  BY <1>1, RunningIs, Zenon
<1>3. p.in = Len(p.text) /\ p.text[Len(p.text)] = "colon"
  BY <1>2 DEF Place
<1>4. p.text[p.in] # "dot"
  BY <1>3
<1>5. p.state \in {"start", "aftercolon", "field"}
  OBVIOUS
<1> QED
  BY <1>3, <1>4, <1>5, FieldSound, Zenon

LEMMA AfterHexStateSound ==
  ASSUME NEW p, Sound(p), p.state = "afterhex", NEW tok \in Tokens
  PROVE  Sound(AfterHex(ReadToken(p, tok), tok))
<1>1. p.state \notin {"accepted", "rejected"}
  OBVIOUS
<1>2. Place(p)
  BY <1>1, RunningIs, Zenon
<1>3. Len(p.text) > 0 /\ p.in = Len(p.text) /\ p.text[Len(p.text)] = "hex"
  BY <1>2 DEF Place
<1>4. p.in > 0 /\ p.text[p.in] # "colon" /\ p.state \in {"afterhex", "afterdec"}
  BY <1>3
<1> QED
  BY <1>3, <1>4, AfterHexSound, Zenon

-----------------------------------------------------------------------------
(* AFTERDEC with a dot: the field is taken back.                           *)

Shorter(s, a, m) == m >= 1 /\ Len(s) = m - 1 /\ \A k \in 1 .. m - 1 : s[k] = a[k - 1]

LEMMA WithoutLast ==
  ASSUME NEW s \in Seq(Int), NEW t \in Seq(Int), Len(t) = 2, NEW a, NEW m \in Int,
         Len(s \o t) = m + 1, \A k \in 1 .. m + 1 : (s \o t)[k] = a[k - 1]
  PROVE  Shorter(s, a, m)
<1>1. PICK c \in Nat : c = Len(s)
  OBVIOUS
<1>2. /\ Len(s \o t) = c + 2
      /\ \A i \in 1 .. c + 2 : (s \o t)[i] = IF i <= c THEN s[i] ELSE t[i - c]
  <2>1. /\ Len(s \o t) = Len(s) + Len(t)
        /\ \A i \in 1 .. Len(s) + Len(t) : (s \o t)[i] = IF i <= Len(s) THEN s[i] ELSE t[i - Len(s)]
    BY ConcatProperties, Zenon
  <2> QED
    BY <1>1, <2>1, Zenon
<1>3. c = m - 1 /\ m >= 1 /\ m + 1 = c + 2
  BY <1>2
<1>4. ASSUME NEW k \in 1 .. m - 1 PROVE s[k] = a[k - 1]
  <2>1. k \in 1 .. m + 1 /\ k \in 1 .. c + 2 /\ k <= c
    BY <1>3
  <2>2. (s \o t)[k] = a[k - 1] /\ (s \o t)[k] = s[k]
    BY <1>2, <2>1, Zenon
  <2> QED
    BY <2>2
<1> QED
  BY <1>1, <1>3, <1>4 DEF Shorter

FieldTaken(p, m) ==
  /\ p.pos >= 1 /\ Len(BytesTo(p.text, m)) = p.pos - 1
  /\ \A k \in 1 .. p.pos - 1 : BytesTo(p.text, m)[k] = p.addr[k - 1]

LEMMA LastField ==
  ASSUME NEW p \in ParserRecord, NEW m \in Nat, StoredAt(p, m + 1), m + 1 = Len(p.text),
         p.text[m + 1] \in FieldTokens, m > 0 => p.text[m] # "dot"
  PROVE  FieldTaken(p, m)
<1>1. PICK i \in Nat : i = m + 1
  OBVIOUS
<1>2. PICK t \in Seq(Int) : t = <<2 * i, 2 * i + 1>> /\ Len(t) = 2
  BY TwoBytes, Zenon
<1>3. t = TokenBytes(p.text, m + 1)
  <2>1. i - 1 = m /\ ~(i < Len(p.text)) /\ (i > 1 => m > 0)
    BY <1>1
  <2>2. ~(i > 1 /\ p.text[i - 1] = "dot")
    BY <2>1, Zenon
  <2>3. ~(p.text[i] \notin {"hex"} \cup Decimals)
    BY <1>1, Zenon DEF FieldTokens
  <2>4. TokenBytes(p.text, i) = <<2 * i, 2 * i + 1>>
    BY <2>1, <2>2, <2>3, Zenon DEF TokenBytes
  <2> QED
    BY <1>1, <1>2, <2>4, Zenon
<1>4. PICK s \in Seq(Int) : s = BytesTo(p.text, m)
  BY BytesSeq
<1>5. BytesTo(p.text, m + 1) = s \o t
  BY <1>3, <1>4, BytesNext, Zenon
<1>6. PICK pos, a : pos \in Int /\ pos = p.pos /\ a = p.addr
  BY DEF ParserRecord
<1>7. Len(s \o t) = pos + 1 /\ \A k \in 1 .. pos + 1 : (s \o t)[k] = a[k - 1]
  BY <1>5, <1>6, Zenon DEF StoredAt
<1>8. Shorter(s, a, pos)
  <2>1. pos \in Int /\ Len(t) = 2
    BY <1>2, <1>6
  <2> QED
    BY <1>7, <2>1, WithoutLast, Zenon
<1> QED
  BY <1>4, <1>6, <1>8, Zenon DEF FieldTaken, Shorter

FieldUnread(q) ==
  [Write(Write(q, q.pos, 0), q.pos - 1, 0)
     EXCEPT !.pos = @ - 2, !.in = @ - 2, !.state = "ipv4byte", !.ipv4 = 0]

Unread(q, r) ==
  /\ r \in ParserRecord /\ r.top < V6Length /\ r.state = "ipv4byte" /\ r.pos = q.pos - 2
  /\ r.in = q.in - 2 /\ r.compress = q.compress /\ r.len = q.len /\ r.text = q.text
  /\ r.ipv4 = 0
  /\ \A j \in 0 .. V6Length - 1 : j # q.pos /\ j # q.pos - 1 => r.addr[j] = q.addr[j]

LEMMA UnreadIndices ==
  ASSUME NEW q \in ParserRecord, Bounds(q), q.pos >= 1
  PROVE  q.pos \in 0 .. V6Length - 1 /\ q.pos - 1 \in 0 .. V6Length - 1
<1>1. PICK n \in Int : n = q.pos
  BY DEF ParserRecord
<1>2. n + 1 <= V6Length /\ n >= 1 /\ V6Length \in Nat
  BY <1>1, LengthsAre DEF Bounds
<1> QED
  BY ONLY <1>1, <1>2

LEMMA PartsAre ==
  ASSUME NEW w \in ParserRecord, NEW z \in Int
  PROVE  [w EXCEPT !.ipv4 = z] \in ParserRecord
BY DEF ParserRecord

LEMMA RewoundIs ==
  ASSUME NEW v \in ParserRecord, v.in >= 2
  PROVE  LET r == [v EXCEPT !.pos = @ - 2, !.in = @ - 2, !.state = "ipv4byte", !.ipv4 = 0]
         IN  /\ r \in ParserRecord /\ r.top = v.top /\ r.state = "ipv4byte"
             /\ r.pos = v.pos - 2 /\ r.in = v.in - 2 /\ r.compress = v.compress
             /\ r.len = v.len /\ r.text = v.text /\ r.addr = v.addr /\ r.ipv4 = 0
<1>1. PICK r : r = [v EXCEPT !.pos = @ - 2, !.in = @ - 2, !.state = "ipv4byte", !.ipv4 = 0]
  OBVIOUS
<1>2. v.pos - 2 \in Int /\ v.in - 2 \in Nat
  BY DEF ParserRecord
<1>3. r = [v EXCEPT !.pos = v.pos - 2, !.in = v.in - 2, !.state = "ipv4byte", !.ipv4 = 0]
  BY <1>1, Zenon
<1>4. r \in ParserRecord
  <2>1. PICK m \in Int, n \in Nat : m = v.pos - 2 /\ n = v.in - 2
    BY <1>2
  <2>2. PICK s \in ParserStates : s = "ipv4byte"
    BY DEF ParserStates
  <2>3. PICK w : w = [v EXCEPT !.pos = m, !.in = n]
    OBVIOUS
  <2>4. w \in ParserRecord
    BY <2>3 DEF ParserRecord
  <2>5. PICK x : x = [w EXCEPT !.ipv4 = 0]
    OBVIOUS
  <2>6. x \in ParserRecord
    <3>1. 0 \in Int
      OBVIOUS
    <3> QED
      BY <2>4, <2>5, <3>1, PartsAre, Zenon
  <2>7. r = [x EXCEPT !.state = s]
    BY <1>3, <2>1, <2>2, <2>3, <2>5
  <2> QED
    BY <2>6, <2>7, StateIs, Zenon
<1>5. /\ r.top = v.top /\ r.state = "ipv4byte"
      /\ r.pos = v.pos - 2 /\ r.in = v.in - 2 /\ r.compress = v.compress
      /\ r.len = v.len /\ r.text = v.text /\ r.addr = v.addr /\ r.ipv4 = 0
  BY <1>3 DEF ParserRecord
<1> QED
  BY <1>1, <1>4, <1>5, Zenon

LEMMA UnreadIs ==
  ASSUME NEW q \in ParserRecord, q.top < V6Length, Bounds(q), q.pos >= 1, q.in >= 2
  PROVE  Unread(q, FieldUnread(q))
<1>1. PICK i, j, z : /\ i = q.pos /\ j = q.pos - 1 /\ z = 0 /\ z \in Int
                     /\ i \in 0 .. V6Length - 1 /\ j \in 0 .. V6Length - 1
  <2>1. 0 \in Int
    OBVIOUS
  <2> QED
    BY <2>1, UnreadIndices, Zenon
<1>2. PICK w : w = Write(q, i, z)
  OBVIOUS
<1>3. Written(q, w, i, z)
  BY <1>1, <1>2, WriteIs, Zenon
<1>4. PICK v : v = Write(w, j, z)
  OBVIOUS
<1>5. Written(w, v, j, z)
  <2>1. w \in ParserRecord /\ w.top < V6Length
    BY <1>3, Zenon DEF Written
  <2> QED
    BY <1>1, <1>4, <2>1, WriteIs, Zenon
<1>6. PICK r : r = [v EXCEPT !.pos = @ - 2, !.in = @ - 2, !.state = "ipv4byte", !.ipv4 = 0]
  OBVIOUS
<1>7. r = FieldUnread(q)
  BY <1>1, <1>2, <1>4, <1>6, Zenon DEF FieldUnread
<1>8. /\ r \in ParserRecord /\ r.top = v.top /\ r.state = "ipv4byte"
      /\ r.pos = v.pos - 2 /\ r.in = v.in - 2 /\ r.compress = v.compress
      /\ r.len = v.len /\ r.text = v.text /\ r.addr = v.addr /\ r.ipv4 = 0
  <2>1. v \in ParserRecord /\ v.in = q.in
    BY <1>3, <1>5, Zenon DEF Written
  <2>2. v.in >= 2
    BY <2>1, Zenon
  <2> QED
    BY <1>6, <2>1, <2>2, RewoundIs, Zenon
<1>9. \A k \in 0 .. V6Length - 1 : k # i /\ k # j => r.addr[k] = q.addr[k]
  BY <1>3, <1>5, <1>8, Zenon DEF Written
<1> QED
  BY <1>1, <1>3, <1>5, <1>7, <1>8, <1>9, ZenonT(60) DEF Written, Unread

(* The field's bytes are gone, "::" stays where it was.                    *)
LEMMA UnreadStored ==
  ASSUME NEW p \in ParserRecord, NEW q \in ParserRecord, NEW r \in ParserRecord, NEW m \in Nat,
         Bounds(p), FieldTaken(p, m), BytesTo(q.text, m) = BytesTo(p.text, m),
         SameBut(p, q), Unread(q, r)
  PROVE  StoredAt(r, m)
<1>1. PICK c \in Int, V \in Int : c = p.pos /\ V = V6Length /\ c >= 1 /\ c + 1 <= V
  <2>1. p.pos \in Int /\ V6Length \in Int
    BY LengthsAre DEF ParserRecord
  <2> QED
    BY <2>1, Zenon DEF FieldTaken, Bounds
<1>2. q.pos = c /\ q.addr = p.addr
  BY <1>1, Zenon DEF SameBut
<1>3. r.pos = c - 2 /\ r.text = q.text
  BY <1>2, Zenon DEF Unread
<1>4. (c - 2) + 1 = c - 1
  BY <1>1
<1>5. Len(BytesTo(r.text, m)) = r.pos + 1
  BY <1>1, <1>3, <1>4, Zenon DEF FieldTaken
<1>6. ASSUME NEW k \in 1 .. c - 1 PROVE BytesTo(r.text, m)[k] = r.addr[k - 1]
  <2>1. k - 1 \in 0 .. V - 1 /\ k - 1 # c /\ k - 1 # c - 1
    BY <1>1
  <2>2. r.addr[k - 1] = q.addr[k - 1]
    BY <1>1, <1>2, <2>1, Zenon DEF Unread
  <2>3. BytesTo(p.text, m)[k] = p.addr[k - 1]
    BY <1>1, Zenon DEF FieldTaken
  <2> QED
    BY <1>2, <1>3, <2>2, <2>3, Zenon
<1> QED
  BY <1>3, <1>4, <1>5, <1>6, Zenon DEF StoredAt

LEMMA UnreadMarked ==
  ASSUME NEW t \in Seq(Tokens), NEW m \in Nat, Len(t) = m + 1, t[m + 1] # "colon",
         NEW p, p.text = t, Marked(p),
         NEW r, r.text = Append(t, "dot"), r.compress = p.compress, r.in = m
  PROVE  Marked(r)
<1>1. "dot" \in Tokens /\ "dot" # "colon"
  BY DEF Tokens
<1>2. Compression(r.text) = Compression(t)
  <2>1. Compression(r.text) = Compression(t) \cup
          {i \in {Len(t)} : i > 0 /\ t[i] = "colon" /\ "dot" = "colon"}
    BY <1>1, CompressionAppend, Zenon
  <2> QED
    BY <2>1
<1>3. CASE p.compress = -1
  BY <1>2, <1>3, Zenon DEF Marked
<1>4. CASE p.compress # -1
  <2>1. PICK i \in Compression(t) : Compression(t) = {i} /\ Len(BytesTo(t, i)) = p.compress
    BY <1>4, Zenon DEF Marked
  <2>2. i \in 1 .. Len(t) - 1 /\ t[i + 1] = "colon"
    BY <2>1, Zenon DEF Compression
  <2>3. i \in 1 .. m
    BY <2>2
  <2>4. i < m
    <3>1. CASE i = m
      BY <2>2, <3>1
    <3>2. CASE i # m
      BY <2>3, <3>2
    <3> QED
      BY <3>1, <3>2
  <2>5. i \in 0 .. Len(t) /\ i < Len(t)
    BY <2>2
  <2>6. BytesTo(Append(t, "dot"), i) = BytesTo(t, i)
    BY <1>1, <2>5, BytesAppend, Zenon
  <2> QED
    BY <1>2, <1>4, <2>1, <2>4, <2>6, Zenon DEF Marked
<1> QED
  BY <1>3, <1>4

LEMMA UnreadBounds ==
  ASSUME NEW p \in ParserRecord, NEW r \in ParserRecord, Bounds(p), p.pos >= 1,
         p.compress < p.pos, r.pos = p.pos - 2, r.compress = p.compress
  PROVE  Bounds(r)
<1>1. PICK c \in Int, d \in Int, V \in Int : c = p.pos /\ d = p.compress /\ V = V6Length
  BY LengthsAre DEF ParserRecord
<1>2. c >= 1 /\ c + 1 <= V /\ d < c /\ -1 <= d /\ r.pos = c - 2 /\ r.compress = d
  BY <1>1, Zenon DEF Bounds
<1>3. c - 2 >= -1 /\ (c - 2) + 1 <= V /\ d <= (c - 2) + 1
  BY <1>2
<1> QED
  BY <1>1, <1>2, <1>3, Zenon DEF Bounds

\* A token appended to a text is its last token, and the tokens before it stay.
LEMMA TokenAppended ==
  ASSUME NEW t \in Seq(Tokens), NEW tok \in Tokens
  PROVE  /\ Append(t, tok) \in Seq(Tokens) /\ Len(Append(t, tok)) = Len(t) + 1
         /\ \A i \in 1 .. Len(t) : Append(t, tok)[i] = t[i]
         /\ Append(t, tok)[Len(t) + 1] = tok
BY AppendProperties

LEMMA AfterDecSound ==
  ASSUME NEW p, Sound(p), p.state = "afterdec", NEW tok \in Tokens
  PROVE  Sound(AfterDec(ReadToken(p, tok), tok))
<1>1. PICK q : q = ReadToken(p, tok)
  OBVIOUS
<1>2. p.state \notin {"accepted", "rejected"} /\ p.state # "end"
  OBVIOUS
<1>3. /\ p \in ParserRecord /\ p.top < V6Length /\ p.in \in Nat /\ p.len = 0
      /\ Place(p) /\ Bounds(p) /\ Stored(p) /\ Marked(p) /\ Len(p.text) \in Nat
  BY <1>2, RunningIs, Zenon
<1>4. /\ Len(p.text) > 0 /\ p.in = Len(p.text) /\ p.text[Len(p.text)] \in Decimals
      /\ Len(p.text) > 1 => p.text[Len(p.text) - 1] # "dot"
      /\ p.compress < p.pos
  BY <1>2, <1>3 DEF Place
<1>5. CASE tok # "dot"
  <2>1. p.in > 0 /\ p.text[p.in] # "colon" /\ p.state \in {"afterhex", "afterdec"}
    BY <1>4 DEF Decimals
  <2>2. Sound(AfterHex(q, tok))
    BY <1>1, <1>4, <2>1, AfterHexSound, Zenon
  <2> QED
    BY <1>1, <1>5, <2>2, Zenon DEF AfterDec
<1>6. CASE tok = "dot"
  <2>1. PICK m \in Nat : m + 1 = Len(p.text) /\ Len(p.text) - 1 = m /\ (m > 0 => Len(p.text) > 1)
    <3>1. Len(p.text) - 1 \in Nat /\ (Len(p.text) - 1) + 1 = Len(p.text)
      BY <1>3, <1>4
    <3>2. Len(p.text) - 1 > 0 => Len(p.text) > 1
      BY <1>3
    <3> QED
      BY <3>1, <3>2, Zenon
  <2>2. p.text[m + 1] \in Decimals /\ (m > 0 => p.text[m] # "dot") /\ StoredAt(p, m + 1)
    BY <1>3, <1>4, <2>1, Zenon DEF Stored
  <2>3. p.text[m + 1] \in FieldTokens /\ p.text[m + 1] # "colon"
    BY <2>2 DEF FieldTokens, Decimals
  <2>4. FieldTaken(p, m)
    BY <1>3, <2>1, <2>2, <2>3, LastField, Zenon
  <2>5. q \in ParserRecord /\ q.top < V6Length /\ SameBut(p, q) /\ q.in = p.in + 1
    BY <1>1, <1>3, ReadRecord, Zenon
  <2>6. p.text \in Seq(Tokens) /\ ~(p.in < Len(p.text))
    BY <1>3, <1>4 DEF ParserRecord
  <2>7. q.text = Append(p.text, "dot")
    BY <1>1, <1>3, <1>6, <2>6, ReadIs, Zenon
  <2>8. PICK r : r = FieldUnread(q)
    OBVIOUS
  <2>9. Unread(q, r)
    <3>1. Bounds(q)
      BY <1>3, <2>5, BoundsSame, Zenon DEF SameBut, SameBounds
    <3>2. q.pos >= 1
      BY <2>4, <2>5, Zenon DEF FieldTaken, SameBut
    <3>3. q.in >= 2
      BY <1>3, <1>4, <2>5
    <3> QED
      BY <2>5, <2>8, <3>1, <3>2, <3>3, UnreadIs, Zenon
  <2>10. /\ r \in ParserRecord /\ r.top < V6Length /\ r.state = "ipv4byte"
         /\ r.pos = p.pos - 2 /\ r.compress = p.compress /\ r.len = 0
         /\ r.text = Append(p.text, "dot") /\ r.in = q.in - 2
    BY <1>3, <2>5, <2>7, <2>9, Zenon DEF Unread, SameBut
  <2>11. r.in = m
    <3>1. PICK l \in Nat : l = p.in /\ l = m + 1
      BY <1>4, <2>1, <1>3
    <3>2. r.in = (l + 1) - 2
      BY <2>5, <2>10, <3>1, Zenon
    <3>3. (l + 1) - 2 = m
      BY <2>1, <3>1
    <3> QED
      BY <3>2, <3>3, Zenon
  <2>12. StoredAt(r, m)
    <3>1. m \in 0 .. Len(p.text) /\ m < Len(p.text)
      BY <1>3, <2>1
    <3>2. "dot" \in Tokens
      BY DEF Tokens
    <3>3. BytesTo(q.text, m) = BytesTo(p.text, m)
      BY <2>6, <2>7, <3>1, <3>2, BytesAppend, Zenon
    <3> QED
      BY <1>3, <2>4, <2>5, <2>9, <2>10, <3>3, UnreadStored, Zenon
  <2>13. Marked(r)
    <3>1. Len(p.text) = m + 1
      BY <2>1, Zenon
    <3> QED
      BY <1>3, <2>3, <2>6, <2>10, <2>11, <3>1, UnreadMarked, Zenon
  <2>14. Bounds(r)
    BY <1>3, <1>4, <2>4, <2>10, UnreadBounds, Zenon DEF FieldTaken
  <2>15. /\ Len(r.text) = Len(p.text) + 1 /\ r.text[Len(p.text) + 1] = "dot"
         /\ r.text[Len(p.text)] = p.text[Len(p.text)]
    <3>1. "dot" \in Tokens
      BY DEF Tokens
    <3>2. PICK u : /\ u = Append(p.text, "dot") /\ Len(u) = Len(p.text) + 1
                   /\ \A i \in 1 .. Len(p.text) : u[i] = p.text[i]
                   /\ u[Len(p.text) + 1] = "dot"
      BY <2>6, <3>1, TokenAppended, ZenonT(60)
    <3>3. Len(p.text) \in 1 .. Len(p.text)
      BY <1>3, <1>4
    <3> QED
      BY <2>10, <3>2, <3>3, Zenon
  <2>16. Place(r)
    <3>1. PICK l \in Nat : l = Len(r.text) /\ l - 2 = m /\ l - 1 = Len(p.text) /\ l = Len(p.text) + 1
      BY <1>3, <2>1, <2>15
    <3>2. r.in = l - 2 /\ r.text[l - 1] \in Decimals /\ r.text[l] = "dot"
      BY <1>4, <2>11, <2>15, <3>1, Zenon
    <3> QED
      BY <2>10, <3>1, <3>2, Zenon DEF Place
  <2>17. r.in <= Len(r.text) /\ r.state \notin {"accepted", "rejected", "end"} /\ Stored(r)
    <3>1. m <= Len(p.text) + 1
      BY <1>3, <2>1
    <3>2. r.state \notin {"accepted", "rejected", "end"}
      BY <2>10
    <3> QED
      BY <2>11, <2>12, <2>15, <3>1, <3>2, Zenon DEF Stored
  <2>18. Sound(r)
    BY <2>10, <2>13, <2>14, <2>16, <2>17, RunningSound, Zenon
  <2>19. AfterDec(q, tok) = r
    BY <1>6, <2>8, Zenon DEF AfterDec, FieldUnread
  <2> QED
    BY <1>1, <2>18, <2>19, Zenon
<1> QED
  BY <1>5, <1>6

-----------------------------------------------------------------------------
(* IPV4BYTE, IPV4DOT and END: the parts of a dotted quad.                  *)

PartReady(q, n, tok) ==
  /\ Ready(q, n) /\ Marked(q) /\ q.len = 0 /\ n + 1 <= Len(q.text) /\ q.text[n + 1] = tok
  /\ \/ n + 2 = Len(q.text) /\ q.text[n + 2] = "dot"
     \/ n + 1 = Len(q.text) /\ n > 0 /\ q.text[n] = "dot"

PartWrite(q) == [Write(q, q.pos + 1, -q.in) EXCEPT !.pos = @ + 1, !.ipv4 = @ + 1]
PartStored(w) ==
  IF w.ipv4 < V4Length THEN [w EXCEPT !.state = "ipv4dot"]
  ELSE [w EXCEPT !.state = "end",
                 !.len = IF w.compress = -1 /\ w.pos + 1 = V4Length THEN V4Length ELSE 0]

PartWritten(q, w) ==
  /\ w \in ParserRecord /\ w.top < V6Length /\ w.pos = q.pos + 1 /\ w.compress = q.compress
  /\ w.len = q.len /\ w.text = q.text /\ w.in = q.in /\ w.addr[q.pos + 1] = -q.in
  /\ w.ipv4 = q.ipv4 + 1
  /\ \A j \in 0 .. V6Length - 1 : j # q.pos + 1 => w.addr[j] = q.addr[j]

LEMMA PartIndex ==
  ASSUME NEW q \in ParserRecord, Bounds(q), q.pos + 2 <= V6Length
  PROVE  q.pos + 1 \in 0 .. V6Length - 1 /\ -q.in \in Int
BY LengthsAre, SMTT(30) DEF Bounds, ParserRecord

LEMMA CountedIs ==
  ASSUME NEW v \in ParserRecord
  PROVE  LET w == [v EXCEPT !.pos = @ + 1, !.ipv4 = @ + 1]
         IN  /\ w \in ParserRecord /\ w.top = v.top /\ w.pos = v.pos + 1
             /\ w.compress = v.compress /\ w.len = v.len /\ w.text = v.text /\ w.in = v.in
             /\ w.addr = v.addr /\ w.ipv4 = v.ipv4 + 1
<1>1. PICK w : w = [v EXCEPT !.pos = @ + 1, !.ipv4 = @ + 1]
  OBVIOUS
<1>2. PICK m \in Int, n \in Int : m = v.pos + 1 /\ n = v.ipv4 + 1
  BY DEF ParserRecord
<1>3. w = [v EXCEPT !.pos = m, !.ipv4 = n]
  BY <1>1, <1>2, Zenon
<1>4. w \in ParserRecord
  BY <1>3 DEF ParserRecord
<1>5. /\ w.top = v.top /\ w.pos = m
      /\ w.compress = v.compress /\ w.len = v.len /\ w.text = v.text /\ w.in = v.in
      /\ w.addr = v.addr /\ w.ipv4 = n
  BY <1>3 DEF ParserRecord
<1> QED
  BY <1>1, <1>2, <1>4, <1>5, Zenon

LEMMA PartWriteIs ==
  ASSUME NEW q \in ParserRecord, q.top < V6Length, Bounds(q), q.pos + 2 <= V6Length
  PROVE  PartWritten(q, PartWrite(q))
<1>1. PICK i, b : i = q.pos + 1 /\ b = -q.in /\ i \in 0 .. V6Length - 1 /\ b \in Int
  BY PartIndex, Zenon
<1>2. PICK v : v = Write(q, i, b)
  OBVIOUS
<1>3. Written(q, v, i, b)
  BY <1>1, <1>2, WriteIs, Zenon
<1>4. PICK w : w = [v EXCEPT !.pos = @ + 1, !.ipv4 = @ + 1]
  OBVIOUS
<1>5. /\ w \in ParserRecord /\ w.top = v.top /\ w.pos = v.pos + 1
      /\ w.compress = v.compress /\ w.len = v.len /\ w.text = v.text /\ w.in = v.in
      /\ w.addr = v.addr /\ w.ipv4 = v.ipv4 + 1
  <2>1. v \in ParserRecord
    BY <1>3, Zenon DEF Written
  <2> QED
    BY <1>4, <2>1, CountedIs, Zenon
<1>6. w = PartWrite(q)
  BY <1>1, <1>2, <1>4, Zenon DEF PartWrite
<1> QED
  BY <1>1, <1>3, <1>5, <1>6, Zenon DEF Written, PartWritten

LEMMA PartBounds ==
  ASSUME NEW q \in ParserRecord, NEW r \in ParserRecord, Bounds(q), q.pos + 2 <= V6Length,
         r.pos = q.pos + 1, r.compress = q.compress
  PROVE  Bounds(r)
<1>1. PICK m \in Int, c \in Int, V \in Int : m = q.pos /\ c = q.compress /\ V = V6Length
  BY LengthsAre DEF ParserRecord
<1>2. m >= -1 /\ m + 2 <= V /\ -1 <= c /\ c <= m + 1 /\ r.pos = m + 1 /\ r.compress = c
  BY <1>1, Zenon DEF Bounds
<1>3. m + 1 >= -1 /\ (m + 1) + 1 <= V /\ c <= (m + 1) + 1
  BY <1>2
<1> QED
  BY <1>1, <1>2, <1>3, Zenon DEF Bounds

LEMMA PartPlace ==
  ASSUME NEW r \in ParserRecord, NEW n \in Nat, r.in = n + 1, r.text[n + 1] = "dec",
         \/ n + 2 = Len(r.text) /\ r.text[n + 2] = "dot"
         \/ n + 1 = Len(r.text) /\ n > 0 /\ r.text[n] = "dot"
  PROVE  AfterPart(r)
<1>1. PICK l \in Nat : l = Len(r.text)
  BY DEF ParserRecord
<1>2. CASE n + 2 = Len(r.text) /\ r.text[n + 2] = "dot"
  <2>1. n + 1 = l - 1 /\ n + 2 = l /\ n + 1 >= 1
    BY <1>1, <1>2
  <2>2. r.in = l - 1 /\ r.in >= 1 /\ r.text[l] = "dot" /\ r.text[l - 1] = "dec"
    BY <1>2, <2>1, Zenon
  <2> QED
    BY <1>1, <2>2, Zenon DEF AfterPart
<1>3. CASE n + 1 = Len(r.text) /\ n > 0 /\ r.text[n] = "dot"
  <2>1. n + 1 = l /\ n = l - 1 /\ l > 1
    BY <1>1, <1>3
  <2>2. r.in = l /\ r.text[l] = "dec" /\ r.text[l - 1] = "dot"
    BY <1>3, <2>1, Zenon
  <2> QED
    BY <1>1, <2>1, <2>2, Zenon DEF AfterPart
<1> QED
  BY <1>2, <1>3

LastPart(w, r, n) ==
  /\ r \in ParserRecord /\ r.state = "end" /\ r.pos = w.pos
  /\ r.compress = w.compress /\ r.addr = w.addr /\ r.len = n /\ r.text = w.text
  /\ r.in = w.in /\ r.top = w.top

LEMMA LastPartIs ==
  ASSUME NEW w \in ParserRecord, NEW n \in Int
  PROVE  LastPart(w, [w EXCEPT !.state = "end", !.len = n], n)
BY DEF ParserRecord, ParserStates, LastPart

LEMMA PartRunning ==
  ASSUME NEW w \in ParserRecord, NEW r, r = PartStored(w), w.top < V6Length,
         w.in <= Len(w.text), Bounds(w), w.len = 0, Stored(w), Marked(w), AfterPart(w)
  PROVE  Sound(r)
<1>1. CASE w.ipv4 < V4Length
  <2>1. r = [w EXCEPT !.state = "ipv4dot"]
    BY <1>1, Zenon DEF PartStored
  <2>2. /\ r \in ParserRecord /\ r.state = "ipv4dot" /\ r.pos = w.pos
        /\ r.compress = w.compress /\ r.addr = w.addr /\ r.len = w.len /\ r.text = w.text
        /\ r.in = w.in /\ r.top = w.top
    <3>1. PICK s \in ParserStates : s = "ipv4dot"
      BY DEF ParserStates
    <3> QED
      BY <2>1, <3>1, StateIs
  <2>3. Stored(r)
    BY <2>2, Zenon DEF Stored, StoredAt
  <2>4. Marked(r)
    BY <2>2, MarkedSame, Zenon
  <2>5. Bounds(r)
    BY <2>2, BoundsSame, Zenon DEF SameBounds
  <2>6. AfterPart(r)
    BY <2>2, Zenon DEF AfterPart
  <2>7. Place(r)
    <3>1. r.state \in {"ipv4dot", "end"}
      BY <2>2
    <3> QED
      BY <2>6, <3>1, Zenon DEF Place
  <2>8. r.state \notin {"accepted", "rejected", "end"}
    BY <2>2
  <2> QED
    BY <2>2, <2>3, <2>4, <2>5, <2>7, <2>8, RunningSound, Zenon
<1>2. CASE ~(w.ipv4 < V4Length)
  <2>0. PICK n \in Int : n = IF w.compress = -1 /\ w.pos + 1 = V4Length THEN V4Length ELSE 0
    BY LengthsAre
  <2>1. r = [w EXCEPT !.state = "end", !.len = n]
    BY <1>2, <2>0, Zenon DEF PartStored
  <2>2. /\ r \in ParserRecord /\ r.state = "end" /\ r.pos = w.pos
        /\ r.compress = w.compress /\ r.addr = w.addr /\ r.len = n /\ r.text = w.text
        /\ r.in = w.in /\ r.top = w.top
    <3>1. LastPart(w, r, n)
      BY <2>1, LastPartIs, Zenon
    <3> QED
      BY <3>1, Zenon DEF LastPart
  <2>3. Stored(r)
    BY <2>2, Zenon DEF Stored, StoredAt
  <2>4. Marked(r)
    BY <2>2, MarkedSame, Zenon
  <2>5. Bounds(r)
    BY <2>2, BoundsSame, Zenon DEF SameBounds
  <2>6. AfterPart(r)
    BY <2>2, Zenon DEF AfterPart
  <2>7. Place(r)
    <3>1. r.state \in {"ipv4dot", "end"}
      BY <2>2
    <3> QED
      BY <2>6, <3>1, Zenon DEF Place
  <2>8. r.len = IF r.state = "end" /\ r.compress = -1 /\ r.pos + 1 = V4Length THEN V4Length ELSE 0
    BY <2>0, <2>2, Zenon
  <2>9. Running(r)
    BY <2>2, <2>3, <2>4, <2>5, <2>7, <2>8, Zenon DEF Running, Bounds
  <2>10. r.state # "accepted" /\ r.state # "rejected"
    BY <2>2
  <2> QED
    BY <2>2, <2>9, <2>10, Zenon DEF Sound
<1> QED
  BY <1>1, <1>2

LEMMA PartKeeps ==
  ASSUME NEW q, NEW n, NEW tok \in Tokens, PartReady(q, n, tok)
  PROVE  Sound(Ipv4Byte(q, tok))
<1>1. /\ q \in ParserRecord /\ q.top < V6Length /\ n \in Nat /\ q.in = n + 1 /\ Bounds(q)
      /\ q.len = 0 /\ StoredAt(q, n) /\ Marked(q) /\ n + 1 <= Len(q.text)
      /\ q.text[n + 1] = tok
      /\ \/ n + 2 = Len(q.text) /\ q.text[n + 2] = "dot"
         \/ n + 1 = Len(q.text) /\ n > 0 /\ q.text[n] = "dot"
  BY Zenon DEF PartReady, Ready
<1>2. CASE tok # "dec"
  <2>1. Ipv4Byte(q, tok) = Reject(q)
    BY <1>2, Zenon DEF Ipv4Byte
  <2> QED
    BY <1>1, <2>1, RejectSound, Zenon
<1>3. CASE tok = "dec" /\ q.pos + 2 > V6Length
  <2>1. (q.pos + 1) + 1 > V6Length /\ 1 \in Int
    BY <1>1, <1>3 DEF ParserRecord
  <2>2. Sound(Finish([q EXCEPT !.pos = @ + 1]))
    BY <1>1, <2>1, TooMany, Zenon
  <2> QED
    BY <1>3, <2>2, Zenon DEF Ipv4Byte
<1>4. CASE tok = "dec" /\ ~(q.pos + 2 > V6Length)
  <2>1. q.pos + 2 <= V6Length
    BY <1>1, <1>4, LengthsAre DEF ParserRecord
  <2>2. PICK w : w = PartWrite(q)
    OBVIOUS
  <2>3. PartWritten(q, w)
    BY <1>1, <2>1, <2>2, PartWriteIs, Zenon
  <2>4. /\ w \in ParserRecord /\ w.top < V6Length /\ w.pos = q.pos + 1 /\ w.compress = q.compress
        /\ w.len = q.len /\ w.text = q.text /\ w.in = q.in /\ w.addr[q.pos + 1] = -(n + 1)
        /\ \A j \in 0 .. V6Length - 1 : j # q.pos + 1 => w.addr[j] = q.addr[j]
    BY <1>1, <2>3, Zenon DEF PartWritten
  <2>5. StoredAt(w, n + 1)
    <3>1. q.text[n + 1] \in FieldTokens
      BY <1>1, <1>4 DEF FieldTokens, Decimals
    <3>2. ASSUME n + 2 = Len(q.text) PROVE n + 1 < Len(q.text)
      <4>1. n + 1 < n + 2
        BY <1>1
      <4> QED
        BY <3>2, <4>1, Zenon
    <3>3. \/ n + 1 < Len(q.text) /\ q.text[n + 2] = "dot"
          \/ n > 0 /\ q.text[n] = "dot"
      BY <1>1, <3>2, Zenon
    <3> QED
      BY <1>1, <2>4, <3>1, <3>3, AddPart, Zenon
  <2>6. Stored(w)
    BY <1>1, <2>4, <2>5, Zenon DEF Stored
  <2>7. Marked(w)
    BY <1>1, <2>4, MarkedSame, Zenon
  <2>8. Bounds(w)
    BY <1>1, <2>1, <2>4, PartBounds, Zenon
  <2>9. AfterPart(w)
    <3>1. w.in = n + 1 /\ w.text[n + 1] = "dec"
      BY <1>1, <1>4, <2>4, Zenon
    <3>2. \/ n + 2 = Len(w.text) /\ w.text[n + 2] = "dot"
          \/ n + 1 = Len(w.text) /\ n > 0 /\ w.text[n] = "dot"
      BY <1>1, <2>4, Zenon
    <3> QED
      BY <1>1, <2>4, <3>1, <3>2, PartPlace, Zenon
  <2>10. w.in <= Len(w.text) /\ w.len = 0
    BY <1>1, <2>4, Zenon
  <2>11. Sound(PartStored(w))
    BY <2>4, <2>6, <2>7, <2>8, <2>9, <2>10, PartRunning, Zenon
  <2>12. Ipv4Byte(q, tok) = PartStored(w)
    BY <1>4, <2>2, Zenon DEF Ipv4Byte, PartStored, PartWrite
  <2> QED
    BY <2>11, <2>12, Zenon
<1> QED
  BY <1>2, <1>3, <1>4, Zenon

LEMMA Ipv4ByteSound ==
  ASSUME NEW p, Sound(p), p.state = "ipv4byte", NEW tok \in NextTokens(p)
  PROVE  Sound(Ipv4Byte(ReadToken(p, tok), tok))
<1>1. PICK q : q = ReadToken(p, tok)
  OBVIOUS
<1>2. p.state \notin {"accepted", "rejected"} /\ p.state # "end"
  OBVIOUS
<1>3. /\ p \in ParserRecord /\ p.top < V6Length /\ p.in \in Nat /\ p.len = 0
      /\ Place(p) /\ Len(p.text) \in Nat
  BY <1>2, RunningIs, Zenon
<1>4. tok \in Tokens /\ (p.in < Len(p.text) => tok = p.text[p.in + 1])
  BY <1>3, NextToken, Zenon
<1>5. \/ p.in = Len(p.text) - 2 /\ p.text[Len(p.text)] = "dot"
      \/ p.in = Len(p.text) /\ Len(p.text) > 0 /\ p.text[Len(p.text)] = "dot"
  BY <1>3 DEF Place
<1>6. CASE p.in = Len(p.text) - 2 /\ p.text[Len(p.text)] = "dot"
  <2>1. PICK n \in Nat : n = p.in /\ n + 2 = Len(p.text) /\ n + 1 <= Len(p.text) /\ n < Len(p.text)
    <3>1. PICK l \in Nat, n \in Nat : l = Len(p.text) /\ n = p.in /\ n = l - 2
      BY <1>3, <1>6, Zenon
    <3>2. n + 2 = l /\ n + 1 <= l /\ n < l
      BY <3>1
    <3> QED
      BY <3>1, <3>2, Zenon
  <2>2. Ready(q, n) /\ Marked(q) /\ SameBut(p, q) /\ q.text = p.text
    BY <1>1, <1>2, <1>4, <2>1, ReadAgain, Zenon
  <2>3. q.len = 0 /\ q.text[n + 1] = tok /\ q.text[n + 2] = "dot" /\ n + 2 = Len(q.text)
        /\ n + 1 <= Len(q.text)
    BY <1>3, <1>4, <1>6, <2>1, <2>2, Zenon DEF SameBut
  <2>4. PartReady(q, n, tok)
    BY <2>2, <2>3, Zenon DEF PartReady
  <2> QED
    BY <1>1, <1>4, <2>4, PartKeeps, Zenon
<1>7. CASE p.in = Len(p.text) /\ Len(p.text) > 0 /\ p.text[Len(p.text)] = "dot"
  <2>1. SecondDot(p, tok) /\ NoColons(p, tok)
    BY <1>7 DEF SecondDot, NoColons, FieldTokens, Decimals
  <2>2. NewRead(p, q, tok) /\ Marked(q)
    BY <1>1, <1>2, <1>4, <1>7, <2>1, ReadAtEnd, Zenon
  <2>3. PICK n \in Nat : n = p.in /\ n > 0 /\ n + 1 <= n + 1
    BY <1>3, <1>7
  <2>4. /\ Ready(q, n) /\ q.len = 0 /\ n + 1 = Len(q.text) /\ q.text[n + 1] = tok
        /\ q.text[n] = "dot" /\ n + 1 <= Len(q.text)
    BY <1>3, <1>7, <2>2, <2>3, Zenon DEF NewRead, SameBut
  <2>5. PartReady(q, n, tok)
    BY <2>2, <2>3, <2>4, Zenon DEF PartReady
  <2> QED
    BY <1>1, <1>4, <2>5, PartKeeps, Zenon
<1> QED
  BY <1>5, <1>6, <1>7

LEMMA Ipv4DotSound ==
  ASSUME NEW p, Sound(p), p.state = "ipv4dot", NEW tok \in NextTokens(p)
  PROVE  Sound(Ipv4Dot(ReadToken(p, tok), tok))
<1>1. PICK q : q = ReadToken(p, tok)
  OBVIOUS
<1>2. p.state \notin {"accepted", "rejected"} /\ p.state # "end"
  OBVIOUS
<1>3. /\ p \in ParserRecord /\ p.top < V6Length /\ p.in \in Nat /\ p.len = 0
      /\ Place(p) /\ Len(p.text) \in Nat
  BY <1>2, RunningIs, Zenon
<1>4. tok \in Tokens /\ (p.in < Len(p.text) => tok = p.text[p.in + 1])
  BY <1>3, NextToken, Zenon
<1>5. AfterPart(p)
  BY <1>3 DEF Place
<1>6. CASE tok # "dot"
  <2>1. Ipv4Dot(q, tok) = Reject(q)
    BY <1>6, Zenon DEF Ipv4Dot
  <2> QED
    BY <1>1, <1>3, <1>4, <2>1, ReadReject, Zenon
<1>7. CASE tok = "dot"
  <2>1. PICK n \in Nat : n = p.in
    BY <1>3
  <2>2. /\ Ready(q, n) /\ Marked(q) /\ q.len = 0 /\ n + 1 = Len(q.text) /\ q.text[n + 1] = "dot"
    <3>1. CASE p.in = Len(p.text) - 1
      <4>1. n < Len(p.text) /\ n + 1 = Len(p.text)
        BY <1>3, <2>1, <3>1
      <4>2. Ready(q, n) /\ Marked(q) /\ SameBut(p, q) /\ q.text = p.text
        BY <1>1, <1>2, <1>4, <2>1, <4>1, ReadAgain, Zenon
      <4> QED
        BY <1>3, <1>4, <1>7, <2>1, <4>1, <4>2, Zenon DEF SameBut
    <3>2. CASE p.in # Len(p.text) - 1
      <4>1. p.in = Len(p.text) /\ Len(p.text) > 1 /\ p.text[Len(p.text) - 1] = "dot"
        BY <1>5, <3>2 DEF AfterPart
      <4>2. SecondDot(p, tok) /\ NoColons(p, tok)
        BY <1>7, <4>1 DEF SecondDot, NoColons
      <4>3. NewRead(p, q, tok) /\ Marked(q)
        BY <1>1, <1>2, <1>4, <4>1, <4>2, ReadAtEnd, Zenon
      <4> QED
        BY <1>3, <1>7, <2>1, <4>3, Zenon DEF NewRead, SameBut
    <3> QED
      BY <3>1, <3>2
  <2>3. PICK s \in ParserStates : s = "ipv4byte"
    BY DEF ParserStates
  <2>4. PICK r : r = [q EXCEPT !.state = s]
    OBVIOUS
  <2>5. q \in ParserRecord /\ q.in = n + 1
    BY <2>2, Zenon DEF Ready
  <2>6. r.state = s /\ r.text = q.text /\ r.in = q.in
    BY <2>4, <2>5, StateIs
  <2>7. Place(r)
    <3>1. PICK l \in Nat : l = n + 1 /\ l > 0
      BY <2>1
    <3>2. l = Len(r.text) /\ r.in = l /\ r.text[l] = "dot"
      BY <2>2, <2>5, <2>6, <3>1, Zenon
    <3> QED
      BY <2>3, <2>6, <3>1, <3>2, Zenon DEF Place
  <2>8. n + 1 <= Len(q.text) /\ s \notin {"accepted", "rejected", "end"}
    BY <2>1, <2>2, <2>3
  <2>9. q.text[n + 1] \notin FieldTokens
    BY <2>2 DEF FieldTokens, Decimals
  <2>10. Sound([q EXCEPT !.state = s])
    BY <2>2, <2>4, <2>7, <2>8, <2>9, PassedSound, Zenon
  <2>11. Ipv4Dot(q, tok) = r
    BY <1>7, <2>3, <2>4, Zenon DEF Ipv4Dot
  <2> QED
    BY <1>1, <2>4, <2>10, <2>11, Zenon
<1> QED
  BY <1>6, <1>7

LEMMA EndSound ==
  ASSUME NEW p, Sound(p), p.state = "end", NEW tok \in NextTokens(p)
  PROVE  Sound(End(ReadToken(p, tok), tok))
<1>1. PICK q : q = ReadToken(p, tok)
  OBVIOUS
<1>2. p.state \notin {"accepted", "rejected"}
  OBVIOUS
<1>3. /\ p \in ParserRecord /\ p.top < V6Length /\ p.in \in Nat
      /\ Place(p) /\ Len(p.text) \in Nat /\ Running(p)
  BY <1>2, RunningIs, Zenon
<1>4. tok \in Tokens /\ (p.in < Len(p.text) => tok = p.text[p.in + 1])
  BY <1>3, NextToken, Zenon
<1>5. AfterPart(p)
  BY <1>3 DEF Place
<1>6. CASE tok # "end"
  <2>1. End(q, tok) = Reject(q)
    BY <1>6, Zenon DEF End
  <2> QED
    BY <1>1, <1>3, <1>4, <2>1, ReadReject, Zenon
<1>7. CASE tok = "end"
  <2>1. p.in = Len(p.text) /\ Len(p.text) > 1 /\ p.text[Len(p.text)] = "dec"
    <3>1. CASE p.in = Len(p.text) - 1 /\ p.text[Len(p.text)] = "dot"
      <4>1. p.in < Len(p.text) /\ p.in + 1 = Len(p.text)
        BY <1>3, <3>1
      <4> QED
        BY <1>4, <1>7, <3>1, <4>1
    <3> QED
      BY <1>5, <3>1 DEF AfterPart
  <2>2. SecondDot(p, tok) /\ NoColons(p, tok) /\ tok \notin FieldTokens
    BY <1>7, <2>1 DEF SecondDot, NoColons, FieldTokens, Decimals
  <2>3. NewRead(p, q, tok) /\ Marked(q)
    BY <1>1, <1>2, <1>4, <2>1, <2>2, ReadAtEnd, Zenon
  <2>4. PICK n \in Nat : n = p.in
    BY <1>3
  <2>5. /\ q \in ParserRecord /\ q.top < V6Length /\ q.in = n + 1 /\ Bounds(q) /\ StoredAt(q, n)
        /\ SameBut(p, q) /\ Len(q.text) = n + 1 /\ q.text[n + 1] = tok
    BY <2>3, <2>4, Zenon DEF NewRead, Ready
  <2>6. Stored(q) /\ q.in = Len(q.text)
    <3>1. StoredAt(q, n + 1)
      BY <2>2, <2>4, <2>5, NoBytes, Zenon
    <3> QED
      BY <2>5, <3>1, Zenon DEF Stored
  <2>7. p.len = 0 \/ (p.len = V4Length /\ p.compress = -1 /\ p.pos + 1 = V4Length)
    BY <1>3, Zenon DEF Running
  <2>8. q.len = 0 \/ (q.len = V4Length /\ q.compress = -1 /\ q.pos + 1 = V4Length)
    BY <2>5, <2>7, Zenon DEF SameBut
  <2>9. Sound(Finish(q))
    BY <2>3, <2>5, <2>6, <2>8, FinishSound, Zenon
  <2> QED
    BY <1>1, <1>7, <2>9, Zenon DEF End
<1> QED
  BY <1>6, <1>7

(* Every turn of the loop.                                                 *)
LEMMA StepSound ==
  ASSUME NEW p, Sound(p), ~Finished(p), NEW tok \in NextTokens(p)
  PROVE  Sound(ParseStep(p, tok))
<1>1. PICK q : q = ReadToken(p, tok)
  OBVIOUS
<1>2. p.state \notin {"accepted", "rejected"}
  BY Zenon DEF Finished
<1>3. p \in ParserRecord /\ p.top < V6Length
  BY <1>2, RunningIs, Zenon
<1>4. tok \in Tokens
  BY <1>3, NextToken, Zenon
<1>5. CASE tok = "illegal"
  <2>1. ParseStep(p, tok) = Reject(q)
    BY <1>1, <1>5 DEF ParseStep, ReadToken
  <2> QED
    BY <1>1, <1>3, <1>4, <2>1, ReadReject, Zenon
<1>6. CASE tok # "illegal"
  <2>1. p.state = "start" => ParseStep(p, tok) = Start(q, tok)
    BY <1>1, <1>6 DEF ParseStep, ReadToken
  <2>2. p.state = "aftercolon" => ParseStep(p, tok) = AfterColon(q, tok)
    BY <1>1, <1>6 DEF ParseStep, ReadToken
  <2>3. p.state = "compressed" => ParseStep(p, tok) = Compressed(q, tok)
    BY <1>1, <1>6 DEF ParseStep, ReadToken
  <2>4. p.state = "field" => ParseStep(p, tok) = Field(q, tok)
    BY <1>1, <1>6 DEF ParseStep, ReadToken
  <2>5. p.state = "afterhex" => ParseStep(p, tok) = AfterHex(q, tok)
    BY <1>1, <1>6 DEF ParseStep, ReadToken
  <2>6. p.state = "afterdec" => ParseStep(p, tok) = AfterDec(q, tok)
    BY <1>1, <1>6 DEF ParseStep, ReadToken
  <2>7. p.state = "ipv4byte" => ParseStep(p, tok) = Ipv4Byte(q, tok)
    BY <1>1, <1>6 DEF ParseStep, ReadToken
  <2>8. p.state = "ipv4dot" => ParseStep(p, tok) = Ipv4Dot(q, tok)
    BY <1>1, <1>6 DEF ParseStep, ReadToken
  <2>9. p.state = "end" => ParseStep(p, tok) = End(q, tok)
    BY <1>1, <1>6 DEF ParseStep, ReadToken
  <2>10. p.state \in {"start", "aftercolon", "compressed", "field", "afterhex", "afterdec",
                      "ipv4byte", "ipv4dot", "end"}
    BY <1>2, <1>3 DEF ParserRecord, ParserStates
  <2>11. /\ p.state = "start" => Sound(Start(q, tok))
         /\ p.state = "aftercolon" => Sound(AfterColon(q, tok))
         /\ p.state = "compressed" => Sound(Compressed(q, tok))
         /\ p.state = "field" => Sound(Field(q, tok))
         /\ p.state = "afterhex" => Sound(AfterHex(q, tok))
         /\ p.state = "afterdec" => Sound(AfterDec(q, tok))
         /\ p.state = "ipv4byte" => Sound(Ipv4Byte(q, tok))
         /\ p.state = "ipv4dot" => Sound(Ipv4Dot(q, tok))
         /\ p.state = "end" => Sound(End(q, tok))
    BY <1>1, <1>4, StartSound, AfterColonSound, CompressedSound, FieldStateSound,
       AfterHexStateSound, AfterDecSound, Ipv4ByteSound, Ipv4DotSound, EndSound, Zenon
  <2> QED
    BY <2>1, <2>2, <2>3, <2>4, <2>5, <2>6, <2>7, <2>8, <2>9, <2>10, <2>11, Zenon
<1> QED
  BY <1>5, <1>6

-----------------------------------------------------------------------------
(* No state of the parser changes the text it reads.                       *)

SameText(q, r) == "text" \in DOMAIN r /\ r.text = q.text

LEMMA RejectText ==
  ASSUME NEW q, "text" \in DOMAIN q
  PROVE  SameText(q, Reject(q))
BY Zenon DEF SameText, Reject

LEMMA StateText ==
  ASSUME NEW q, "text" \in DOMAIN q, NEW s
  PROVE  SameText(q, [q EXCEPT !.state = s])
BY Zenon DEF SameText

LEMMA PosText ==
  ASSUME NEW q, "text" \in DOMAIN q, NEW n
  PROVE  SameText(q, [q EXCEPT !.pos = n])
BY Zenon DEF SameText

LEMMA WrittenText ==
  ASSUME NEW q, "text" \in DOMAIN q, NEW i, NEW b
  PROVE  SameText(q, Write(q, i, b))
<1>1. PICK a, m : /\ a = [j \in DOMAIN q.addr |-> IF j = i THEN b ELSE q.addr[j]]
                  /\ m = IF i > q.top THEN i ELSE q.top
  OBVIOUS
<1>2. Write(q, i, b) = [q EXCEPT !.addr = a, !.top = m]
  BY <1>1, Zenon DEF Write
<1> QED
  BY <1>2, Zenon DEF SameText

LEMMA FinishText ==
  ASSUME NEW q, "text" \in DOMAIN q
  PROVE  SameText(q, Finish(q))
<1>1. SameText(q, [q EXCEPT !.state = "accepted"])
  BY StateText
<1>2. SameText(q, [q EXCEPT !.addr = Inflated(q), !.len = V6Length, !.state = "accepted"])
  BY Zenon DEF SameText
<1>3. SameText(q, [q EXCEPT !.len = V6Length, !.state = "accepted"])
  BY Zenon DEF SameText
<1>4. SameText(q, Reject(q))
  BY RejectText
<1> QED
  BY <1>1, <1>2, <1>3, <1>4 DEF Finish

LEMMA SameTextTwice ==
  ASSUME NEW p, NEW q, NEW r, SameText(p, q), SameText(q, r)
  PROVE  SameText(p, r)
BY Zenon DEF SameText

LEMMA FieldText ==
  ASSUME NEW q, "text" \in DOMAIN q, NEW tok
  PROVE  SameText(q, Field(q, tok))
<1>1. SameText(q, Finish(q)) /\ SameText(q, Reject(q))
  BY FinishText, RejectText
<1>2. SameText(q, Finish([q EXCEPT !.pos = @ + 2]))
  <2>1. SameText(q, [q EXCEPT !.pos = @ + 2])
    BY Zenon DEF SameText
  <2> QED
    BY <2>1, FinishText, SameTextTwice, Zenon DEF SameText
<1>3. SameText(q, FieldStored(q, tok))
  <2>1. PICK w : w = Write(q, q.pos + 1, 2 * q.in)
    OBVIOUS
  <2>2. PICK v : v = Write(w, q.pos + 2, 2 * q.in + 1)
    OBVIOUS
  <2>3. SameText(q, w)
    BY <2>1, WrittenText, Zenon
  <2>4. SameText(w, v)
    BY <2>2, <2>3, WrittenText, Zenon DEF SameText
  <2>5. SameText(v, [v EXCEPT !.pos = @ + 2, !.state = IF tok = "hex" THEN "afterhex" ELSE "afterdec"])
    BY <2>4, Zenon DEF SameText
  <2>6. FieldStored(q, tok) =
          [v EXCEPT !.pos = @ + 2, !.state = IF tok = "hex" THEN "afterhex" ELSE "afterdec"]
    BY <2>1, <2>2, Zenon DEF FieldStored
  <2> QED
    BY <2>3, <2>4, <2>5, <2>6, SameTextTwice, Zenon
<1> QED
  BY <1>1, <1>2, <1>3, Zenon DEF Field, FieldStored

LEMMA CompressedText ==
  ASSUME NEW q, "text" \in DOMAIN q, NEW tok
  PROVE  SameText(q, Compressed(q, tok))
<1>1. SameText(q, [q EXCEPT !.compress = q.pos + 1, !.state = "field"])
  BY Zenon DEF SameText
<1>2. SameText(q, Reject(q))
  BY RejectText
<1> QED
  BY <1>1, <1>2, Zenon DEF Compressed

LEMMA AfterHexText ==
  ASSUME NEW q, "text" \in DOMAIN q, NEW tok
  PROVE  SameText(q, AfterHex(q, tok))
<1>1. SameText(q, [q EXCEPT !.state = "aftercolon"])
  BY StateText
<1>2. SameText(q, Finish(q)) /\ SameText(q, Reject(q))
  BY FinishText, RejectText
<1> QED
  BY <1>1, <1>2 DEF AfterHex

LEMMA AfterDecText ==
  ASSUME NEW q, "text" \in DOMAIN q, NEW tok
  PROVE  SameText(q, AfterDec(q, tok))
<1>1. SameText(q, FieldUnread(q))
  <2>1. PICK w : w = Write(q, q.pos, 0)
    OBVIOUS
  <2>2. PICK v : v = Write(w, q.pos - 1, 0)
    OBVIOUS
  <2>3. SameText(q, w)
    BY <2>1, WrittenText, Zenon
  <2>4. SameText(w, v)
    BY <2>2, <2>3, WrittenText, Zenon DEF SameText
  <2>5. SameText(v, [v EXCEPT !.pos = @ - 2, !.in = @ - 2, !.state = "ipv4byte", !.ipv4 = 0])
    BY <2>4, Zenon DEF SameText
  <2>6. FieldUnread(q) = [v EXCEPT !.pos = @ - 2, !.in = @ - 2, !.state = "ipv4byte", !.ipv4 = 0]
    BY <2>1, <2>2, Zenon DEF FieldUnread
  <2> QED
    BY <2>3, <2>4, <2>5, <2>6, SameTextTwice, Zenon
<1>2. SameText(q, AfterHex(q, tok))
  BY AfterHexText
<1> QED
  BY <1>1, <1>2, Zenon DEF AfterDec, FieldUnread

LEMMA Ipv4ByteText ==
  ASSUME NEW q, "text" \in DOMAIN q, NEW tok
  PROVE  SameText(q, Ipv4Byte(q, tok))
<1>1. SameText(q, Reject(q))
  BY RejectText
<1>2. SameText(q, Finish([q EXCEPT !.pos = @ + 1]))
  <2>1. SameText(q, [q EXCEPT !.pos = @ + 1])
    BY Zenon DEF SameText
  <2> QED
    BY <2>1, FinishText, SameTextTwice, Zenon DEF SameText
<1>3. SameText(q, PartStored(PartWrite(q)))
  <2>1. PICK v : v = Write(q, q.pos + 1, -q.in)
    OBVIOUS
  <2>2. SameText(q, v)
    BY <2>1, WrittenText, Zenon
  <2>3. PICK w : w = [v EXCEPT !.pos = @ + 1, !.ipv4 = @ + 1]
    OBVIOUS
  <2>4. SameText(v, w)
    BY <2>2, <2>3, Zenon DEF SameText
  <2>5. SameText(w, [w EXCEPT !.state = "ipv4dot"])
    BY <2>4, StateText, Zenon DEF SameText
  <2>6. SameText(w, [w EXCEPT !.state = "end",
                              !.len = IF w.compress = -1 /\ w.pos + 1 = V4Length THEN V4Length ELSE 0])
    BY <2>4, Zenon DEF SameText
  <2>7. SameText(w, PartStored(w))
    BY <2>5, <2>6, Zenon DEF PartStored
  <2>8. w = PartWrite(q)
    BY <2>1, <2>3, Zenon DEF PartWrite
  <2> QED
    BY <2>2, <2>4, <2>7, <2>8, SameTextTwice, Zenon
<1> QED
  BY <1>1, <1>2, <1>3, Zenon DEF Ipv4Byte, PartStored, PartWrite

LEMMA StepText ==
  ASSUME NEW p \in ParserRecord, ~Finished(p), NEW tok \in Tokens
  PROVE  ParseStep(p, tok).text = IF p.in < Len(p.text) THEN p.text ELSE Append(p.text, tok)
<1>1. PICK q : q = ReadToken(p, tok)
  OBVIOUS
<1>2. q \in ParserRecord /\ q.text = IF p.in < Len(p.text) THEN p.text ELSE Append(p.text, tok)
  BY <1>1, ReadIs
<1>3. "text" \in DOMAIN q
  BY <1>2 DEF ParserRecord
<1>4. SameText(q, ParseStep(p, tok))
  <2>1. SameText(q, Reject(q)) /\ SameText(q, Field(q, tok)) /\ SameText(q, Compressed(q, tok))
    BY <1>3, RejectText, FieldText, CompressedText, Zenon
  <2>2. SameText(q, AfterHex(q, tok)) /\ SameText(q, AfterDec(q, tok)) /\ SameText(q, Ipv4Byte(q, tok))
    BY <1>3, AfterHexText, AfterDecText, Ipv4ByteText, Zenon
  <2>3. SameText(q, Start(q, tok))
    <3>1. SameText(q, [q EXCEPT !.state = "compressed"])
      BY <1>3, StateText
    <3> QED
      BY <2>1, <3>1, Zenon DEF Start
  <2>4. SameText(q, AfterColon(q, tok))
    BY <2>1, Zenon DEF AfterColon
  <2>5. SameText(q, Ipv4Dot(q, tok))
    <3>1. SameText(q, [q EXCEPT !.state = "ipv4byte"])
      BY <1>3, StateText
    <3> QED
      BY <2>1, <3>1, Zenon DEF Ipv4Dot
  <2>6. SameText(q, End(q, tok))
    BY <1>3, <2>1, FinishText, Zenon DEF End
  <2>7. p.state \in {"start", "aftercolon", "compressed", "field", "afterhex", "afterdec",
                     "ipv4byte", "ipv4dot", "end"}
    BY DEF ParserRecord, ParserStates, Finished
  <2> QED
    BY <1>1, <2>1, <2>2, <2>3, <2>4, <2>5, <2>6, <2>7 DEF ParseStep, ReadToken
<1> QED
  BY <1>2, <1>4, Zenon DEF SameText

-----------------------------------------------------------------------------
(* The way through the texts php_driver_format_address writes.             *)

LEMMA AlongAppend ==
  ASSUME NEW t \in Seq(Tokens), NEW tok \in Tokens
  PROVE  /\ AlongV6(Append(t, tok)) => AlongV6(t) /\ Len(t) < V6Length /\ tok = V6Token(Len(t) + 1)
         /\ AlongV4(Append(t, tok)) =>
              AlongV4(t) /\ Len(t) < 2 * V4Length /\ tok = V4Token(Len(t) + 1)
<1>1. PICK u \in Seq(Tokens) : /\ u = Append(t, tok) /\ Len(u) = Len(t) + 1
                               /\ \A i \in 1 .. Len(t) : u[i] = t[i]
                               /\ u[Len(t) + 1] = tok
  BY AppendProperties
<1>2. PICK l \in Nat, V \in Nat, W \in Nat : l = Len(t) /\ V = V6Length /\ W = 2 * V4Length
  BY LengthsAre
<1>3. l + 1 \in 1 .. l + 1 /\ \A i \in 1 .. l : i \in 1 .. l + 1
  BY <1>2
<1>4. /\ l + 1 <= V => l <= V /\ l < V
      /\ l + 1 <= W => l <= W /\ l < W
  BY <1>2
<1>5. ASSUME AlongV6(u) PROVE AlongV6(t) /\ Len(t) < V6Length /\ tok = V6Token(Len(t) + 1)
  <2>1. l + 1 <= V /\ \A i \in 1 .. l + 1 : u[i] = V6Token(i)
    BY <1>1, <1>2, <1>5, Zenon DEF AlongV6
  <2>2. tok = V6Token(l + 1) /\ \A i \in 1 .. l : t[i] = V6Token(i)
    BY <1>1, <1>2, <1>3, <2>1, Zenon
  <2> QED
    BY <1>2, <1>4, <2>1, <2>2, Zenon DEF AlongV6
<1>6. ASSUME AlongV4(u) PROVE AlongV4(t) /\ Len(t) < 2 * V4Length /\ tok = V4Token(Len(t) + 1)
  <2>1. l + 1 <= W /\ \A i \in 1 .. l + 1 : u[i] = V4Token(i)
    BY <1>1, <1>2, <1>6, Zenon DEF AlongV4
  <2>2. tok = V4Token(l + 1) /\ \A i \in 1 .. l : t[i] = V4Token(i)
    BY <1>1, <1>2, <1>3, <2>1, Zenon
  <2> QED
    BY <1>2, <1>4, <2>1, <2>2, Zenon DEF AlongV4
<1> QED
  BY <1>1, <1>5, <1>6, Zenon

LEMMA V6Tokens ==
  ASSUME NEW l \in Nat, l < V6Length
  PROVE  /\ l % 2 = 0 => V6Token(l + 1) = "hex" /\ l + 2 <= V6Length /\ (l + 1) % 2 = 1
                         /\ l + 1 < V6Length
         /\ l % 2 = 1 /\ l + 1 = V6Length => V6Token(l + 1) = "end"
         /\ l % 2 = 1 /\ l + 1 # V6Length =>
              V6Token(l + 1) = "colon" /\ (l + 1) % 2 = 0 /\ l + 1 < V6Length
BY LengthsAssumption DEF V6Token

LEMMA V4Tokens ==
  ASSUME NEW k \in Nat
  PROVE  /\ V4Token(2 * k + 1) = "dec"
         /\ 0 < k /\ k < V4Length => V4Token(2 * k) = "dot"
         /\ V4Token(2 * V4Length) = "end"
BY LengthsAssumption DEF V4Token

LEMMA OnWayNotEmpty ==
  ASSUME NEW p, OnWayV6(p), p.state # "accepted"
  PROVE  /\ p.compress = -1 /\ p.len = 0 /\ p.in = Len(p.text) /\ Len(p.text) < V6Length
         /\ \/ p.state = "start" /\ Len(p.text) = 0 /\ p.pos = -1
            \/ p.state = "afterhex" /\ Len(p.text) % 2 = 1 /\ p.pos = Len(p.text)
            \/ p.state = "aftercolon" /\ Len(p.text) % 2 = 0 /\ p.pos = Len(p.text) - 1
BY Zenon DEF OnWayV6

ReadOnWay(p, q, l) ==
  /\ q \in ParserRecord /\ q.top < V6Length /\ Bounds(q) /\ q.compress = -1
  /\ q.pos = p.pos /\ q.ipv4 = p.ipv4 /\ q.len = p.len /\ q.in = p.in + 1 /\ Len(q.text) = l

LEMMA ReadingOnWay ==
  ASSUME NEW p, Sound(p), p.state \notin {"accepted", "rejected"}, p.compress = -1,
         NEW tok \in Tokens
  PROVE  /\ p.in < Len(p.text) => ReadOnWay(p, ReadToken(p, tok), Len(p.text))
         /\ ~(p.in < Len(p.text)) => ReadOnWay(p, ReadToken(p, tok), Len(p.text) + 1)
<1>1. PICK q : q = ReadToken(p, tok)
  OBVIOUS
<1>2. p \in ParserRecord /\ p.top < V6Length /\ Bounds(p)
  BY RunningIs, Zenon
<1>3. q \in ParserRecord /\ q.top < V6Length /\ SameBut(p, q) /\ q.in = p.in + 1
  BY <1>1, <1>2, ReadRecord, Zenon
<1>4. q.text = IF p.in < Len(p.text) THEN p.text ELSE Append(p.text, tok)
  BY <1>1, <1>2, ReadIs, Zenon
<1>5. p.text \in Seq(Tokens)
  BY <1>2 DEF ParserRecord
<1>6. Len(Append(p.text, tok)) = Len(p.text) + 1
  BY <1>5, AppendProperties, ZenonT(60)
<1>7. Bounds(q)
  BY <1>2, <1>3, BoundsSame, Zenon DEF SameBut, SameBounds
<1> QED
  BY <1>1, <1>3, <1>4, <1>6, <1>7, Zenon DEF ReadOnWay, SameBut

(* A field on the way.                                                     *)
FieldPassed(p, r, tok, l) ==
  /\ r.state = (IF tok = "hex" THEN "afterhex" ELSE "afterdec")
  /\ r.pos = p.pos + 2 /\ r.compress = -1 /\ r.len = p.len /\ r.in = p.in + 1
  /\ Len(r.text) = l

LEMMA FieldOnWay ==
  ASSUME NEW p, NEW q, NEW l, ReadOnWay(p, q, l), NEW tok \in FieldTokens,
         q.pos + 3 <= V6Length
  PROVE  FieldPassed(p, Field(q, tok), tok, l)
<1>1. q \in ParserRecord /\ q.top < V6Length /\ Bounds(q)
  BY Zenon DEF ReadOnWay
<1>2. FieldWritten(q, FieldStored(q, tok), tok)
  BY <1>1, FieldStoredIs, Zenon
<1>3. Field(q, tok) = FieldStored(q, tok)
  <2>1. tok # "end"
    BY DEF FieldTokens, Decimals
  <2>2. ~(q.pos + 3 > V6Length)
    BY <1>1, LengthsAre DEF ParserRecord
  <2> QED
    BY <2>1, <2>2, Zenon DEF Field, FieldStored, FieldTokens
<1> QED
  BY <1>2, <1>3, Zenon DEF FieldWritten, ReadOnWay, FieldPassed

LEMMA WayV6Field ==
  ASSUME NEW p, NEW q, NEW l \in Nat, ReadOnWay(p, q, l + 1), p.in = l, p.pos = l - 1,
         p.len = 0, l < V6Length, l % 2 = 0
  PROVE  V6Token(l + 1) = "hex" /\ OnWayV6(Field(q, "hex"))
<1>1. V6Token(l + 1) = "hex" /\ l + 2 <= V6Length /\ (l + 1) % 2 = 1 /\ l + 1 < V6Length
  BY V6Tokens, Zenon
<1>2. q.pos = l - 1
  BY Zenon DEF ReadOnWay
<1>3. q.pos + 3 <= V6Length
  <2>1. (l - 1) + 3 = l + 2
    OBVIOUS
  <2> QED
    BY <1>1, <1>2, <2>1, Zenon
<1>4. PICK tok \in FieldTokens : tok = "hex"
  BY DEF FieldTokens
<1>5. PICK r : r = Field(q, tok)
  OBVIOUS
<1>10. FieldPassed(p, r, tok, l + 1)
  BY <1>3, <1>5, FieldOnWay, Zenon
<1>6. /\ r.state = (IF tok = "hex" THEN "afterhex" ELSE "afterdec")
      /\ r.pos = p.pos + 2 /\ r.compress = -1
      /\ r.len = p.len /\ r.in = p.in + 1
      /\ Len(r.text) = l + 1
  BY <1>10, Zenon DEF FieldPassed
<1>7. (l - 1) + 2 = l + 1
  OBVIOUS
<1>8. /\ r.state = "afterhex" /\ r.pos = l + 1 /\ r.compress = -1 /\ r.len = 0 /\ r.in = l + 1
      /\ Len(r.text) = l + 1
  BY <1>4, <1>6, <1>7, Zenon
<1>9. OnWayV6(r)
  BY <1>1, <1>8, Zenon DEF OnWayV6
<1> QED
  BY <1>1, <1>4, <1>5, <1>9, Zenon

LEMMA WayV6Hex ==
  ASSUME NEW p, NEW q, NEW l \in Nat, ReadOnWay(p, q, l + 1), p.in = l, p.pos = l,
         p.len = 0, l < V6Length, l % 2 = 1
  PROVE  OnWayV6(AfterHex(q, V6Token(l + 1)))
<1>1. PICK r : r = AfterHex(q, V6Token(l + 1))
  OBVIOUS
<1>2. q \in ParserRecord /\ q.pos = l /\ q.compress = -1 /\ q.len = 0 /\ q.in = l + 1
      /\ Len(q.text) = l + 1
  BY Zenon DEF ReadOnWay
<1>3. CASE l + 1 = V6Length
  <2>1. V6Token(l + 1) = "end"
    BY <1>3, V6Tokens, Zenon
  <2>2. r = Finish(q)
    BY <1>1, <2>1 DEF AfterHex
  <2>3. q.pos + 1 = V6Length /\ q.len # V4Length
    BY <1>2, <1>3, LengthsAre
  <2>4. Finish(q) = [q EXCEPT !.len = V6Length, !.state = "accepted"]
    BY <1>2, <2>3 DEF Finish
  <2>5. r.state = "accepted"
    BY <1>2, <2>2, <2>4 DEF ParserRecord
  <2> QED
    BY <1>1, <2>5, Zenon DEF OnWayV6
<1>4. CASE l + 1 # V6Length
  <2>1. V6Token(l + 1) = "colon" /\ (l + 1) % 2 = 0 /\ l + 1 < V6Length
    BY <1>4, V6Tokens, Zenon
  <2>2. r = [q EXCEPT !.state = "aftercolon"]
    BY <1>1, <2>1 DEF AfterHex
  <2>3. /\ r.state = "aftercolon" /\ r.pos = l /\ r.compress = -1 /\ r.len = 0 /\ r.in = l + 1
        /\ Len(r.text) = l + 1
    <3>1. PICK s \in ParserStates : s = "aftercolon"
      BY DEF ParserStates
    <3> QED
      BY <1>2, <2>2, <3>1, StateIs
  <2>4. l = (l + 1) - 1
    OBVIOUS
  <2>5. OnWayV6(r)
    BY <2>1, <2>3, <2>4, Zenon DEF OnWayV6
  <2> QED
    BY <1>1, <2>5, Zenon
<1> QED
  BY <1>3, <1>4

LEMMA WayV6 ==
  ASSUME NEW p, Sound(p), AlongV6(p.text) => OnWayV6(p), ~Finished(p), NEW tok \in NextTokens(p),
         AlongV6(ParseStep(p, tok).text)
  PROVE  OnWayV6(ParseStep(p, tok))
<1>1. p.state \notin {"accepted", "rejected"}
  BY Zenon DEF Finished
<1>2. p \in ParserRecord
  BY <1>1, RunningIs, Zenon
<1>3. tok \in Tokens
  BY <1>2, NextToken, Zenon
<1>4. ParseStep(p, tok).text = IF p.in < Len(p.text) THEN p.text ELSE Append(p.text, tok)
  BY <1>2, <1>3, StepText, Zenon
<1>5. p.text \in Seq(Tokens)
  BY <1>2 DEF ParserRecord
<1>6. AlongV6(p.text)
  BY <1>3, <1>4, <1>5, AlongAppend, Zenon
<1>7. /\ p.compress = -1 /\ p.len = 0 /\ p.in = Len(p.text) /\ Len(p.text) < V6Length
      /\ \/ p.state = "start" /\ Len(p.text) = 0 /\ p.pos = -1
         \/ p.state = "afterhex" /\ Len(p.text) % 2 = 1 /\ p.pos = Len(p.text)
         \/ p.state = "aftercolon" /\ Len(p.text) % 2 = 0 /\ p.pos = Len(p.text) - 1
  BY <1>1, <1>6, OnWayNotEmpty, Zenon
<1>8. PICK l \in Nat : l = Len(p.text) /\ ~(p.in < Len(p.text))
  BY <1>5, <1>7
<1>9. tok = V6Token(l + 1)
  BY <1>3, <1>4, <1>5, <1>8, AlongAppend, Zenon
<1>10. PICK q : q = ReadToken(p, tok)
  OBVIOUS
<1>11. ReadOnWay(p, q, l + 1) /\ p.in = l /\ l < V6Length /\ p.len = 0
  BY <1>1, <1>3, <1>7, <1>8, <1>10, ReadingOnWay, Zenon
<1>12. CASE p.state = "start" /\ Len(p.text) = 0 /\ p.pos = -1
  <2>1. l % 2 = 0 /\ p.pos = l - 1
    BY <1>8, <1>12
  <2>2. tok = "hex" /\ OnWayV6(Field(q, "hex"))
    BY <1>9, <1>11, <2>1, WayV6Field, Zenon
  <2>3. ParseStep(p, tok) = Start(q, tok)
    BY <1>10, <1>12, <2>2 DEF ParseStep, ReadToken
  <2>4. Start(q, tok) = Field(q, tok)
    BY <2>2 DEF Start
  <2> QED
    BY <2>2, <2>3, <2>4, Zenon
<1>13. CASE p.state = "afterhex" /\ Len(p.text) % 2 = 1 /\ p.pos = Len(p.text)
  <2>1. l % 2 = 1 /\ p.pos = l
    BY <1>8, <1>13, Zenon
  <2>2. OnWayV6(AfterHex(q, tok))
    BY <1>9, <1>11, <2>1, WayV6Hex, Zenon
  <2>3. tok # "illegal"
    BY <1>9 DEF V6Token
  <2>4. ParseStep(p, tok) = AfterHex(q, tok)
    BY <1>10, <1>13, <2>3 DEF ParseStep, ReadToken
  <2> QED
    BY <2>2, <2>4, Zenon
<1>14. CASE p.state = "aftercolon" /\ Len(p.text) % 2 = 0 /\ p.pos = Len(p.text) - 1
  <2>1. l % 2 = 0 /\ p.pos = l - 1
    BY <1>8, <1>14, Zenon
  <2>2. tok = "hex" /\ OnWayV6(Field(q, "hex"))
    BY <1>9, <1>11, <2>1, WayV6Field, Zenon
  <2>3. ParseStep(p, tok) = AfterColon(q, tok)
    BY <1>10, <1>14, <2>2 DEF ParseStep, ReadToken
  <2>4. AfterColon(q, tok) = Field(q, tok)
    BY <2>2 DEF AfterColon
  <2> QED
    BY <2>2, <2>3, <2>4, Zenon
<1> QED
  BY <1>7, <1>12, <1>13, <1>14

(* The dotted quad: a state on the way and what it reads next.             *)
AtByte(p, k) ==
  /\ p.state = "ipv4byte" /\ p.ipv4 = k /\ p.in = 2 * k /\ p.pos = k - 1 /\ k < V4Length
  /\ p.compress = -1 /\ p.len = 0
  /\ Len(p.text) >= 2 /\ (Len(p.text) = p.in \/ (Len(p.text) = 2 /\ p.in = 0))
AtDot(p, k) ==
  /\ p.state = "ipv4dot" /\ p.ipv4 = k /\ p.in = 2 * k - 1 /\ p.pos = k - 1 /\ 1 <= k /\ k < V4Length
  /\ p.compress = -1 /\ p.len = 0
  /\ Len(p.text) >= 2 /\ (Len(p.text) = p.in \/ (Len(p.text) = 2 /\ p.in = 1))
AtField(p) == /\ p.state = "afterdec" /\ Len(p.text) = 1 /\ p.in = 1 /\ p.pos = 1
              /\ p.compress = -1 /\ p.len = 0
AtStart(p) == /\ p.state = "start" /\ Len(p.text) = 0 /\ p.in = 0 /\ p.pos = -1
              /\ p.compress = -1 /\ p.len = 0
AtEnd(p) == /\ p.state = "end" /\ p.in = 2 * V4Length - 1 /\ Len(p.text) = p.in
            /\ p.len = V4Length

LEMMA OnWayV4Is ==
  ASSUME NEW p \in ParserRecord, OnWayV4(p), p.state # "accepted"
  PROVE  \/ AtStart(p) \/ AtField(p) \/ AtEnd(p)
         \/ \E k \in Nat : AtByte(p, k) \/ AtDot(p, k)
<1>1. CASE AtStart(p) \/ AtField(p) \/ AtEnd(p)
  BY <1>1
<1>2. CASE /\ p.state = "ipv4byte" /\ p.in = 2 * p.ipv4 /\ p.pos = p.ipv4 - 1
           /\ 0 <= p.ipv4 /\ p.ipv4 < V4Length
           /\ (Len(p.text) = p.in \/ (Len(p.text) = 2 /\ p.in = 0))
           /\ p.compress = -1 /\ p.len = 0 /\ Len(p.text) >= 2
  <2>1. PICK k \in Nat : k = p.ipv4
    BY <1>2 DEF ParserRecord
  <2>2. AtByte(p, k)
    BY <1>2, <2>1, Zenon DEF AtByte
  <2> QED
    BY <2>2
<1>3. CASE /\ p.state = "ipv4dot" /\ p.in = 2 * p.ipv4 - 1 /\ p.pos = p.ipv4 - 1
           /\ 1 <= p.ipv4 /\ p.ipv4 < V4Length
           /\ (Len(p.text) = p.in \/ (Len(p.text) = 2 /\ p.in = 1))
           /\ p.compress = -1 /\ p.len = 0 /\ Len(p.text) >= 2
  <2>1. PICK k \in Nat : k = p.ipv4
    BY <1>3 DEF ParserRecord
  <2>2. AtDot(p, k)
    BY <1>3, <2>1, Zenon DEF AtDot
  <2> QED
    BY <2>2
<1> QED
  BY <1>1, <1>2, <1>3, Zenon DEF OnWayV4, AtStart, AtField, AtEnd

LEMMA AtIsOnWayV4 ==
  ASSUME NEW r, \/ AtField(r) \/ AtEnd(r)
                \/ \E k \in Nat : AtByte(r, k) \/ AtDot(r, k)
  PROVE  OnWayV4(r)
<1>1. CASE AtField(r)
  BY <1>1, Zenon DEF AtField, OnWayV4
<1>2. CASE AtEnd(r)
  BY <1>2, Zenon DEF AtEnd, OnWayV4
<1>3. ASSUME NEW k \in Nat, AtByte(r, k) PROVE OnWayV4(r)
  <2>1. 0 <= k
    OBVIOUS
  <2>2. 0 <= r.ipv4 /\ k = r.ipv4
    BY <1>3, <2>1, Zenon DEF AtByte
  <2> QED
    BY <1>3, <2>2, Zenon DEF AtByte, OnWayV4
<1>4. ASSUME NEW k \in Nat, AtDot(r, k) PROVE OnWayV4(r)
  BY <1>4, Zenon DEF AtDot, OnWayV4
<1> QED
  BY <1>1, <1>2, <1>3, <1>4

(* The token that comes next in the text.                                  *)
LEMMA NextV4 ==
  ASSUME NEW p \in ParserRecord, NEW tok \in NextTokens(p), ~Finished(p),
         AlongV4(ParseStep(p, tok).text), p.in <= Len(p.text)
  PROVE  AlongV4(p.text) /\ tok = V4Token(p.in + 1)
<1>1. tok \in Tokens /\ (p.in < Len(p.text) => tok = p.text[p.in + 1])
  BY NextToken, Zenon
<1>2. ParseStep(p, tok).text = IF p.in < Len(p.text) THEN p.text ELSE Append(p.text, tok)
  BY <1>1, StepText, Zenon
<1>3. p.text \in Seq(Tokens) /\ p.in \in Nat /\ Len(p.text) \in Nat
  BY DEF ParserRecord
<1>4. CASE p.in < Len(p.text)
  <2>1. p.in + 1 \in 1 .. Len(p.text)
    BY <1>3, <1>4
  <2> QED
    BY <1>1, <1>2, <1>4, <2>1, Zenon DEF AlongV4
<1>5. CASE ~(p.in < Len(p.text))
  <2>1. p.in = Len(p.text)
    BY <1>3, <1>5
  <2> QED
    BY <1>1, <1>2, <1>3, <1>5, <2>1, AlongAppend, Zenon
<1> QED
  BY <1>4, <1>5

LEMMA WayV4Start ==
  ASSUME NEW p, NEW q, AtStart(p), ReadOnWay(p, q, 1)
  PROVE  AtField(Field(q, "dec"))
<1>1. p.pos = -1 /\ p.in = 0 /\ p.len = 0
  BY Zenon DEF AtStart
<1>2. q.pos = -1
  BY <1>1, Zenon DEF ReadOnWay
<1>3. q.pos + 3 <= V6Length
  BY <1>2, LengthsAre
<1>4. PICK tok, l : tok \in FieldTokens /\ tok = "dec" /\ l = 1
  BY DEF FieldTokens, Decimals
<1>5. FieldPassed(p, Field(q, tok), tok, l)
  BY <1>3, <1>4, FieldOnWay, Zenon
<1>6. PICK r : r = Field(q, tok)
  OBVIOUS
<1>7. /\ r.state = (IF tok = "hex" THEN "afterhex" ELSE "afterdec") /\ r.pos = p.pos + 2
      /\ r.compress = -1 /\ r.len = 0 /\ r.in = p.in + 1 /\ Len(r.text) = 1
  BY <1>1, <1>4, <1>5, <1>6, Zenon DEF FieldPassed
<1>8. AtField(r)
  BY <1>1, <1>4, <1>7 DEF AtField
<1> QED
  BY <1>4, <1>6, <1>8, Zenon

LEMMA WayV4Unread ==
  ASSUME NEW p, NEW q, AtField(p), ReadOnWay(p, q, 2)
  PROVE  AtByte(AfterDec(q, "dot"), 0)
<1>1. p.pos = 1 /\ p.in = 1 /\ p.len = 0
  BY Zenon DEF AtField
<1>2. /\ q \in ParserRecord /\ q.top < V6Length /\ Bounds(q) /\ q.compress = -1
      /\ q.pos = 1 /\ q.len = 0 /\ q.in = 1 + 1 /\ Len(q.text) = 2
  BY <1>1, Zenon DEF ReadOnWay
<1>3. PICK r : r = FieldUnread(q)
  OBVIOUS
<1>4. Unread(q, r)
  <2>1. q.pos >= 1 /\ q.in >= 2
    BY <1>2
  <2> QED
    BY <1>2, <1>3, <2>1, UnreadIs, Zenon
<1>5. /\ r.state = "ipv4byte" /\ r.pos = q.pos - 2 /\ r.in = q.in - 2 /\ r.compress = -1
      /\ r.len = 0 /\ Len(r.text) = 2 /\ r.ipv4 = 0
  BY <1>2, <1>4, Zenon DEF Unread
<1>6. AtByte(r, 0)
  BY <1>2, <1>5, LengthsAre DEF AtByte
<1>7. AfterDec(q, "dot") = r
  BY <1>3, Zenon DEF AfterDec, FieldUnread
<1> QED
  BY <1>6, <1>7, Zenon

PartOnWay(r, k, l) ==
  /\ r.pos = k /\ r.in = 2 * k + 1 /\ r.compress = -1 /\ Len(r.text) = l
  /\ \/ k + 1 < V4Length /\ r.state = "ipv4dot" /\ r.len = 0 /\ r.ipv4 = k + 1
     \/ k + 1 = V4Length /\ r.state = "end" /\ r.len = V4Length

LEMMA PartOnWayIs ==
  ASSUME NEW p, NEW q, NEW k \in Nat, NEW l, k < V4Length, ReadOnWay(p, q, l),
         p.ipv4 = k, p.in = 2 * k, p.pos = k - 1, p.len = 0
  PROVE  PartOnWay(Ipv4Byte(q, "dec"), k, l)
<1>1. /\ q \in ParserRecord /\ q.top < V6Length /\ Bounds(q) /\ q.compress = -1
      /\ q.pos = k - 1 /\ q.len = 0 /\ q.in = 2 * k + 1 /\ Len(q.text) = l /\ q.ipv4 = k
  BY Zenon DEF ReadOnWay
<1>2. PICK V \in Nat, W \in Nat : V = V6Length /\ W = V4Length /\ W < V
  BY LengthsAre
<1>3. (k - 1) + 2 <= V /\ ~((k - 1) + 2 > V)
  BY <1>2
<1>4. q.pos + 2 <= V6Length /\ ~(q.pos + 2 > V6Length)
  BY <1>1, <1>2, <1>3, Zenon
<1>5. PICK w : w = PartWrite(q)
  OBVIOUS
<1>6. PartWritten(q, w)
  BY <1>1, <1>4, <1>5, PartWriteIs, Zenon
<1>7. (k - 1) + 1 = k
  OBVIOUS
<1>8. /\ w \in ParserRecord /\ w.pos = k /\ w.in = 2 * k + 1 /\ w.compress = -1 /\ w.len = 0
      /\ Len(w.text) = l /\ w.ipv4 = k + 1
  BY <1>1, <1>6, <1>7, Zenon DEF PartWritten
<1>9. PICK r : r = PartStored(w)
  OBVIOUS
<1>13. Ipv4Byte(q, "dec") = r
  BY <1>4, <1>5, <1>9, Zenon DEF Ipv4Byte, PartStored, PartWrite
<1>10. CASE w.ipv4 < V4Length
  <2>1. r = [w EXCEPT !.state = "ipv4dot"]
    BY <1>9, <1>10, Zenon DEF PartStored
  <2>2. PICK s \in ParserStates : s = "ipv4dot"
    BY DEF ParserStates
  <2>3. /\ r.state = "ipv4dot" /\ r.pos = w.pos /\ r.compress = w.compress /\ r.len = w.len
        /\ r.text = w.text /\ r.in = w.in /\ r.ipv4 = w.ipv4
    BY <1>8, <2>1, <2>2, StateIs
  <2> QED
    BY <1>8, <1>10, <1>13, <2>3, Zenon DEF PartOnWay
<1>11. CASE ~(w.ipv4 < V4Length)
  <2>1. k + 1 = V4Length
    <3>1. ~(k + 1 < W) /\ k < W
      BY <1>2, <1>8, <1>11, Zenon
    <3>2. k + 1 = W
      BY <3>1
    <3> QED
      BY <1>2, <3>2, Zenon
  <2>2. w.pos + 1 = V4Length
    BY <1>8, <2>1, Zenon
  <2>3. r = [w EXCEPT !.state = "end", !.len = V4Length]
    BY <1>8, <1>9, <1>11, <2>2, Zenon DEF PartStored
  <2>4. V4Length \in Int
    BY LengthsAre
  <2>5. LastPart(w, r, V4Length)
    BY <1>8, <2>3, <2>4, LastPartIs, Zenon
  <2> QED
    BY <1>8, <1>13, <2>1, <2>5, Zenon DEF LastPart, PartOnWay
<1> QED
  BY <1>10, <1>11

LEMMA PartOnWayAt ==
  ASSUME NEW r, NEW k \in Nat, NEW l \in Nat, PartOnWay(r, k, l),
         (l = 2 * k + 1 /\ k > 0) \/ (l = 2 /\ k = 0)
  PROVE  AtEnd(r) \/ \E j \in Nat : AtDot(r, j)
<1>1. CASE k + 1 < V4Length /\ r.state = "ipv4dot" /\ r.len = 0 /\ r.ipv4 = k + 1
  <2>1. PICK j \in Nat : j = k + 1
    OBVIOUS
  <2>2. 2 * k + 1 = 2 * j - 1 /\ k = j - 1 /\ 1 <= j
    BY <2>1
  <2>3. r.pos = j - 1 /\ r.in = 2 * j - 1 /\ r.compress = -1 /\ Len(r.text) = l /\ r.in = 2 * k + 1
    BY <2>2, Zenon DEF PartOnWay
  <2>4. l >= 2 /\ (l = 2 * k + 1 \/ (l = 2 /\ 2 * k + 1 = 1))
    OBVIOUS
  <2>5. AtDot(r, j)
    BY <1>1, <2>1, <2>2, <2>3, <2>4, Zenon DEF AtDot
  <2> QED
    BY <2>5
<1>2. CASE k + 1 = V4Length /\ r.state = "end" /\ r.len = V4Length
  <2>1. PICK W \in Nat : W = V4Length /\ W > 1
    BY LengthsAre
  <2>2. 2 * k + 1 = 2 * W - 1 /\ l = 2 * k + 1
    BY <1>2, <2>1
  <2>3. r.in = 2 * k + 1 /\ Len(r.text) = l
    BY Zenon DEF PartOnWay
  <2>4. AtEnd(r)
    BY <1>2, <2>1, <2>2, <2>3, Zenon DEF AtEnd
  <2> QED
    BY <2>4
<1> QED
  BY <1>1, <1>2, Zenon DEF PartOnWay

LEMMA WayV4Byte ==
  ASSUME NEW p, Sound(p), NEW k \in Nat, AtByte(p, k), NEW tok \in Tokens,
         tok = V4Token(p.in + 1)
  PROVE  OnWayV4(ParseStep(p, tok))
<1>1. /\ p.state = "ipv4byte" /\ p.ipv4 = k /\ p.in = 2 * k /\ p.pos = k - 1 /\ k < V4Length
      /\ p.compress = -1 /\ p.len = 0
      /\ Len(p.text) >= 2 /\ (Len(p.text) = p.in \/ (Len(p.text) = 2 /\ p.in = 0))
  BY Zenon DEF AtByte
<1>2. tok = "dec"
  BY <1>1, V4Tokens, ZenonT(60)
<1>3. PICK q : q = ReadToken(p, tok)
  OBVIOUS
<1>4. p.state \notin {"accepted", "rejected"} /\ Len(p.text) \in Nat
  <2>1. p.state \notin {"accepted", "rejected"}
    BY <1>1
  <2> QED
    BY <2>1, RunningIs, Zenon
<1>5. PICK l \in Nat : ReadOnWay(p, q, l) /\ ((l = 2 * k + 1 /\ k > 0) \/ (l = 2 /\ k = 0))
  <2>1. CASE Len(p.text) = p.in
    <3>1. ~(p.in < Len(p.text)) /\ 2 * k + 1 \in Nat /\ k > 0 /\ Len(p.text) + 1 = 2 * k + 1
      BY <1>1, <2>1
    <3>2. ReadOnWay(p, q, 2 * k + 1)
      BY <1>1, <1>3, <1>4, <3>1, ReadingOnWay, Zenon
    <3> QED
      BY <3>1, <3>2, Zenon
  <2>2. CASE Len(p.text) = 2 /\ p.in = 0
    <3>1. p.in < Len(p.text) /\ k = 0 /\ 2 \in Nat
      BY <1>1, <2>2
    <3>2. ReadOnWay(p, q, 2)
      BY <1>1, <1>3, <1>4, <2>2, <3>1, ReadingOnWay, Zenon
    <3> QED
      BY <3>1, <3>2, Zenon
  <2> QED
    BY <1>1, <2>1, <2>2
<1>6. PartOnWay(Ipv4Byte(q, "dec"), k, l)
  BY <1>1, <1>5, PartOnWayIs, Zenon
<1>7. PICK r : r = Ipv4Byte(q, "dec")
  OBVIOUS
<1>8. AtEnd(r) \/ \E j \in Nat : AtDot(r, j)
  BY <1>5, <1>6, <1>7, PartOnWayAt, Zenon
<1>9. OnWayV4(r)
  BY <1>8, AtIsOnWayV4, Zenon
<1>10. ParseStep(p, tok) = Ipv4Byte(q, tok)
  BY <1>1, <1>2, <1>3 DEF ParseStep, ReadToken
<1> QED
  BY <1>2, <1>7, <1>9, <1>10, Zenon

LEMMA WayV4Dot ==
  ASSUME NEW p, Sound(p), NEW k \in Nat, AtDot(p, k), NEW tok \in Tokens,
         tok = V4Token(p.in + 1)
  PROVE  OnWayV4(ParseStep(p, tok))
<1>1. /\ p.state = "ipv4dot" /\ p.ipv4 = k /\ p.in = 2 * k - 1 /\ p.pos = k - 1 /\ 1 <= k
      /\ k < V4Length /\ p.compress = -1 /\ p.len = 0
      /\ Len(p.text) >= 2 /\ (Len(p.text) = p.in \/ (Len(p.text) = 2 /\ p.in = 1))
  BY Zenon DEF AtDot
<1>2. tok = "dot"
  <2>1. (2 * k - 1) + 1 = 2 * k /\ (1 <= k => 0 < k)
    OBVIOUS
  <2> QED
    BY <1>1, <2>1, V4Tokens, Zenon
<1>3. PICK q : q = ReadToken(p, tok)
  OBVIOUS
<1>4. p.state \notin {"accepted", "rejected"} /\ Len(p.text) \in Nat
  <2>1. p.state \notin {"accepted", "rejected"}
    BY <1>1
  <2> QED
    BY <2>1, RunningIs, Zenon
<1>5. ReadOnWay(p, q, 2 * k)
  <2>1. CASE Len(p.text) = p.in
    <3>1. ~(p.in < Len(p.text)) /\ Len(p.text) + 1 = 2 * k
      BY <1>1, <2>1
    <3> QED
      BY <1>1, <1>3, <1>4, <3>1, ReadingOnWay, Zenon
  <2>2. CASE Len(p.text) = 2 /\ p.in = 1
    <3>1. p.in < Len(p.text) /\ Len(p.text) = 2 * k
      BY <1>1, <2>2
    <3> QED
      BY <1>1, <1>3, <1>4, <3>1, ReadingOnWay, Zenon
  <2> QED
    BY <1>1, <2>1, <2>2
<1>6. /\ q \in ParserRecord /\ q.compress = -1 /\ q.pos = k - 1 /\ q.ipv4 = k /\ q.len = 0
      /\ q.in = (2 * k - 1) + 1 /\ Len(q.text) = 2 * k
  BY <1>1, <1>5, Zenon DEF ReadOnWay
<1>7. PICK r : r = [q EXCEPT !.state = "ipv4byte"]
  OBVIOUS
<1>8. /\ r.state = "ipv4byte" /\ r.pos = q.pos /\ r.compress = q.compress
      /\ r.ipv4 = q.ipv4 /\ r.len = q.len /\ r.text = q.text /\ r.in = q.in
  <2>1. PICK s \in ParserStates : s = "ipv4byte"
    BY DEF ParserStates
  <2> QED
    BY <1>6, <1>7, <2>1, StateIs
<1>9. AtByte(r, k)
  <2>1. (2 * k - 1) + 1 = 2 * k /\ 2 * k >= 2
    BY <1>1
  <2> QED
    BY <1>1, <1>6, <1>8, <2>1, Zenon DEF AtByte
<1>10. OnWayV4(r)
  BY <1>9, AtIsOnWayV4, Zenon
<1>11. ParseStep(p, tok) = Ipv4Dot(q, tok)
  BY <1>1, <1>2, <1>3 DEF ParseStep, ReadToken
<1>12. Ipv4Dot(q, tok) = r
  BY <1>2, <1>7, Zenon DEF Ipv4Dot
<1> QED
  BY <1>10, <1>11, <1>12, Zenon

LEMMA WayV4End ==
  ASSUME NEW p, Sound(p), AtEnd(p), NEW tok \in Tokens, tok = V4Token(p.in + 1)
  PROVE  OnWayV4(ParseStep(p, tok))
<1>1. p.state = "end" /\ p.in = 2 * V4Length - 1 /\ p.len = V4Length
  BY Zenon DEF AtEnd
<1>2. tok = "end"
  <2>1. PICK k \in Nat : k = V4Length
    BY LengthsAre
  <2>2. (2 * k - 1) + 1 = 2 * k
    OBVIOUS
  <2> QED
    BY <1>1, <2>1, <2>2, V4Tokens, Zenon
<1>3. PICK q : q = ReadToken(p, tok)
  OBVIOUS
<1>4. p \in ParserRecord /\ p.top < V6Length
  BY Zenon DEF Sound
<1>5. q \in ParserRecord /\ q.len = V4Length
  BY <1>1, <1>3, <1>4, ReadRecord, Zenon DEF SameBut
<1>6. Finish(q) = [q EXCEPT !.state = "accepted"]
  BY <1>5 DEF Finish
<1>7. Finish(q).state = "accepted"
  BY <1>5, <1>6 DEF ParserRecord
<1>8. ParseStep(p, tok) = End(q, tok)
  BY <1>1, <1>2, <1>3 DEF ParseStep, ReadToken
<1>9. End(q, tok) = Finish(q)
  BY <1>2 DEF End
<1> QED
  BY <1>7, <1>8, <1>9, Zenon DEF OnWayV4

LEMMA WayV4 ==
  ASSUME NEW p, Sound(p), AlongV4(p.text) => OnWayV4(p), ~Finished(p), NEW tok \in NextTokens(p),
         AlongV4(ParseStep(p, tok).text)
  PROVE  OnWayV4(ParseStep(p, tok))
<1>1. p.state \notin {"accepted", "rejected"} /\ p.state # "accepted"
  BY Zenon DEF Finished
<1>2. p \in ParserRecord /\ Running(p)
  BY <1>1, RunningIs, Zenon
<1>3. tok \in Tokens
  BY <1>2, NextToken, Zenon
<1>4. p.in <= Len(p.text)
  BY <1>2, Zenon DEF Running
<1>5. AlongV4(p.text) /\ tok = V4Token(p.in + 1)
  BY <1>2, <1>4, NextV4, Zenon
<1>6. \/ AtStart(p) \/ AtField(p) \/ AtEnd(p)
      \/ \E k \in Nat : AtByte(p, k) \/ AtDot(p, k)
  BY <1>1, <1>2, <1>5, OnWayV4Is, Zenon
<1>7. PICK q : q = ReadToken(p, tok)
  OBVIOUS
<1>8. CASE AtStart(p)
  <2>1. p.state = "start" /\ Len(p.text) = 0 /\ p.in = 0 /\ p.compress = -1
    BY <1>8, Zenon DEF AtStart
  <2>2. ~(p.in < Len(p.text)) /\ Len(p.text) + 1 = 1 /\ p.in + 1 = 2 * 0 + 1 /\ 0 \in Nat
    BY <2>1
  <2>3. tok = "dec"
    BY <1>5, <2>2, V4Tokens, Zenon
  <2>4. ReadOnWay(p, q, 1)
    BY <1>1, <1>3, <1>7, <2>1, <2>2, ReadingOnWay, Zenon
  <2>5. AtField(Field(q, "dec"))
    BY <1>8, <2>4, WayV4Start, Zenon
  <2>6. ParseStep(p, tok) = Start(q, tok)
    BY <1>7, <2>1, <2>3 DEF ParseStep, ReadToken
  <2>7. Start(q, tok) = Field(q, tok)
    BY <2>3 DEF Start, Decimals
  <2> QED
    BY <2>3, <2>5, <2>6, <2>7, AtIsOnWayV4, Zenon
<1>9. CASE AtField(p)
  <2>1. p.state = "afterdec" /\ Len(p.text) = 1 /\ p.in = 1 /\ p.compress = -1
    BY <1>9, Zenon DEF AtField
  <2>2. ~(p.in < Len(p.text)) /\ Len(p.text) + 1 = 2 /\ p.in + 1 = 2 * 1 /\ 1 \in Nat /\ 0 < 1
    BY <2>1
  <2>3. tok = "dot"
    <3>1. 1 < V4Length
      BY LengthsAre
    <3> QED
      BY <1>5, <2>2, <3>1, V4Tokens, Zenon
  <2>4. ReadOnWay(p, q, 2)
    BY <1>1, <1>3, <1>7, <2>1, <2>2, ReadingOnWay, Zenon
  <2>5. AtByte(AfterDec(q, "dot"), 0)
    BY <1>9, <2>4, WayV4Unread, Zenon
  <2>6. ParseStep(p, tok) = AfterDec(q, tok)
    BY <1>7, <2>1, <2>3 DEF ParseStep, ReadToken
  <2>7. PICK r, k : k \in Nat /\ AtByte(r, k) /\ r = ParseStep(p, tok)
    <3>1. 0 \in Nat
      OBVIOUS
    <3> QED
      BY <2>3, <2>5, <2>6, <3>1, Zenon
  <2> QED
    BY <2>7, AtIsOnWayV4, Zenon
<1>10. CASE AtEnd(p)
  BY <1>3, <1>5, <1>10, WayV4End, Zenon
<1>11. ASSUME NEW k \in Nat, AtByte(p, k) PROVE OnWayV4(ParseStep(p, tok))
  BY <1>3, <1>5, <1>11, WayV4Byte, Zenon
<1>12. ASSUME NEW k \in Nat, AtDot(p, k) PROVE OnWayV4(ParseStep(p, tok))
  BY <1>3, <1>5, <1>12, WayV4Dot, Zenon
<1> QED
  BY <1>6, <1>8, <1>9, <1>10, <1>11, <1>12, Zenon
-----------------------------------------------------------------------------
(* The parser from its first token to its last.                            *)

LEMMA NoTokens == <<>> \in Seq(Tokens) /\ Len(<<>>) = 0
OBVIOUS

LEMMA EndToken ==
  ASSUME NEW S, "end" \in S
  PROVE  <<"end">> \in Seq(S) /\ Len(<<"end">>) = 1 /\ <<"end">>[1] = "end"
OBVIOUS

LEMMA InitIp == Init => IpInv(ip)
<1> SUFFICES ASSUME Init PROVE IpInv(ip)
  OBVIOUS
<1>1. ip = NewParser
  BY DEF Init
<1>2. PICK e : e = <<>> /\ e \in Seq(Tokens) /\ Len(e) = 0
  BY NoTokens, Zenon
<1>3. /\ ip.state = "start" /\ ip.pos = -1 /\ ip.compress = -1 /\ ip.ipv4 = -1 /\ ip.len = 0
      /\ ip.text = e /\ ip.in = 0 /\ ip.top = -1 /\ ip \in ParserRecord
  BY <1>1, <1>2 DEF NewParser, ParserRecord, ParserStates
<1>4. ip.top < V6Length /\ Bounds(ip) /\ ip.in <= Len(ip.text)
  BY <1>2, <1>3, LengthsAre DEF Bounds
<1>5. Stored(ip)
  <2>1. BytesTo(ip.text, ip.in) = <<>>
    BY <1>3, BytesZero
  <2>2. Len(<<>>) = ip.pos + 1 /\ 1 .. ip.pos + 1 = {}
    BY <1>3
  <2> QED
    BY <2>1, <2>2, Zenon DEF Stored, StoredAt
<1>6. Marked(ip)
  <2>1. Compression(ip.text) = {}
    BY <1>2, <1>3 DEF Compression
  <2> QED
    BY <1>3, <2>1, Zenon DEF Marked
<1>7. Place(ip)
  BY <1>2, <1>3, Zenon DEF Place
<1>8. ip.state \notin {"accepted", "rejected", "end"}
  BY <1>3
<1>9. Sound(ip)
  BY <1>3, <1>4, <1>5, <1>6, <1>7, <1>8, RunningSound, Zenon
<1>10. OnWayV6(ip)
  <2>1. ip.in = Len(ip.text) /\ Len(ip.text) < V6Length /\ Len(ip.text) = 0
    BY <1>2, <1>3, LengthsAre
  <2> QED
    BY <1>3, <2>1, Zenon DEF OnWayV6
<1>11. OnWayV4(ip)
  <2>1. Len(ip.text) = 0
    BY <1>2, <1>3, Zenon
  <2> QED
    BY <1>3, <2>1, Zenon DEF OnWayV4
<1> QED
  BY <1>9, <1>10, <1>11, Zenon DEF IpInv

LEMMA StepIp ==
  ASSUME NEW p, IpInv(p), ~Finished(p), NEW tok \in NextTokens(p)
  PROVE  IpInv(ParseStep(p, tok))
<1>1. Sound(p) /\ (AlongV6(p.text) => OnWayV6(p)) /\ (AlongV4(p.text) => OnWayV4(p))
  BY Zenon DEF IpInv
<1>2. Sound(ParseStep(p, tok))
  BY <1>1, StepSound, Zenon
<1>3. AlongV6(ParseStep(p, tok).text) => OnWayV6(ParseStep(p, tok))
  BY <1>1, WayV6, Zenon
<1>4. AlongV4(ParseStep(p, tok).text) => OnWayV4(ParseStep(p, tok))
  BY <1>1, WayV4, Zenon
<1> QED
  BY <1>2, <1>3, <1>4, Zenon DEF IpInv

(* Only ParseToken gives the parser a token.                               *)
LEMMA OnlyParseToken ==
  ASSUME [Next]_vars
  PROVE  \/ ip' = ip
         \/ ~Finished(ip) /\ \E tok \in NextTokens(ip) : ip' = ParseStep(ip, tok)
<1>1. CASE \E tok \in NextTokens(ip) : ParseToken(tok)
  BY <1>1, Zenon DEF ParseToken
<1>2. CASE UNCHANGED vars
  BY <1>2 DEF vars
<1>3. CASE \E z \in Inputs(cls) : Construct(z)
  BY <1>3 DEF Construct
<1>4. CASE \E z \in Operands(cls) : Operand(z)
  BY <1>4 DEF Operand
<1>5. CASE \E op \in BinaryOps : BinaryCall(op)
  BY <1>5 DEF BinaryCall
<1>6. CASE \E op \in UnaryOps : UnaryCall(op)
  BY <1>6 DEF UnaryCall
<1>7. CASE WriteText \/ WriteWire \/ TellTime
  BY <1>7 DEF WriteText, WriteWire, TellTime
<1>8. CASE \E s \in Seconds, us \in Microseconds : NewTimestamp(s, us)
  BY <1>8 DEF NewTimestamp
<1>9. CASE \E t \in 0 .. LastNs : self # <<>> /\ DateTime(self[1], t)
  BY <1>9 DEF DateTime
<1>10. CASE \E m, d, n \in SomeParam : NewDuration(m, d, n)
  BY <1>10 DEF NewDuration
<1>11. CASE \E bytes \in Blobs : NewBlob(bytes)
  BY <1>11 DEF NewBlob
<1> QED
  BY <1>1, <1>2, <1>3, <1>4, <1>5, <1>6, <1>7, <1>8, <1>9, <1>10, <1>11 DEF Next

LEMMA FormatV6 ==
  ASSUME NEW text, text = php_driver_format_address(V6Length) \o <<"end">>
  PROVE  AlongV6(text)
<1>1. PICK V \in Nat : V = V6Length /\ V > V4Length /\ V - 1 \in Nat
  BY LengthsAre
<1>2. PICK s : s = [i \in 1 .. V - 1 |-> IF i % 2 = 1 THEN "hex" ELSE "colon"]
  OBVIOUS
<1>3. s \in Seq({"hex", "colon", "end"}) /\ Len(s) = V - 1
  BY <1>1, <1>2
<1>4. text = s \o <<"end">>
  BY <1>1, <1>2 DEF php_driver_format_address
<1>5. PICK S, e : /\ S = {"hex", "colon", "end"} /\ e = <<"end">> /\ e \in Seq(S) /\ Len(e) = 1
                  /\ e[1] = "end" /\ s \in Seq(S)
  <2>1. PICK S : S = {"hex", "colon", "end"} /\ "end" \in S
    OBVIOUS
  <2> QED
    BY <1>3, <2>1, EndToken, Zenon
<1>6. /\ Len(s \o e) = Len(s) + Len(e)
      /\ \A i \in 1 .. Len(s) + Len(e) : (s \o e)[i] = IF i <= Len(s) THEN s[i] ELSE e[i - Len(s)]
  BY <1>5, ConcatProperties, Zenon
<1>7. Len(text) = (V - 1) + 1
  BY <1>3, <1>4, <1>5, <1>6, Zenon
<1>8. ASSUME NEW i \in 1 .. V PROVE text[i] = V6Token(i)
  <2>1. i \in 1 .. (V - 1) + 1
    BY <1>1
  <2>2. text[i] = IF i <= V - 1 THEN s[i] ELSE e[i - (V - 1)]
    BY <1>3, <1>4, <1>5, <1>6, <2>1, Zenon
  <2>3. CASE i = V
    <3>1. ~(i <= V - 1) /\ i - (V - 1) = 1
      BY <1>1, <2>3
    <3> QED
      BY <1>1, <1>5, <2>2, <2>3, <3>1, Zenon DEF V6Token
  <2>4. CASE i # V
    <3>1. i <= V - 1 /\ i \in 1 .. V - 1
      BY <1>1, <2>4
    <3>2. text[i] = IF i % 2 = 1 THEN "hex" ELSE "colon"
      BY <1>2, <2>2, <3>1, Zenon
    <3> QED
      BY <1>1, <2>4, <3>2, Zenon DEF V6Token
  <2> QED
    BY <2>3, <2>4
<1>9. (V - 1) + 1 = V /\ V <= V
  BY <1>1
<1> QED
  BY <1>1, <1>7, <1>8, <1>9, Zenon DEF AlongV6

LEMMA FormatV4 ==
  ASSUME NEW text, text = php_driver_format_address(V4Length) \o <<"end">>
  PROVE  AlongV4(text)
<1>1. PICK W \in Nat : W = 2 * V4Length /\ W - 1 \in Nat /\ ~(V4Length > V4Length)
  BY LengthsAre
<1>2. PICK s : s = [i \in 1 .. W - 1 |-> IF i % 2 = 1 THEN "dec" ELSE "dot"]
  OBVIOUS
<1>3. s \in Seq({"dec", "dot", "end"}) /\ Len(s) = W - 1
  BY <1>1, <1>2
<1>4. text = s \o <<"end">>
  BY <1>1, <1>2, Zenon DEF php_driver_format_address
<1>5. PICK S, e : /\ S = {"dec", "dot", "end"} /\ e = <<"end">> /\ e \in Seq(S) /\ Len(e) = 1
                  /\ e[1] = "end" /\ s \in Seq(S)
  <2>1. PICK S : S = {"dec", "dot", "end"} /\ "end" \in S
    OBVIOUS
  <2> QED
    BY <1>3, <2>1, EndToken, Zenon
<1>6. /\ Len(s \o e) = Len(s) + Len(e)
      /\ \A i \in 1 .. Len(s) + Len(e) : (s \o e)[i] = IF i <= Len(s) THEN s[i] ELSE e[i - Len(s)]
  BY <1>5, ConcatProperties, Zenon
<1>7. Len(text) = (W - 1) + 1
  BY <1>3, <1>4, <1>5, <1>6, Zenon
<1>8. ASSUME NEW i \in 1 .. W PROVE text[i] = V4Token(i)
  <2>1. i \in 1 .. (W - 1) + 1
    BY <1>1
  <2>2. text[i] = IF i <= W - 1 THEN s[i] ELSE e[i - (W - 1)]
    BY <1>3, <1>4, <1>5, <1>6, <2>1, Zenon
  <2>3. CASE i = W
    <3>1. ~(i <= W - 1) /\ i - (W - 1) = 1
      BY <1>1, <2>3
    <3> QED
      BY <1>1, <1>5, <2>2, <2>3, <3>1, Zenon DEF V4Token
  <2>4. CASE i # W
    <3>1. i <= W - 1 /\ i \in 1 .. W - 1
      BY <1>1, <2>4
    <3>2. text[i] = IF i % 2 = 1 THEN "dec" ELSE "dot"
      BY <1>2, <2>2, <3>1, Zenon
    <3> QED
      BY <1>1, <2>4, <3>2, Zenon DEF V4Token
  <2> QED
    BY <2>3, <2>4
<1>9. (W - 1) + 1 = W /\ W <= W
  BY <1>1
<1> QED
  BY <1>1, <1>7, <1>8, <1>9, Zenon DEF AlongV4

(* What is rejected is no text php_driver_format_address writes.           *)
LEMMA InvAddress == IpInv(ip) => AddressAsWritten
<1> SUFFICES ASSUME IpInv(ip) PROVE AddressAsWritten
  OBVIOUS
<1>1. Sound(ip) /\ (AlongV6(ip.text) => OnWayV6(ip)) /\ (AlongV4(ip.text) => OnWayV4(ip))
  BY Zenon DEF IpInv
<1>2. ip.top < V6Length
  BY <1>1, Zenon DEF Sound
<1>3. ip.state = "accepted" => [i \in 1 .. ip.len |-> ip.addr[i - 1]] = Spelling(ip.text)
  BY <1>1, Zenon DEF Sound, AsWritten
<1>4. ASSUME ip.state = "rejected", NEW n \in {V4Length, V6Length},
             ip.text = php_driver_format_address(n) \o <<"end">>
      PROVE  FALSE
  <2>1. CASE n = V6Length
    <3>1. OnWayV6(ip)
      BY <1>1, <1>4, <2>1, FormatV6, Zenon
    <3> QED
      BY <1>4, <3>1 DEF OnWayV6
  <2>2. CASE n = V4Length
    <3>1. OnWayV4(ip)
      BY <1>1, <1>4, <2>2, FormatV4, Zenon
    <3> QED
      BY <1>4, <3>1 DEF OnWayV4
  <2> QED
    BY <2>1, <2>2
<1> QED
  BY <1>2, <1>3, <1>4 DEF AddressAsWritten

(* Inet's constructor: for every text, given one token after the other,    *)
(* php_driver_parse_ip_address writes inside the address only, what it     *)
(* accepts is stored as it was written, a dotted quad at the end and the   *)
(* zeros in the place of "::" included, and it rejects no text that        *)
(* php_driver_format_address writes.                                       *)
THEOREM AddressesAsWritten == Spec => []AddressAsWritten
<1>1. Init => IpInv(ip)
  BY InitIp
<1>2. IpInv(ip) /\ [Next]_vars => IpInv(ip)'
  <2> SUFFICES ASSUME IpInv(ip), [Next]_vars PROVE IpInv(ip')
    OBVIOUS
  <2>1. CASE ip' = ip
    BY <2>1, Zenon
  <2>2. CASE ~Finished(ip) /\ \E tok \in NextTokens(ip) : ip' = ParseStep(ip, tok)
    BY <2>2, StepIp, Zenon
  <2> QED
    BY <2>1, <2>2, OnlyParseToken
<1>3. IpInv(ip) => AddressAsWritten
  BY InvAddress
<1> QED
  BY <1>1, <1>2, <1>3, PTL DEF Spec

=============================================================================
