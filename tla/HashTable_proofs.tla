-------------------------- MODULE HashTable_proofs --------------------------
(***************************************************************************)
(* The table of Set and Map is well formed, and for keys whose class       *)
(* hashes and compares them it implements a set of values: for any keys,   *)
(* any number of entries and buckets, and any threshold of expansion.      *)
(***************************************************************************)
EXTENDS HashTable, FiniteSetTheorems, TLAPS

-----------------------------------------------------------------------------
(* Division.                                                               *)

(* The remainder of a division.                                            *)
LEMMA ModIs ==
  ASSUME NEW a \in Nat, NEW n \in Nat \ {0}
  PROVE  a % n \in 0 .. n - 1 /\ a = n * (a \div n) + (a % n) /\ a \div n \in Nat
OBVIOUS

(* It is the only one.                                                     *)
LEMMA ModUnique ==
  ASSUME NEW a \in Nat, NEW n \in Nat \ {0}, NEW q \in Nat, NEW r \in 0 .. n - 1,
         a = n * q + r
  PROVE  a % n = r
OBVIOUS

(* An entry of bucket b among 2n comes from the bucket of b among n: what  *)
(* HASH_EXPAND_BUCKETS puts into a new chain was in one old chain.         *)
LEMMA ModHalf ==
  ASSUME NEW h \in Nat, NEW n \in Nat \ {0}
  PROVE  (h % (2 * n)) % n = h % n
<1>1. PICK m \in Nat \ {0} : m = 2 * n
  OBVIOUS
<1> DEFINE r == h % m
           q == h \div m
<1>2. r \in Nat /\ q \in Nat /\ h = m * q + r
  <2>1. r \in 0 .. m - 1 /\ q \in Nat /\ h = m * q + r
    BY ModIs
  <2> QED
    BY <2>1
<1> HIDE DEF r, q
<1> DEFINE s == r % n
           p == r \div n
<1>3. s \in 0 .. n - 1 /\ p \in Nat /\ r = n * p + s
  BY <1>2, ModIs
<1> HIDE DEF s, p
<1>4. m * q = n * (2 * q) /\ 2 * q \in Nat
  BY <1>1, <1>2
<1>5. n * (2 * q) + n * p = n * (2 * q + p)
  BY <1>3, <1>4
<1>6. h = n * (2 * q + p) + s
  BY <1>2, <1>3, <1>4, <1>5
<1>7. 2 * q + p \in Nat
  BY <1>3, <1>4
<1>8. h % n = s
  BY <1>3, <1>6, <1>7, ModUnique
<1> QED
  BY <1>1, <1>8 DEF s, r

(* Bucket is an index of the buckets.                                      *)
LEMMA BucketIn ==
  ASSUME NEW n \in Nat \ {0}, NEW h \in Nat
  PROVE  Bucket(n, h) \in 1 .. n
<1>1. h % n \in 0 .. n - 1
  BY ModIs
<1> QED
  BY <1>1 DEF Bucket

(* Where an entry of bucket b is before an expansion to 2n buckets.        *)
LEMMA BucketHalf ==
  ASSUME NEW n \in Nat \ {0}, NEW h \in Nat
  PROVE  Bucket(n, Bucket(2 * n, h) - 1) = Bucket(n, h)
<1>1. 2 * n \in Nat \ {0} /\ h % (2 * n) \in Nat
  <2>1. 2 * n \in Nat \ {0}
    OBVIOUS
  <2> QED
    BY <2>1, ModIs
<1>2. Bucket(2 * n, h) - 1 = h % (2 * n)
  BY <1>1 DEF Bucket
<1> QED
  BY <1>2, ModHalf DEF Bucket

-----------------------------------------------------------------------------
(* Least elements.                                                         *)

(* A set of natural numbers that is not empty has a least element.         *)
LEMMA FirstOf ==
  ASSUME NEW S \in SUBSET Nat, S # {}
  PROVE  \E i \in S : \A j \in S : i <= j
<1> DEFINE R == {ss \in Nat \X Nat : ss[1] < ss[2]}
<1>1. PICK x \in S : \A y \in S : ~(<<y, x>> \in R)
  <2>1. IsWellFoundedOn(R, Nat)
    BY NatLessThanWellFounded DEF OpToRel
  <2> HIDE DEF R
  <2> QED
    BY <2>1, WFMin
<1>2. ASSUME NEW y \in S PROVE x <= y
  <2>1. <<y, x>> \in Nat \X Nat /\ <<y, x>>[1] = y /\ <<y, x>>[2] = x
    OBVIOUS
  <2>2. y < x => <<y, x>> \in R
    BY <2>1
  <2> QED
    BY <1>1, <2>2
<1> QED
  BY <1>2

-----------------------------------------------------------------------------
(* Chains.                                                                 *)

(* What is known of a chain or list without repetition.                    *)
Chain(s, S) == s \in Seq(Entry) /\ IsInjective(s) /\ Range(s) = S

(* The elements of a chain, one by one.                                    *)
LEMMA ChainIs ==
  ASSUME NEW s \in Seq(Entry), NEW S
  PROVE  Chain(s, S) <=> /\ \A i, j \in 1 .. Len(s) : s[i] = s[j] => i = j
                         /\ \A i \in 1 .. Len(s) : s[i] \in S
                         /\ \A e \in S : \E i \in 1 .. Len(s) : s[i] = e
<1>1. DOMAIN s = 1 .. Len(s)
  OBVIOUS
<1>2. IsInjective(s) <=> \A i, j \in 1 .. Len(s) : s[i] = s[j] => i = j
  BY <1>1 DEF IsInjective
<1>3. Range(s) = {s[i] : i \in 1 .. Len(s)}
  BY <1>1 DEF Range
<1> QED
  BY <1>2, <1>3 DEF Chain

(* The empty chain.                                                        *)
LEMMA ChainEmpty ==
  /\ Chain(<<>>, {})
  /\ \A s \in Seq(Entry) : \A S : Chain(s, S) => (s = <<>> <=> S = {})
<1>1. <<>> \in Seq(Entry) /\ Len(<<>>) = 0 /\ \A i \in 1 .. 0 : FALSE
  OBVIOUS
<1>2. Chain(<<>>, {})
  BY <1>1, ChainIs
<1>3. ASSUME NEW s \in Seq(Entry), NEW S, Chain(s, S) PROVE s = <<>> <=> S = {}
  <2>1. s # <<>> => 1 \in 1 .. Len(s)
    OBVIOUS
  <2>2. s = <<>> => \A i \in 1 .. Len(s) : FALSE
    BY <1>1
  <2> QED
    BY <1>3, <2>1, <2>2, ChainIs
<1> QED
  BY <1>2, <1>3

(* A new entry at the end of the list.                                     *)
LEMMA ChainAppend ==
  ASSUME NEW s, NEW S, Chain(s, S), NEW e \in Entry, e \notin S
  PROVE  Chain(Append(s, e), S \cup {e})
<1> DEFINE r == Append(s, e)
<1>0. /\ s \in Seq(Entry)
      /\ \A i, j \in 1 .. Len(s) : s[i] = s[j] => i = j
      /\ \A i \in 1 .. Len(s) : s[i] \in S
      /\ \A f \in S : \E i \in 1 .. Len(s) : s[i] = f
  <2>1. s \in Seq(Entry)
    BY DEF Chain
  <2> QED
    BY <2>1, ChainIs
<1>1. /\ r \in Seq(Entry) /\ Len(r) = Len(s) + 1 /\ Len(s) \in Nat
      /\ \A i \in 1 .. Len(s) : r[i] = s[i]
      /\ r[Len(s) + 1] = e
  BY <1>0
<1> HIDE DEF r
<1>2. \A i \in 1 .. Len(r) : i \in 1 .. Len(s) \/ i = Len(s) + 1
  BY <1>1
<1>3. \A i \in 1 .. Len(s) : i \in 1 .. Len(r)
  BY <1>1
<1>4. \A i, j \in 1 .. Len(r) : r[i] = r[j] => i = j
  BY <1>0, <1>1, <1>2
<1>5. \A i \in 1 .. Len(r) : r[i] \in S \cup {e}
  BY <1>0, <1>1, <1>2
<1>6. \A f \in S \cup {e} : \E i \in 1 .. Len(r) : r[i] = f
  <2>1. Len(s) + 1 \in 1 .. Len(r)
    BY <1>1
  <2> QED
    BY <1>0, <1>1, <1>3, <2>1
<1> QED
  BY <1>1, <1>4, <1>5, <1>6, ChainIs DEF r

(* A new entry at the head of its chain.                                   *)
LEMMA ChainPrepend ==
  ASSUME NEW s, NEW S, Chain(s, S), NEW e \in Entry, e \notin S
  PROVE  Chain(<<e>> \o s, S \cup {e})
<1> DEFINE r == <<e>> \o s
<1>0. /\ s \in Seq(Entry)
      /\ \A i, j \in 1 .. Len(s) : s[i] = s[j] => i = j
      /\ \A i \in 1 .. Len(s) : s[i] \in S
      /\ \A f \in S : \E i \in 1 .. Len(s) : s[i] = f
  <2>1. s \in Seq(Entry)
    BY DEF Chain
  <2> QED
    BY <2>1, ChainIs
<1>1. /\ r \in Seq(Entry) /\ Len(r) = Len(s) + 1 /\ Len(s) \in Nat
      /\ \A i \in 1 .. Len(s) : r[i + 1] = s[i]
      /\ r[1] = e
  BY <1>0
<1> HIDE DEF r
<1>2. \A i \in 1 .. Len(r) : i = 1 \/ (i - 1 \in 1 .. Len(s) /\ r[i] = s[i - 1])
  <2> SUFFICES ASSUME NEW i \in 1 .. Len(r), i # 1
               PROVE  i - 1 \in 1 .. Len(s) /\ r[i] = s[i - 1]
    OBVIOUS
  <2>1. i - 1 \in 1 .. Len(s) /\ (i - 1) + 1 = i
    BY <1>1
  <2> QED
    BY <1>1, <2>1
<1>3. \A i \in 1 .. Len(s) : i + 1 \in 1 .. Len(r)
  BY <1>1
<1>4. ASSUME NEW i \in 1 .. Len(r), NEW j \in 1 .. Len(r), r[i] = r[j] PROVE i = j
  <2>1. \A k \in 1 .. Len(r) : k # 1 => r[k] \in S
    BY <1>0, <1>2
  <2>2. CASE i = 1 \/ j = 1
    BY <1>1, <1>4, <2>1, <2>2
  <2>3. CASE i # 1 /\ j # 1
    <3>1. i - 1 = j - 1
      BY <1>0, <1>2, <1>4, <2>3
    <3> QED
      BY <3>1
  <2> QED
    BY <2>2, <2>3
<1>5. \A i \in 1 .. Len(r) : r[i] \in S \cup {e}
  BY <1>0, <1>1, <1>2
<1>6. \A f \in S \cup {e} : \E i \in 1 .. Len(r) : r[i] = f
  <2>1. 1 \in 1 .. Len(r) /\ r[1] = e
    BY <1>1
  <2>2. ASSUME NEW f \in S PROVE \E i \in 1 .. Len(r) : r[i] = f
    <3>1. PICK j \in 1 .. Len(s) : s[j] = f
      BY <1>0
    <3>2. r[j + 1] = f /\ j + 1 \in 1 .. Len(r)
      BY <1>1, <1>3, <3>1
    <3> QED
      BY <3>2, Zenon
  <2> QED
    BY <2>1, <2>2, Zenon
<1> QED
  BY <1>1, <1>4, <1>5, <1>6, ChainIs DEF r

(* One sequence behind another.                                            *)
LEMMA ConcatIs ==
  ASSUME NEW A \in Seq(Entry), NEW B \in Seq(Entry)
  PROVE  /\ A \o B \in Seq(Entry) /\ Len(A \o B) = Len(A) + Len(B)
         /\ \A i \in 1 .. Len(A \o B) :
              (A \o B)[i] = IF i <= Len(A) THEN A[i] ELSE B[i - Len(A)]
OBVIOUS

(* HASH_DELETE unlinks an entry from its list or chain.                    *)
LEMMA ChainRemove ==
  ASSUME NEW s, NEW S, Chain(s, S), NEW e \in S
  PROVE  /\ Chain(RemoveFirst(s, e), S \ {e})
         /\ Len(RemoveFirst(s, e)) = Len(s) - 1
<1>0. /\ s \in Seq(Entry)
      /\ \A i, j \in 1 .. Len(s) : s[i] = s[j] => i = j
      /\ \A i \in 1 .. Len(s) : s[i] \in S
      /\ \A f \in S : \E i \in 1 .. Len(s) : s[i] = f
  <2>1. s \in Seq(Entry)
    BY DEF Chain
  <2> QED
    BY <2>1, ChainIs
<1>1. PICK k \in 1 .. Len(s) : s[k] = e
  BY <1>0
<1> DEFINE r == SubSeq(s, 1, k - 1) \o SubSeq(s, k + 1, Len(s))
<1>2. RemoveFirst(s, e) = r
  <2> DEFINE I == {i \in 1 .. Len(s) : s[i] = e}
  <2>1. I = {k}
    BY <1>0, <1>1
  <2>2. k \in Int /\ \A x \in I : (\A y \in I : x =< y) <=> x = k
    BY <2>1
  <2>3. (CHOOSE x \in I : \A y \in I : x =< y) = k
    BY <2>1, <2>2
  <2>4. RemoveFirst(s, e) = RemoveAt(s, CHOOSE x \in I : \A y \in I : x =< y)
    BY <1>1, <2>1 DEF RemoveFirst, SelectInSeq, Min
  <2> QED
    BY <2>3, <2>4 DEF RemoveAt
<1>3. /\ r \in Seq(Entry) /\ Len(r) = Len(s) - 1 /\ Len(s) \in Nat
      /\ \A i \in 1 .. Len(r) : r[i] = IF i < k THEN s[i] ELSE s[i + 1]
  <2> DEFINE A == SubSeq(s, 1, k - 1)
             B == SubSeq(s, k + 1, Len(s))
  <2>1. A \in Seq(Entry) /\ Len(A) = k - 1 /\ \A i \in 1 .. k - 1 : A[i] = s[i]
    BY <1>0, <1>1
  <2>2. B \in Seq(Entry) /\ Len(B) = Len(s) - k /\ \A i \in 1 .. Len(s) - k : B[i] = s[i + k]
    <3>1. Len(s) \in Nat /\ k \in Nat /\ k + 1 \in 1 .. Len(s) + 1
      BY <1>0, <1>1
    <3>2. B = [i \in 1 .. (1 + Len(s) - (k + 1)) |-> s[i + (k + 1) - 1]]
      BY <1>0, <3>1
    <3>3. 1 + Len(s) - (k + 1) = Len(s) - k /\ \A i \in 1 .. Len(s) - k : i + (k + 1) - 1 = i + k
      BY <3>1
    <3>4. \A i \in 1 .. Len(s) - k : i + k \in 1 .. Len(s) /\ s[i + k] \in Entry
      BY <1>0, <3>1
    <3>5. B = [i \in 1 .. Len(s) - k |-> s[i + k]]
      BY <3>2, <3>3
    <3>6. Len(s) - k \in Nat
      BY <1>0, <1>1
    <3> DEFINE m == Len(s) - k
    <3>7. m \in Nat /\ B = [i \in 1 .. m |-> s[i + k]] /\ \A i \in 1 .. m : s[i + k] \in Entry
      BY <3>4, <3>5, <3>6
    <3> HIDE DEF B, m
    <3>8. B \in Seq(Entry) /\ Len(B) = m /\ \A i \in 1 .. m : B[i] = s[i + k]
      BY <3>7
    <3> QED
      BY <3>8 DEF m
  <2> HIDE DEF A, B
  <2>3. r = A \o B
    BY DEF A, B
  <2> HIDE DEF r
  <2>4. k \in Nat /\ Len(s) \in Nat /\ 1 <= k /\ k <= Len(s)
    BY <1>0, <1>1
  <2>5. /\ r \in Seq(Entry) /\ Len(r) = Len(A) + Len(B)
        /\ \A i \in 1 .. Len(r) : r[i] = IF i <= Len(A) THEN A[i] ELSE B[i - Len(A)]
    <3>1. A \in Seq(Entry) /\ B \in Seq(Entry)
      BY <2>1, <2>2
    <3> QED
      BY <2>3, <3>1, ConcatIs
  <2>6. Len(r) = Len(s) - 1
    BY <2>1, <2>2, <2>4, <2>5
  <2>7. ASSUME NEW i \in 1 .. Len(r) PROVE r[i] = IF i < k THEN s[i] ELSE s[i + 1]
    <3>1. CASE i < k
      BY <2>1, <2>4, <2>5, <2>6, <3>1
    <3>2. CASE ~(i < k)
      <4>1. i - Len(A) \in 1 .. Len(s) - k /\ (i - Len(A)) + k = i + 1 /\ ~(i <= Len(A))
        BY <2>1, <2>4, <2>6, <3>2
      <4> QED
        BY <2>2, <2>5, <3>2, <4>1
    <3> QED
      BY <3>1, <3>2
  <2> QED
    BY <2>4, <2>5, <2>6, <2>7
<1> HIDE DEF r
<1> DEFINE at(i) == IF i < k THEN i ELSE i + 1
<1>4. /\ \A i \in 1 .. Len(r) : at(i) \in 1 .. Len(s) /\ r[i] = s[at(i)] /\ at(i) # k
      /\ \A i, j \in 1 .. Len(r) : at(i) = at(j) => i = j
      /\ \A m \in 1 .. Len(s) : m # k => \E i \in 1 .. Len(r) : at(i) = m
  <2>1. ASSUME NEW i \in 1 .. Len(r)
        PROVE  at(i) \in 1 .. Len(s) /\ r[i] = s[at(i)] /\ at(i) # k
    BY <1>1, <1>3
  <2>2. ASSUME NEW i \in 1 .. Len(r), NEW j \in 1 .. Len(r), at(i) = at(j) PROVE i = j
    BY <1>1, <1>3, <2>2
  <2>3. ASSUME NEW m \in 1 .. Len(s), m # k PROVE \E i \in 1 .. Len(r) : at(i) = m
    <3>1. CASE m < k
      <4>1. m \in 1 .. Len(r) /\ at(m) = m
        BY <1>1, <1>3, <3>1
      <4> QED
        BY <4>1
    <3>2. CASE m > k
      <4>1. m - 1 \in 1 .. Len(r) /\ at(m - 1) = m
        BY <1>1, <1>3, <3>2
      <4> QED
        BY <4>1
    <3> QED
      BY <1>1, <2>3, <3>1, <3>2
  <2> QED
    BY <2>1, <2>2, <2>3
<1> HIDE DEF at
<1>5. \A i, j \in 1 .. Len(r) : r[i] = r[j] => i = j
  BY <1>0, <1>4, SMTT(30)
<1>6. \A i \in 1 .. Len(r) : r[i] \in S \ {e}
  BY <1>0, <1>1, <1>4
<1>7. ASSUME NEW f \in S \ {e} PROVE \E i \in 1 .. Len(r) : r[i] = f
  <2>1. PICK m \in 1 .. Len(s) : s[m] = f
    BY <1>0
  <2>2. m # k
    BY <1>1, <2>1
  <2>3. PICK i \in 1 .. Len(r) : at(i) = m
    BY <1>4, <2>2
  <2> QED
    BY <1>4, <2>1, <2>3
<1> QED
  BY <1>2, <1>3, <1>5, <1>6, <1>7, ChainIs

(* How many of the indexes I come after i.                                 *)
After(I, i) == {j \in I : j > i}

(* Counting from the end, every index has its own number.                  *)
LEMMA AfterCounts ==
  ASSUME NEW I \in SUBSET Nat, IsFiniteSet(I)
  PROVE  LET f == [i \in I |-> Cardinality(After(I, i)) + 1]
         IN /\ Cardinality(I) \in Nat
            /\ f \in [I -> 1 .. Cardinality(I)]
            /\ \A i, j \in I : f[i] = f[j] => i = j
            /\ \A k \in 1 .. Cardinality(I) : \E i \in I : f[i] = k
<1> DEFINE n == Cardinality(I)
           f == [i \in I |-> Cardinality(After(I, i)) + 1]
<1>1. n \in Nat
  BY FS_CardinalityType
<1>2. ASSUME NEW i \in I
      PROVE  /\ After(I, i) \in SUBSET I /\ IsFiniteSet(After(I, i))
             /\ Cardinality(After(I, i)) \in Nat /\ Cardinality(After(I, i)) < n
  <2>1. After(I, i) \in SUBSET I /\ i \notin After(I, i)
    BY DEF After
  <2>2. /\ IsFiniteSet(After(I, i)) /\ Cardinality(After(I, i)) <= n
        /\ n = Cardinality(After(I, i)) => I = After(I, i)
    BY <2>1, FS_Subset
  <2>3. Cardinality(After(I, i)) \in Nat
    BY <2>2, FS_CardinalityType
  <2> QED
    BY <1>1, <2>1, <2>2, <2>3
<1>3. f \in [I -> 1 .. n]
  <2>1. \A i \in I : Cardinality(After(I, i)) + 1 \in 1 .. n
    BY <1>1, <1>2
  <2> QED
    BY <2>1
<1>4. ASSUME NEW i \in I, NEW j \in I, i < j,
             Cardinality(After(I, i)) = Cardinality(After(I, j))
      PROVE  FALSE
  <2>1. After(I, j) \in SUBSET After(I, i) /\ j \in After(I, i) /\ j \notin After(I, j)
    <3>1. i \in Nat /\ j \in Nat /\ ~(j > j) /\ \A k \in I : k \in Nat
      OBVIOUS
    <3>2. j > i /\ \A k \in I : k > j => k > i
      BY <1>4, <3>1
    <3> QED
      BY <3>1, <3>2 DEF After
  <2>2. After(I, i) = After(I, j)
    BY <1>2, <1>4, <2>1, FS_Subset
  <2> QED
    BY <2>1, <2>2
<1>5. \A i, j \in I : f[i] = f[j] => i = j
  <2> SUFFICES ASSUME NEW i \in I, NEW j \in I, f[i] = f[j] PROVE i = j
    OBVIOUS
  <2>1. Cardinality(After(I, i)) = Cardinality(After(I, j))
    BY <1>2
  <2>2. i \in Nat /\ j \in Nat /\ ~(i < j) /\ ~(j < i)
    BY <1>4, <2>1
  <2> QED
    BY <2>2
<1> HIDE DEF f
<1>6. f \in Injection(I, 1 .. n)
  BY <1>3, <1>5 DEF Injection, IsInjective
<1>7. IsFiniteSet(1 .. n) /\ Cardinality(1 .. n) = n
  BY <1>1, FS_Interval
<1>8. f \in Surjection(I, 1 .. n)
  <2> DEFINE T == 1 .. n
  <2>1. f \in Injection(I, T) /\ IsFiniteSet(T) /\ Cardinality(I) = Cardinality(T)
    BY <1>6, <1>7
  <2> HIDE DEF T
  <2>2. f \in Surjection(I, T)
    BY <2>1, FS_Injection
  <2> QED
    BY <2>2 DEF T
<1>9. \A k \in 1 .. n : \E i \in I : f[i] = k
  BY <1>8 DEF Surjection
<1> QED
  BY <1>1, <1>3, <1>5, <1>9 DEF f

(* What HASH_EXPAND_BUCKETS takes from a chain for one of its new chains.  *)
LEMMA ChainTaken ==
  ASSUME NEW s, NEW S, Chain(s, S), NEW I \in SUBSET (1 .. Len(s))
  PROVE  Chain(TakenFromHead(s, I), {s[i] : i \in I})
<1>0. s \in Seq(Entry) /\ \A i, j \in 1 .. Len(s) : s[i] = s[j] => i = j
  <2>1. s \in Seq(Entry)
    BY DEF Chain
  <2> QED
    BY <2>1, ChainIs
<1>1. I \in SUBSET Nat /\ IsFiniteSet(I) /\ Len(s) \in Nat
  <2>1. Len(s) \in Nat
    BY <1>0
  <2>2. IsFiniteSet(1 .. Len(s)) /\ 1 .. Len(s) \subseteq Nat
    BY <2>1, FS_Interval
  <2> QED
    BY <2>1, <2>2, FS_Subset
<1> DEFINE n == Cardinality(I)
           f == [i \in I |-> Cardinality(After(I, i)) + 1]
           at(k) == CHOOSE i \in I : Cardinality({j \in I : j > i}) = k - 1
           r == TakenFromHead(s, I)
<1>2. /\ n \in Nat /\ f \in [I -> 1 .. n]
      /\ \A i, j \in I : f[i] = f[j] => i = j
      /\ \A k \in 1 .. n : \E i \in I : f[i] = k
  BY <1>1, AfterCounts
<1>3. \A i \in I : Cardinality(After(I, i)) \in Nat
  BY <1>1, FS_Subset, FS_CardinalityType DEF After
<1>4. ASSUME NEW k \in 1 .. n PROVE at(k) \in I /\ f[at(k)] = k
  <2>1. PICK i \in I : f[i] = k
    BY <1>2
  <2>2. Cardinality({j \in I : j > i}) = k - 1
    <3>1. Cardinality(After(I, i)) + 1 = k /\ Cardinality(After(I, i)) \in Nat
      BY <1>3, <2>1
    <3>2. Cardinality(After(I, i)) = k - 1
      BY <3>1
    <3> QED
      BY <3>2 DEF After
  <2>3. at(k) \in I /\ Cardinality({j \in I : j > at(k)}) = k - 1
    BY <2>2
  <2> HIDE DEF at
  <2>4. Cardinality(After(I, at(k))) = k - 1
    BY <2>3 DEF After
  <2>5. f[at(k)] = (k - 1) + 1
    BY <2>3, <2>4
  <2> QED
    BY <1>2, <2>3, <2>5
<1>5. r = [k \in 1 .. n |-> s[at(k)]]
  BY DEF TakenFromHead
<1> HIDE DEF at, f, r, n
<1>6. \A k \in 1 .. n : at(k) \in I /\ at(k) \in 1 .. Len(s) /\ f[at(k)] = k
                          /\ s[at(k)] \in Entry
  <2>1. \A i \in 1 .. Len(s) : s[i] \in Entry
    BY <1>0
  <2> QED
    BY <1>4, <2>1
<1>7. r \in Seq(Entry) /\ Len(r) = n /\ \A k \in 1 .. n : r[k] = s[at(k)]
  BY <1>2, <1>5, <1>6
<1>8. \A k, l \in 1 .. Len(r) : r[k] = r[l] => k = l
  <2> SUFFICES ASSUME NEW k \in 1 .. n, NEW l \in 1 .. n, r[k] = r[l] PROVE k = l
    BY <1>7
  <2>1. at(k) = at(l)
    BY <1>0, <1>6, <1>7, SMTT(30)
  <2> QED
    BY <1>6, <2>1
<1>9. \A k \in 1 .. Len(r) : r[k] \in {s[i] : i \in I}
  BY <1>4, <1>7
<1>10. \A e \in {s[i] : i \in I} : \E k \in 1 .. Len(r) : r[k] = e
  <2> SUFFICES ASSUME NEW i \in I PROVE \E k \in 1 .. Len(r) : r[k] = s[i]
    OBVIOUS
  <2>1. f[i] \in 1 .. n /\ f[at(f[i])] = f[i] /\ at(f[i]) \in I
    BY <1>2, <1>4
  <2>2. at(f[i]) = i
    BY <1>2, <2>1
  <2> QED
    BY <1>7, <2>1, <2>2
<1> QED
  BY <1>7, <1>8, <1>9, <1>10, ChainIs DEF r

-----------------------------------------------------------------------------
(* Tables.                                                                 *)

(* The entries S, with their hashes, are in the chains B they belong to.   *)
WellFormed(B, S, hs) ==
  /\ B \in Seq(Seq(Entry)) /\ Len(B) > 0
  /\ \A b \in 1 .. Len(B) : Chain(B[b], {e \in S : Bucket(Len(B), hs[e]) = b})

(* A new table has empty chains.                                           *)
LEMMA MakeTable ==
  ASSUME NEW hs
  PROVE  WellFormed(HASH_MAKE_TABLE.buckets, {}, hs)
<1> DEFINE n == InitialBuckets
           B == HASH_MAKE_TABLE.buckets
<1>1. n \in Nat /\ n > 0
  BY TableAssumption
<1>2. B = [b \in 1 .. n |-> <<>>]
  BY DEF HASH_MAKE_TABLE
<1>3. <<>> \in Seq(Entry) /\ Chain(<<>>, {})
  BY ChainEmpty
<1> HIDE DEF n, B
<1>4. B \in Seq(Seq(Entry)) /\ Len(B) = n /\ \A b \in 1 .. n : B[b] = <<>>
  BY <1>1, <1>2, <1>3
<1>5. \A b : {e \in {} : Bucket(Len(B), hs[e]) = b} = {}
  OBVIOUS
<1> QED
  BY <1>1, <1>3, <1>4, <1>5 DEF WellFormed, B

(* The hash of an entry that is not in the table does not matter.          *)
LEMMA SameHashes ==
  ASSUME NEW B, NEW S, NEW hs, NEW hs2, \A e \in S : hs2[e] = hs[e],
         WellFormed(B, S, hs)
  PROVE  WellFormed(B, S, hs2)
<1>1. \A b : {e \in S : Bucket(Len(B), hs[e]) = b} = {e \in S : Bucket(Len(B), hs2[e]) = b}
  OBVIOUS
<1> QED
  BY <1>1 DEF WellFormed

(* A new entry at the head of the chain of its hash.                       *)
LEMMA AddHead ==
  ASSUME NEW B, NEW S \in SUBSET Entry, NEW hs \in [Entry -> Nat], NEW e \in Entry, e \notin S,
         WellFormed(B, S, hs)
  PROVE  WellFormed([B EXCEPT ![Bucket(Len(B), hs[e])] = <<e>> \o @], S \cup {e}, hs)
<1>0. PICK n \in Nat \ {0} : n = Len(B)
  <2>1. Len(B) \in Nat /\ Len(B) > 0
    BY DEF WellFormed
  <2> QED
    BY <2>1
<1>1. PICK b \in 1 .. n : b = Bucket(n, hs[e])
  <2>1. hs[e] \in Nat
    OBVIOUS
  <2> QED
    BY <2>1, BucketIn
<1> DEFINE In(T, c) == {f \in T : Bucket(n, hs[f]) = c}
           D == [B EXCEPT ![b] = <<e>> \o @]
<1>2. B \in Seq(Seq(Entry)) /\ \A c \in 1 .. n : Chain(B[c], In(S, c))
  BY <1>0 DEF WellFormed
<1>3. Chain(<<e>> \o B[b], In(S, b) \cup {e})
  <2>1. Chain(B[b], In(S, b)) /\ e \notin In(S, b)
    BY <1>2
  <2> HIDE DEF In
  <2> QED
    BY <2>1, ChainPrepend
<1>4. /\ In(S \cup {e}, b) = In(S, b) \cup {e}
      /\ \A c \in 1 .. n : c # b => In(S \cup {e}, c) = In(S, c)
  BY <1>1
<1>5. <<e>> \o B[b] \in Seq(Entry)
  BY <1>3 DEF Chain
<1>6. /\ D \in Seq(Seq(Entry)) /\ Len(D) = n /\ D[b] = <<e>> \o B[b]
      /\ \A c \in 1 .. n : c # b => D[c] = B[c]
  <2> DEFINE h == <<e>> \o B[b]
  <2>1. D = [B EXCEPT ![b] = h]
    OBVIOUS
  <2>2. h \in Seq(Entry)
    BY <1>5
  <2> HIDE DEF h, D
  <2>3. /\ D \in Seq(Seq(Entry)) /\ Len(D) = n /\ D[b] = h
        /\ \A c \in 1 .. n : c # b => D[c] = B[c]
    BY <1>0, <1>2, <2>1, <2>2
  <2> QED
    BY <2>3 DEF h
<1> HIDE DEF D
<1>7. \A c \in 1 .. n : Chain(D[c], In(S \cup {e}, c))
  <2> HIDE DEF In
  <2> SUFFICES ASSUME NEW c \in 1 .. n PROVE Chain(D[c], In(S \cup {e}, c))
    OBVIOUS
  <2>1. CASE c = b
    BY <1>3, <1>4, <1>6, <2>1
  <2>2. CASE c # b
    BY <1>2, <1>4, <1>6, <2>2
  <2> QED
    BY <2>1, <2>2
<1>8. WellFormed(D, S \cup {e}, hs)
  <2>1. Len(D) = n /\ n > 0 /\ D \in Seq(Seq(Entry))
    BY <1>0, <1>6
  <2> QED
    BY <1>7, <2>1 DEF WellFormed
<1> QED
  BY <1>0, <1>1, <1>8 DEF D

(* Expansion: a new chain is taken from the one old chain that holds all   *)
(* of its entries.                                                         *)
LEMMA Expand ==
  ASSUME NEW t, NEW S \in SUBSET Entry, NEW hs \in [Entry -> Nat], NEW items,
         WellFormed(t.buckets, S, hs)
  PROVE  WellFormed(HASH_EXPAND_BUCKETS(t, hs, items).buckets, S, hs)
<1> DEFINE B == t.buckets
           D == HASH_EXPAND_BUCKETS(t, hs, items).buckets
<1>0. PICK n \in Nat \ {0} : n = Len(B)
  <2>1. Len(B) \in Nat /\ Len(B) > 0
    BY DEF WellFormed
  <2> QED
    BY <2>1
<1>1. PICK m \in Nat \ {0} : m = 2 * n
  OBVIOUS
<1> DEFINE Old(b) == B[Bucket(n, b - 1)]
           I(b) == {i \in 1 .. Len(Old(b)) : Bucket(m, hs[Old(b)[i]]) = b}
           new == [b \in 1 .. m |-> TakenFromHead(Old(b), I(b))]
<1>2. D = new
  BY <1>0, <1>1 DEF HASH_EXPAND_BUCKETS
<1>3. ASSUME NEW b \in 1 .. m
      PROVE  Chain(TakenFromHead(Old(b), I(b)), {e \in S : Bucket(m, hs[e]) = b})
  <2> DEFINE s == Old(b)
             c == Bucket(n, b - 1)
             T == {e \in S : Bucket(n, hs[e]) = c}
  <2>1. c \in 1 .. n
    <3>1. b - 1 \in Nat
      BY <1>1
    <3> QED
      BY <3>1, BucketIn
  <2>2. Chain(s, T)
    BY <1>0, <2>1 DEF WellFormed
  <2>3. /\ \A i \in 1 .. Len(s) : s[i] \in T
        /\ \A e \in T : \E i \in 1 .. Len(s) : s[i] = e
    <3>1. s \in Seq(Entry)
      BY <2>2 DEF Chain
    <3> HIDE DEF T, s
    <3> QED
      BY <2>2, <3>1, ChainIs
  <2>4. \A e \in S : Bucket(m, hs[e]) = b => e \in T
    <3> SUFFICES ASSUME NEW e \in S, Bucket(m, hs[e]) = b PROVE Bucket(n, hs[e]) = c
      OBVIOUS
    <3>1. hs[e] \in Nat
      OBVIOUS
    <3> QED
      BY <1>1, <3>1, BucketHalf
  <2>5. {s[i] : i \in I(b)} = {e \in S : Bucket(m, hs[e]) = b}
    <3> HIDE DEF s
    <3>1. \A i : i \in I(b) <=> i \in 1 .. Len(s) /\ Bucket(m, hs[s[i]]) = b
      BY DEF s
    <3>2. \A i \in 1 .. Len(s) : s[i] \in S
      BY <2>3
    <3> HIDE DEF I
    <3>3. ASSUME NEW i \in I(b) PROVE s[i] \in S /\ Bucket(m, hs[s[i]]) = b
      BY <3>1, <3>2
    <3>4. ASSUME NEW e \in S, Bucket(m, hs[e]) = b PROVE \E i \in I(b) : s[i] = e
      <4>1. PICK i \in 1 .. Len(s) : s[i] = e
        BY <2>3, <2>4, <3>4
      <4> QED
        BY <3>1, <3>4, <4>1
    <3> QED
      BY <3>3, <3>4
  <2>6. I(b) \in SUBSET (1 .. Len(s))
    OBVIOUS
  <2>7. Chain(TakenFromHead(s, I(b)), {s[i] : i \in I(b)})
    <3> HIDE DEF s, I, T
    <3> QED
      BY <2>2, <2>6, ChainTaken
  <2> QED
    BY <2>5, <2>7
<1> HIDE DEF Old, I
<1>4. \A b \in 1 .. m : TakenFromHead(Old(b), I(b)) \in Seq(Entry)
  BY <1>3 DEF Chain
<1>5. /\ new \in Seq(Seq(Entry)) /\ Len(new) = m
      /\ \A b \in 1 .. m : new[b] = TakenFromHead(Old(b), I(b))
  BY <1>4
<1> HIDE DEF new
<1>6. WellFormed(new, S, hs)
  <2>1. m > 0
    OBVIOUS
  <2> QED
    BY <1>3, <1>5, <2>1 DEF WellFormed
<1> QED
  BY <1>2, <1>6

(* A new entry, and the expansion that may follow.                         *)
LEMMA AddToBucket ==
  ASSUME NEW B, NEW mu, NEW x, NEW S \in SUBSET Entry, NEW hs \in [Entry -> Nat],
         NEW e \in Entry, e \notin S, NEW items, WellFormed(B, S, hs)
  PROVE  WellFormed(HASH_ADD_TO_BKT([buckets |-> B, mult |-> mu, expand |-> x], hs, e, items).buckets,
                    S \cup {e}, hs)
<1> DEFINE t == [buckets |-> B, mult |-> mu, expand |-> x]
           b == Bucket(Len(t.buckets), hs[e])
           u == [t EXCEPT !.buckets[b] = <<e>> \o @]
           r == HASH_ADD_TO_BKT(t, hs, e, items)
<1>1. r = HASH_EXPAND_BUCKETS(u, hs, items) \/ r = u
  BY DEF HASH_ADD_TO_BKT
<1>2. t.buckets = B
  OBVIOUS
<1>3. u.buckets = [B EXCEPT ![Bucket(Len(B), hs[e])] = <<e>> \o @]
  OBVIOUS
<1>4. WellFormed(u.buckets, S \cup {e}, hs)
  BY <1>3, AddHead
<1>5. S \cup {e} \in SUBSET Entry
  OBVIOUS
<1> HIDE DEF u
<1>6. WellFormed(HASH_EXPAND_BUCKETS(u, hs, items).buckets, S \cup {e}, hs)
  BY <1>4, <1>5, Expand
<1> HIDE DEF r
<1>7. WellFormed(r.buckets, S \cup {e}, hs)
  BY <1>1, <1>4, <1>6
<1> QED
  BY <1>7 DEF r

(* An entry is unlinked from the chain of its recorded hash.               *)
LEMMA DeleteFromBucket ==
  ASSUME NEW B, NEW S \in SUBSET Entry, NEW hs \in [Entry -> Nat], NEW e \in S,
         WellFormed(B, S, hs)
  PROVE  WellFormed([B EXCEPT ![Bucket(Len(B), hs[e])] = RemoveFirst(@, e)], S \ {e}, hs)
<1>0. PICK n \in Nat \ {0} : n = Len(B)
  <2>1. Len(B) \in Nat /\ Len(B) > 0
    BY DEF WellFormed
  <2> QED
    BY <2>1
<1>1. PICK b \in 1 .. n : b = Bucket(n, hs[e])
  <2>1. hs[e] \in Nat
    OBVIOUS
  <2> QED
    BY <2>1, BucketIn
<1> DEFINE In(T, c) == {f \in T : Bucket(n, hs[f]) = c}
           h == RemoveFirst(B[b], e)
           D == [B EXCEPT ![b] = h]
<1>2. B \in Seq(Seq(Entry)) /\ \A c \in 1 .. n : Chain(B[c], In(S, c))
  BY <1>0 DEF WellFormed
<1>3. Chain(h, In(S, b) \ {e})
  <2>1. Chain(B[b], In(S, b)) /\ e \in In(S, b)
    BY <1>1, <1>2
  <2> HIDE DEF In
  <2> QED
    BY <2>1, ChainRemove
<1>4. /\ In(S \ {e}, b) = In(S, b) \ {e}
      /\ \A c \in 1 .. n : c # b => In(S \ {e}, c) = In(S, c)
  BY <1>1
<1> HIDE DEF h
<1>5. h \in Seq(Entry)
  BY <1>3 DEF Chain
<1>6. /\ D \in Seq(Seq(Entry)) /\ Len(D) = n /\ D[b] = h
      /\ \A c \in 1 .. n : c # b => D[c] = B[c]
  BY <1>0, <1>2, <1>5
<1> HIDE DEF D
<1>7. \A c \in 1 .. n : Chain(D[c], In(S \ {e}, c))
  <2> HIDE DEF In
  <2> SUFFICES ASSUME NEW c \in 1 .. n PROVE Chain(D[c], In(S \ {e}, c))
    OBVIOUS
  <2>1. CASE c = b
    BY <1>3, <1>4, <1>6, <2>1
  <2>2. CASE c # b
    BY <1>2, <1>4, <1>6, <2>2
  <2> QED
    BY <2>1, <2>2
<1>8. WellFormed(D, S \ {e}, hs)
  <2>1. Len(D) = n /\ n > 0 /\ D \in Seq(Seq(Entry))
    BY <1>0, <1>6
  <2> QED
    BY <1>7, <2>1 DEF WellFormed
<1> QED
  BY <1>0, <1>1, <1>8 DEF D, h

-----------------------------------------------------------------------------
(* The table as it is between two calls.                                   *)
TableInv ==
  /\ Chain(list, Range(list))
  /\ hashv \in [Entry -> Nat] /\ key \in [Entry -> Int]
  /\ list = <<>> => buckets = <<>>
  /\ list # <<>> => WellFormed(buckets, Range(list), hashv)

(* The entries of the list.                                                *)
LEMMA ListFacts ==
  ASSUME TableInv
  PROVE  /\ list \in Seq(Entry) /\ Range(list) \in SUBSET Entry
         /\ list = <<>> <=> Range(list) = {}
<1>1. list \in Seq(Entry) /\ Chain(list, Range(list))
  BY DEF TableInv, Chain
<1>2. \A i \in 1 .. Len(list) : list[i] \in Entry
  BY <1>1
<1>3. Range(list) \in SUBSET Entry
  BY <1>1, <1>2 DEF Range
<1> QED
  BY <1>1, <1>3, ChainEmpty

(* A hash is a natural number.                                             *)
LEMMA HashNat ==
  ASSUME NEW c, NEW v \in Int
  PROVE  php_driver_value_hash(c, v) \in Nat
BY TableAssumption DEF php_driver_value_hash, php_driver_mpz_hash, php_driver_bigint_hash, Abs

(* What HASH_FIND finds is in the table and compares equal; what it does   *)
(* not find is not there under the hash of the value.                      *)
LEMMA FindIs ==
  ASSUME TableInv, NEW v \in Int
  PROVE  /\ HASH_FIND(v) # 0 => HASH_FIND(v) \in Range(list) /\ Equal(HASH_FIND(v), v)
         /\ HASH_FIND(v) = 0 =>
              \A e \in Range(list) :
                hashv[e] = php_driver_value_hash(cls, v) => ~Equal(e, v)
<1>0. Range(list) \in SUBSET Entry /\ (list = <<>> <=> Range(list) = {}) /\ 0 \notin Entry
  BY ListFacts, TableAssumption DEF Entry
<1>1. CASE list = <<>>
  BY <1>0, <1>1 DEF TableInv, HASH_FIND
<1>2. CASE list # <<>>
  <2> DEFINE h == php_driver_value_hash(cls, v)
             b == Bucket(NumBuckets, h)
             chain == buckets[b]
             hits == {i \in 1 .. Len(chain) : Equal(chain[i], v)}
             least == CHOOSE i \in hits : \A j \in hits : i <= j
             T == {e \in Range(list) : Bucket(NumBuckets, hashv[e]) = b}
  <2>1. /\ WellFormed(buckets, Range(list), hashv) /\ NumBuckets \in Nat \ {0}
        /\ buckets # <<>>
    <3>1. WellFormed(buckets, Range(list), hashv)
      BY <1>2 DEF TableInv
    <3>2. buckets \in Seq(Seq(Entry)) /\ Len(buckets) > 0
      BY <3>1 DEF WellFormed
    <3>3. Len(buckets) \in Nat \ {0} /\ buckets # <<>>
      BY <3>2
    <3> QED
      BY <3>1, <3>3 DEF NumBuckets
  <2>2. b \in 1 .. NumBuckets
    BY <2>1, HashNat, BucketIn
  <2>3. Chain(chain, T)
    BY <2>1, <2>2 DEF WellFormed, NumBuckets
  <2>4. HASH_FIND(v) = IF hits = {} THEN 0 ELSE chain[least]
    BY <2>1 DEF HASH_FIND
  <2> HIDE DEF chain, T
  <2>5. /\ \A i \in 1 .. Len(chain) : chain[i] \in T
        /\ \A e \in T : \E i \in 1 .. Len(chain) : chain[i] = e
    <3>1. chain \in Seq(Entry)
      BY <2>3 DEF Chain
    <3> QED
      BY <2>3, <3>1, ChainIs
  <2>6. CASE hits = {}
    <3>1. HASH_FIND(v) = 0
      BY <2>4, <2>6
    <3>2. \A e \in T : ~Equal(e, v)
      BY <2>5, <2>6
    <3>3. \A e \in Range(list) : hashv[e] = h => e \in T
      BY DEF T
    <3> QED
      BY <3>1, <3>2, <3>3
  <2>7. CASE hits # {}
    <3>1. hits \in SUBSET Nat
      OBVIOUS
    <3>2. least \in hits
      <4> HIDE DEF hits
      <4>1. \E i \in hits : \A j \in hits : i <= j
        BY <2>7, <3>1, FirstOf
      <4> QED
        BY <4>1
    <3> HIDE DEF least
    <3>3. chain[least] \in T /\ Equal(chain[least], v)
      BY <2>5, <3>2
    <3>4. chain[least] \in Range(list) /\ chain[least] # 0
      BY <1>0, <3>3 DEF T
    <3> QED
      BY <2>4, <2>7, <3>3, <3>4
  <2> QED
    BY <2>6, <2>7
<1> QED
  BY <1>1, <1>2

(* HASH_ADD_KEYPTR keeps the table well formed.                            *)
LEMMA AddKeeps ==
  ASSUME TableInv, NEW v \in Int, NEW e \in Entry \ Range(list),
         HASH_ADD_KEYPTR(e, v), key' = [key EXCEPT ![e] = v]
  PROVE  /\ TableInv' /\ Range(list') = Range(list) \cup {e}
         /\ key' = [key EXCEPT ![e] = v]
         /\ hashv' = [hashv EXCEPT ![e] = php_driver_value_hash(cls, v)]
<1> DEFINE S == Range(list)
           hs == [hashv EXCEPT ![e] = php_driver_value_hash(cls, v)]
           old == [buckets |-> buckets, mult |-> mult, expand |-> expand]
           t == IF list = <<>> THEN HASH_MAKE_TABLE ELSE old
<1>0. /\ S \in SUBSET Entry /\ (list = <<>> <=> S = {}) /\ list \in Seq(Entry)
      /\ hashv \in [Entry -> Nat] /\ key \in [Entry -> Int]
  BY ListFacts DEF TableInv
<1>1. /\ list' = Append(list, e) /\ hashv' = hs
      /\ buckets' = HASH_ADD_TO_BKT(t, hs, e, Len(list) + 1).buckets
  BY DEF HASH_ADD_KEYPTR, SetTable
<1>2. hs \in [Entry -> Nat] /\ \A f \in S : hs[f] = hashv[f]
  BY <1>0, HashNat
<1>3. Chain(list', S \cup {e})
  BY <1>1, ChainAppend DEF TableInv
<1>4. Range(list') = S \cup {e} /\ list' # <<>>
  <2>1. list' \in Seq(Entry) /\ Range(list') = S \cup {e}
    BY <1>3 DEF Chain
  <2> QED
    BY <1>3, <2>1, ChainEmpty
<1> HIDE DEF hs
<1>5. PICK B, mu, x : t = [buckets |-> B, mult |-> mu, expand |-> x] /\ WellFormed(B, S, hs)
  <2>1. CASE list = <<>>
    <3>1. WellFormed(HASH_MAKE_TABLE.buckets, S, hs)
      BY <1>0, <2>1, MakeTable
    <3>2. HASH_MAKE_TABLE = [buckets |-> HASH_MAKE_TABLE.buckets,
                             mult |-> HASH_MAKE_TABLE.mult, expand |-> HASH_MAKE_TABLE.expand]
      BY DEF HASH_MAKE_TABLE
    <3> QED
      BY <2>1, <3>1, <3>2
  <2>2. CASE list # <<>>
    <3>1. WellFormed(buckets, S, hashv)
      BY <2>2 DEF TableInv
    <3>2. WellFormed(buckets, S, hs)
      BY <1>2, <3>1, SameHashes
    <3> QED
      BY <2>2, <3>2
  <2> QED
    BY <2>1, <2>2
<1>6. WellFormed(buckets', S \cup {e}, hs)
  <2> DEFINE items == Len(list) + 1
             r == [buckets |-> B, mult |-> mu, expand |-> x]
  <2>1. buckets' = HASH_ADD_TO_BKT(r, hs, e, items).buckets
    BY <1>1, <1>5
  <2>2. WellFormed(HASH_ADD_TO_BKT(r, hs, e, items).buckets, S \cup {e}, hs)
    <3> HIDE DEF items, S
    <3> QED
      BY <1>0, <1>2, <1>5, AddToBucket DEF S
  <2> QED
    BY <2>1, <2>2
<1>7. key' \in [Entry -> Int]
  BY <1>0
<1> QED
  BY <1>1, <1>2, <1>3, <1>4, <1>6, <1>7 DEF TableInv, hs

(* HASH_DELETE keeps the table well formed.                                *)
LEMMA DeleteKeeps ==
  ASSUME TableInv, NEW e \in Range(list), HASH_DELETE(e), key' = [key EXCEPT ![e] = 0]
  PROVE  /\ TableInv' /\ Range(list') = Range(list) \ {e}
         /\ hashv' = [hashv EXCEPT ![e] = 0]
<1> DEFINE S == Range(list)
           hs == [hashv EXCEPT ![e] = 0]
<1>0. /\ S \in SUBSET Entry /\ (list = <<>> <=> S = {}) /\ list \in Seq(Entry)
      /\ hashv \in [Entry -> Nat] /\ key \in [Entry -> Int]
      /\ WellFormed(buckets, S, hashv) /\ Chain(list, S)
  BY ListFacts DEF TableInv
<1>1. list' = RemoveFirst(list, e) /\ hashv' = hs
  BY DEF HASH_DELETE
<1>2. hs \in [Entry -> Nat] /\ \A f \in S \ {e} : hs[f] = hashv[f]
  BY <1>0
<1>3. Chain(list', S \ {e}) /\ Len(list') = Len(list) - 1
  <2> HIDE DEF S
  <2> QED
    BY <1>0, <1>1, ChainRemove DEF S
<1>4. list' \in Seq(Entry) /\ Range(list') = S \ {e}
  BY <1>3 DEF Chain
<1>5. key' \in [Entry -> Int]
  BY <1>0
<1> HIDE DEF hs
<1>6. CASE Len(list) = 1
  <2>1. buckets' = <<>>
    BY <1>6 DEF HASH_DELETE
  <2>2. list' = <<>>
    BY <1>3, <1>4, <1>6
  <2> QED
    BY <1>1, <1>2, <1>3, <1>4, <1>5, <2>1, <2>2 DEF TableInv, hs
<1>7. CASE Len(list) # 1
  <2>1. list' # <<>>
    <3>1. Len(list) \in Nat /\ Len(list') # 0
      BY <1>0, <1>3, <1>7
    <3> QED
      BY <3>1
  <2>2. buckets' = [buckets EXCEPT ![Bucket(Len(buckets), hashv[e])] = RemoveFirst(@, e)]
    BY <1>7 DEF HASH_DELETE, NumBuckets
  <2>3. WellFormed(buckets', S \ {e}, hashv)
    <3>1. WellFormed([buckets EXCEPT ![Bucket(Len(buckets), hashv[e])] = RemoveFirst(@, e)],
                     S \ {e}, hashv)
      BY <1>0, DeleteFromBucket
    <3> QED
      BY <2>2, <3>1
  <2>4. WellFormed(buckets', S \ {e}, hs)
    BY <1>2, <2>3, SameHashes
  <2> QED
    BY <1>1, <1>2, <1>3, <1>4, <1>5, <2>1, <2>4 DEF TableInv, hs
<1> QED
  BY <1>6, <1>7

-----------------------------------------------------------------------------
(* No table, and no entry.                                                 *)
LEMMA TableInit == Init => TableInv
<1> SUFFICES ASSUME Init PROVE TableInv
  OBVIOUS
<1>1. Range(<<>>) = {}
  BY ChainEmpty DEF Chain
<1>2. list = <<>> /\ buckets = <<>> /\ Chain(list, Range(list))
  BY <1>1, ChainEmpty DEF Init
<1>3. hashv \in [Entry -> Nat] /\ key \in [Entry -> Int]
  BY DEF Init
<1> QED
  BY <1>2, <1>3 DEF TableInv

(* A step that leaves the table alone.                                     *)
LEMMA TableFrame ==
  ASSUME TableInv, UNCHANGED table, key' \in [Entry -> Int]
  PROVE  TableInv' /\ Range(list') = Range(list) /\ hashv' = hashv
BY DEF TableInv, table

(* Every call keeps the table well formed, whatever handlers the class of  *)
(* its keys has, and whatever becomes of the keys meanwhile.               *)
LEMMA TableStep ==
  ASSUME TableInv, [Next]_vars
  PROVE  TableInv'
<1>0. key \in [Entry -> Int] /\ Value \subseteq Int
  BY TableAssumption DEF TableInv
<1>1. ASSUME NEW v \in Value, php_driver_set_add(v) PROVE TableInv'
  <2>1. CASE UNCHANGED <<table, key, dumped>>
    BY <1>0, <2>1, TableFrame
  <2>2. CASE \E e \in Entry \ Range(list) : HASH_ADD_KEYPTR(e, v) /\ key' = [key EXCEPT ![e] = v]
    BY <1>0, <2>2, AddKeeps
  <2> QED
    BY <1>1, <2>1, <2>2 DEF php_driver_set_add
<1>2. ASSUME NEW v \in Value, php_driver_set_del(v) PROVE TableInv'
  <2>1. CASE HASH_FIND(v) = 0
    <3>1. UNCHANGED <<table, key, dumped>>
      BY <1>2, <2>1 DEF php_driver_set_del
    <3> QED
      BY <1>0, <3>1, TableFrame
  <2>2. CASE HASH_FIND(v) # 0
    <3>1. PICK e \in Range(list) : e = HASH_FIND(v)
      BY <1>0, <2>2, FindIs
    <3>2. HASH_DELETE(e) /\ key' = [key EXCEPT ![e] = 0]
      BY <1>2, <2>2, <3>1 DEF php_driver_set_del
    <3> QED
      BY <3>2, DeleteKeeps
  <2> QED
    BY <2>1, <2>2
<1>3. ASSUME NEW v \in Value, php_driver_set_has(v) PROVE TableInv'
  BY <1>0, <1>3, TableFrame DEF php_driver_set_has
<1>4. ASSUME NEW v \in Value, NEW op, Crash(op, v) PROVE TableInv'
  BY <1>0, <1>4, TableFrame DEF Crash
<1>5. ASSUME NEW e \in Entry, Dump(e) PROVE TableInv'
  BY <1>0, <1>5, TableFrame DEF Dump
<1>6. ASSUME NEW e \in Entry, ChangeKey(e) PROVE TableInv'
  <2>1. key' = [key EXCEPT ![e] = 10 * @] /\ UNCHANGED table
    BY <1>6 DEF ChangeKey
  <2>2. key' \in [Entry -> Int]
    BY <1>0, <2>1
  <2> QED
    BY <2>1, <2>2, TableFrame
<1>7. ASSUME UNCHANGED vars PROVE TableInv'
  BY <1>0, <1>7, TableFrame DEF vars
<1> QED
  BY <1>1, <1>2, <1>3, <1>4, <1>5, <1>6, <1>7 DEF Next

(* The table is well formed throughout.                                    *)
LEMMA TableAlways == Spec => []TableInv
BY TableInit, TableStep, PTL DEF Spec

(* Every entry is in the bucket of its recorded hash, once, and nowhere    *)
(* else: what HASH_FSCK checks in a debug build, through additions,        *)
(* expansions and deletions, for every number of buckets and entries.      *)
THEOREM TableWellFormed == Spec => []HASH_FSCK
<1>1. TableInv => HASH_FSCK
  <2> SUFFICES ASSUME TableInv PROVE HASH_FSCK
    OBVIOUS
  <2>1. IsInjective(list)
    BY DEF TableInv, Chain
  <2>2. CASE list = <<>>
    <3>1. buckets = <<>> /\ \A b \in 1 .. Len(<<>>) : FALSE
      BY <2>2 DEF TableInv
    <3> QED
      BY <2>1, <2>2, <3>1 DEF HASH_FSCK, NumBuckets
  <2>3. CASE list # <<>>
    <3>1. WellFormed(buckets, Range(list), hashv)
      BY <2>3 DEF TableInv
    <3>2. buckets # <<>>
      <4>1. Len(buckets) > 0
        BY <3>1 DEF WellFormed
      <4> QED
        BY <4>1
    <3> QED
      BY <2>1, <2>3, <3>1, <3>2 DEF HASH_FSCK, NumBuckets, WellFormed, Chain
  <2> QED
    BY <2>2, <2>3
<1> QED
  BY <1>1, TableAlways, PTL

-----------------------------------------------------------------------------
(* For keys that are hashed and compared: an entry was added with the hash *)
(* its key has, and no two entries have the same key.                      *)
OwnInv ==
  Own => /\ \A e \in Range(list) : hashv[e] = php_driver_value_hash(cls, key[e])
         /\ \A e, f \in Range(list) : key[e] = key[f] => e = f

(* The handlers of such a class.                                           *)
LEMMA OwnHandlers ==
  ASSUME Own
  PROVE  /\ HandlersOf(cls).hash = "own" /\ HandlersOf(cls).compare = "own"
         /\ cls # "Decimal"
         /\ \A e, v : Equal(e, v) <=> key[e] = v
<1>1. HandlersOf(cls).hash = "own" /\ HandlersOf(cls).compare = "own"
  BY DEF Own, Handlers
<1>2. HandlersOf("Decimal").compare = "std"
  BY DEF HandlersOf, Decimal_define, Handlers
<1> QED
  BY <1>1, <1>2 DEF Equal

(* HASH_FIND tells whether the set has the value.                          *)
LEMMA FindTells ==
  ASSUME TableInv, OwnInv, Own, NEW v \in Int
  PROVE  /\ HASH_FIND(v) # 0 => HASH_FIND(v) \in Range(list) /\ key[HASH_FIND(v)] = v
         /\ HASH_FIND(v) = 0 => \A e \in Range(list) : key[e] # v
<1>1. /\ HASH_FIND(v) # 0 => HASH_FIND(v) \in Range(list) /\ Equal(HASH_FIND(v), v)
      /\ HASH_FIND(v) = 0 =>
           \A e \in Range(list) : hashv[e] = php_driver_value_hash(cls, v) => ~Equal(e, v)
  BY FindIs
<1>2. \A e : Equal(e, v) <=> key[e] = v
  BY OwnHandlers
<1>3. \A e \in Range(list) : hashv[e] = php_driver_value_hash(cls, key[e])
  BY DEF OwnInv
<1> QED
  BY <1>1, <1>2, <1>3

(* What a call does to the set, when the class of the keys is the same.    *)
LEMMA AddRefines ==
  ASSUME TableInv, OwnInv, Own, NEW v \in Value, php_driver_set_add(v)
  PROVE  OwnInv' /\ Own' /\ Set!Add(v)
<1>0. v \in Int /\ Own' /\ cls' = cls
  BY TableAssumption DEF php_driver_set_add, Own
<1>1. /\ \A e \in Range(list) : hashv[e] = php_driver_value_hash(cls, key[e])
      /\ \A e, f \in Range(list) : key[e] = key[f] => e = f
  BY DEF OwnInv
<1>2. /\ HASH_FIND(v) # 0 => HASH_FIND(v) \in Range(list) /\ key[HASH_FIND(v)] = v
      /\ HASH_FIND(v) = 0 => \A e \in Range(list) : key[e] # v
  BY <1>0, FindTells
<1>3. last' = [op |-> "add", v |-> v, r |-> TRUE]
  BY DEF php_driver_set_add, Answer
<1>4. CASE HASH_FIND(v) # 0
  <2>1. UNCHANGED <<table, key>>
    BY <1>4 DEF php_driver_set_add
  <2>2. list' = list /\ key' = key /\ hashv' = hashv
    BY <2>1 DEF table
  <2>3. v \in {key[e] : e \in Range(list)}
    BY <1>2, <1>4
  <2>4. OwnInv'
    BY <1>0, <1>1, <2>2 DEF OwnInv
  <2>5. Set!Add(v)
    BY <1>0, <1>3, <2>2, <2>3 DEF Set!Add, Set!Answer
  <2> QED
    BY <1>0, <2>4, <2>5
<1>5. CASE HASH_FIND(v) = 0
  <2>1. PICK e \in Entry \ Range(list) : HASH_ADD_KEYPTR(e, v) /\ key' = [key EXCEPT ![e] = v]
    BY <1>5 DEF php_driver_set_add
  <2>2. /\ Range(list') = Range(list) \cup {e}
        /\ hashv' = [hashv EXCEPT ![e] = php_driver_value_hash(cls, v)]
    BY <1>0, <2>1, AddKeeps
  <2>3. /\ key'[e] = v /\ hashv'[e] = php_driver_value_hash(cls, v)
        /\ \A f \in Range(list) : key'[f] = key[f] /\ hashv'[f] = hashv[f]
    <3>1. key \in [Entry -> Int] /\ hashv \in [Entry -> Nat] /\ Range(list) \in SUBSET Entry
      BY ListFacts DEF TableInv
    <3> QED
      BY <2>1, <2>2, <3>1
  <2>4. {key'[f] : f \in Range(list')} = {key[f] : f \in Range(list)} \cup {v}
    BY <2>2, <2>3
  <2>5. OwnInv'
    <3>1. \A f \in Range(list') : hashv'[f] = php_driver_value_hash(cls, key'[f])
      BY <1>1, <2>2, <2>3
    <3>2. \A f, g \in Range(list') : key'[f] = key'[g] => f = g
      BY <1>1, <1>2, <1>5, <2>2, <2>3
    <3> QED
      BY <1>0, <3>1, <3>2 DEF OwnInv
  <2>6. Set!Add(v)
    BY <1>0, <1>3, <2>4 DEF Set!Add, Set!Answer
  <2> QED
    BY <1>0, <2>5, <2>6
<1> QED
  BY <1>4, <1>5

(* Set::remove takes the value out, and answers whether it was there.      *)
LEMMA RemoveRefines ==
  ASSUME TableInv, OwnInv, Own, NEW v \in Value, php_driver_set_del(v)
  PROVE  OwnInv' /\ Own' /\ Set!Remove(v)
<1>0. v \in Int /\ Own' /\ cls' = cls
  BY TableAssumption DEF php_driver_set_del, Own
<1>1. /\ \A e \in Range(list) : hashv[e] = php_driver_value_hash(cls, key[e])
      /\ \A e, f \in Range(list) : key[e] = key[f] => e = f
  BY DEF OwnInv
<1>2. /\ HASH_FIND(v) # 0 => HASH_FIND(v) \in Range(list) /\ key[HASH_FIND(v)] = v
      /\ HASH_FIND(v) = 0 => \A e \in Range(list) : key[e] # v
  BY <1>0, FindTells
<1>3. last' = [op |-> "remove", v |-> v, r |-> HASH_FIND(v) # 0]
  BY DEF php_driver_set_del, Answer
<1>4. CASE HASH_FIND(v) = 0
  <2>1. UNCHANGED <<table, key>>
    BY <1>4 DEF php_driver_set_del
  <2>2. list' = list /\ key' = key /\ hashv' = hashv
    BY <2>1 DEF table
  <2>3. v \notin {key[e] : e \in Range(list)}
    BY <1>2, <1>4
  <2>4. OwnInv'
    BY <1>0, <1>1, <2>2 DEF OwnInv
  <2>5. last' = [op |-> "remove", v |-> v, r |-> FALSE]
    BY <1>3, <1>4
  <2>6. Set!Remove(v)
    <3> DEFINE E == {key[e] : e \in Range(list)}
    <3>1. E = E \ {v} /\ (v \in E) = FALSE
      BY <2>3
    <3>2. {key'[e] : e \in Range(list')} = E
      BY <2>2
    <3> HIDE DEF E
    <3>3. last' = [op |-> "remove", v |-> v, r |-> v \in E]
      BY <2>5, <3>1
    <3>4. {key'[e] : e \in Range(list')} = E \ {v}
      BY <3>1, <3>2
    <3> QED
      BY <1>0, <3>3, <3>4 DEF Set!Remove, Set!Answer, E
  <2> QED
    BY <1>0, <2>4, <2>6
<1>5. CASE HASH_FIND(v) # 0
  <2>1. PICK e \in Range(list) : e = HASH_FIND(v)
    BY <1>2, <1>5
  <2>2. HASH_DELETE(e) /\ key' = [key EXCEPT ![e] = 0]
    BY <1>5, <2>1 DEF php_driver_set_del
  <2>3. Range(list') = Range(list) \ {e} /\ hashv' = [hashv EXCEPT ![e] = 0]
    BY <2>2, DeleteKeeps
  <2>4. \A f \in Range(list) \ {e} : key'[f] = key[f] /\ hashv'[f] = hashv[f]
    <3>1. key \in [Entry -> Int] /\ hashv \in [Entry -> Nat] /\ Range(list) \in SUBSET Entry
      BY ListFacts DEF TableInv
    <3> QED
      BY <2>2, <2>3, <3>1
  <2>5. key[e] = v /\ v \in {key[f] : f \in Range(list)}
    BY <1>2, <1>5, <2>1
  <2>6. {key'[f] : f \in Range(list')} = {key[f] : f \in Range(list)} \ {v}
    <3>1. \A f \in Range(list) : f # e <=> key[f] # v
      BY <1>1, <2>5
    <3> QED
      BY <2>3, <2>4, <3>1
  <2>7. OwnInv'
    BY <1>0, <1>1, <2>3, <2>4 DEF OwnInv
  <2>8. last' = [op |-> "remove", v |-> v, r |-> TRUE]
    BY <1>3, <1>5
  <2>9. Set!Remove(v)
    BY <1>0, <2>5, <2>6, <2>8 DEF Set!Remove, Set!Answer
  <2> QED
    BY <1>0, <2>7, <2>9
<1> QED
  BY <1>4, <1>5

(* Set::has answers whether the value is there.                            *)
LEMMA HasRefines ==
  ASSUME TableInv, OwnInv, Own, NEW v \in Value, php_driver_set_has(v)
  PROVE  OwnInv' /\ Own' /\ Set!Has(v)
<1>0. v \in Int /\ Own' /\ cls' = cls
  BY TableAssumption DEF php_driver_set_has, Own
<1>1. /\ HASH_FIND(v) # 0 => HASH_FIND(v) \in Range(list) /\ key[HASH_FIND(v)] = v
      /\ HASH_FIND(v) = 0 => \A e \in Range(list) : key[e] # v
  BY <1>0, FindTells
<1>2. last' = [op |-> "has", v |-> v, r |-> HASH_FIND(v) # 0]
  BY DEF php_driver_set_has, Answer
<1>3. list' = list /\ key' = key /\ hashv' = hashv
  BY DEF php_driver_set_has, table
<1>4. OwnInv'
  BY <1>0, <1>3 DEF OwnInv
<1>5. (HASH_FIND(v) # 0) = (v \in {key[e] : e \in Range(list)})
  BY <1>1
<1>6. last' = [op |-> "has", v |-> v, r |-> v \in {key[e] : e \in Range(list)}]
  BY <1>2, <1>5
<1>7. Set!Has(v)
  BY <1>0, <1>3, <1>6 DEF Set!Has, Set!Answer
<1> QED
  BY <1>0, <1>4, <1>7

(* Every step of the table is a call of the set, or none.                  *)
LEMMA StepRefines ==
  ASSUME TableInv, OwnInv, [Next]_vars
  PROVE  OwnInv' /\ [Set!Next]_<<IF Own THEN {key[e] : e \in Range(list)} ELSE {},
                                 IF Own THEN last ELSE NoCall>>
<1>0. cls' = cls
  BY DEF Next, vars, php_driver_set_add, php_driver_set_del, php_driver_set_has, Crash,
         Dump, ChangeKey
<1>1. Own' <=> Own
  BY <1>0 DEF Own
<1>2. CASE ~Own
  BY <1>1, <1>2 DEF OwnInv
<1>3. CASE Own
  <2>1. ASSUME NEW v \in Value, php_driver_set_add(v) \/ php_driver_set_del(v) \/ php_driver_set_has(v)
        PROVE  OwnInv' /\ Set!Next
    BY <1>3, <2>1, AddRefines, RemoveRefines, HasRefines DEF Set!Next
  <2>2. ASSUME NEW v \in Value, NEW op, Crash(op, v) PROVE FALSE
    BY <1>3, <2>2, OwnHandlers DEF Crash, Hashes
  <2>3. ASSUME NEW e \in Entry, Dump(e) \/ ChangeKey(e) PROVE FALSE
    BY <1>3, <2>3, OwnHandlers DEF Dump, ChangeKey
  <2>4. ASSUME UNCHANGED vars
        PROVE  /\ OwnInv'
               /\ UNCHANGED <<IF Own THEN {key[e] : e \in Range(list)} ELSE {},
                              IF Own THEN last ELSE NoCall>>
    BY <1>1, <2>4 DEF OwnInv, vars, table
  <2> QED
    BY <2>1, <2>2, <2>3, <2>4 DEF Next
<1> QED
  BY <1>2, <1>3

(* The table implements a set of values for keys whose class hashes and    *)
(* compares them: add, remove and has answer as the set does, through      *)
(* collisions, expansions and the freeing of the table with its last       *)
(* entry.                                                                  *)
THEOREM TableImplementsSet == Spec => ImplementsSet
<1>1. Init => OwnInv /\ Set!Init
  <2> SUFFICES ASSUME Init PROVE OwnInv /\ Set!Init
    OBVIOUS
  <2>1. Range(list) = {} /\ last = NoCall
    BY ChainEmpty DEF Init, Chain
  <2> QED
    BY <2>1 DEF OwnInv, Set!Init
<1>2. TableInv /\ OwnInv /\ [Next]_vars =>
        OwnInv' /\ [Set!Next]_<<IF Own THEN {key[e] : e \in Range(list)} ELSE {},
                                IF Own THEN last ELSE NoCall>>
  BY StepRefines
<1> QED
  BY <1>1, <1>2, TableAlways, PTL DEF Spec, ImplementsSet, Set!Spec

=============================================================================
