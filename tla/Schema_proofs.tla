---------------------------- MODULE Schema_proofs ----------------------------
(***************************************************************************)
(* No metadata object the program can reach points into a freed snapshot,  *)
(* and the keys a table caches agree: for any catalogs, any number of      *)
(* objects and snapshots, and any set of columns that cannot be read.      *)
(***************************************************************************)
EXTENDS Schema, RefCount_proofs, TLAPS

-----------------------------------------------------------------------------
(* Least elements.                                                         *)

(* A set of natural numbers that is not empty has a least element.         *)
LEMMA FirstIn ==
  ASSUME NEW S \in SUBSET Nat, S # {}
  PROVE  \E i \in S : \A j \in S : i <= j
<1> DEFINE R == {ss \in Nat \X Nat : ss[1] < ss[2]}
<1>1. PICK x \in S : \A y \in S : ~(<<y, x>> \in R)
  <2>1. IsWellFoundedOn(R, Nat)
    BY NatLessThanWellFounded DEF OpToRel
  <2> HIDE DEF R
  <2> QED
    BY <2>1, WFMin
<1>2. ASSUME NEW y \in S PROVE x <= y
  <2>1. <<y, x>> \in Nat \X Nat /\ <<y, x>>[1] = y /\ <<y, x>>[2] = x
    OBVIOUS
  <2>2. y < x => <<y, x>> \in R
    BY <2>1
  <2> QED
    BY <1>1, <2>2
<1> QED
  BY <1>2

(* Objects are finitely many.                                              *)
LEMMA ObjectsFinite ==
  /\ IsFiniteSet(Object) /\ Object \subseteq Nat
  /\ \A S \in SUBSET Object : IsFiniteSet(S) /\ Cardinality(S) \in Nat
<1>1. IsFiniteSet(Object) /\ Object \subseteq Nat
  BY SchemaBounds, FS_Interval DEF Object
<1>2. ASSUME NEW S \in SUBSET Object PROVE IsFiniteSet(S) /\ Cardinality(S) \in Nat
  BY <1>1, FS_Subset, FS_CardinalityType
<1> QED
  BY <1>1, <1>2

-----------------------------------------------------------------------------
(* The loops.                                                              *)

(* f[i] is what the loop over the metadata has built after i steps.        *)
CreateLoop(f, n, h, class, snap, metas) ==
  f = [i \in 0..n |-> IF i = 0 THEN h ELSE Create(f[i - 1], class, snap, metas[i])]

LEMMA CreateLoopExists ==
  ASSUME NEW n \in Nat, NEW h, NEW class, NEW snap, NEW metas
  PROVE  \E f : CreateLoop(f, n, h, class, snap, metas)
<1> DEFINE Bad == {m \in Nat : ~ \E f : CreateLoop(f, m, h, class, snap, metas)}
<1> SUFFICES ASSUME Bad # {} PROVE FALSE
  OBVIOUS
<1>1. PICK m \in Bad : \A k \in Bad : m <= k
  <2>1. Bad \in SUBSET Nat
    OBVIOUS
  <2> HIDE DEF Bad
  <2> QED
    BY <2>1, FirstIn
<1>2. m # 0
  <2>1. CreateLoop([i \in 0..0 |-> h], 0, h, class, snap, metas)
    BY DEF CreateLoop
  <2> QED
    BY <2>1
<1>3. PICK f : CreateLoop(f, m - 1, h, class, snap, metas)
  BY <1>1, <1>2
<1> DEFINE g == [i \in 0..m |-> IF i = m THEN Create(f[m - 1], class, snap, metas[m]) ELSE f[i]]
<1>4. \A i \in 0..(m - 1) :
        f[i] = IF i = 0 THEN h ELSE Create(f[i - 1], class, snap, metas[i])
  BY <1>3, Zenon DEF CreateLoop
<1>5. \A i \in 0..m :
        g[i] = IF i = 0 THEN h ELSE Create(g[i - 1], class, snap, metas[i])
  <2> SUFFICES ASSUME NEW i \in 0..m
               PROVE  g[i] = IF i = 0 THEN h ELSE Create(g[i - 1], class, snap, metas[i])
    OBVIOUS
  <2>1. CASE i = m
    <3>1. g[m - 1] = f[m - 1]
      BY <1>2
    <3> QED
      BY <2>1, <1>2, <3>1
  <2>2. CASE i # m /\ i # 0
    <3>1. g[i] = f[i] /\ g[i - 1] = f[i - 1] /\ i \in 0..(m - 1)
      BY <2>2
    <3> QED
      BY <3>1, <1>4, <2>2
  <2>3. CASE i # m /\ i = 0
    BY <2>3, <1>4, <1>2
  <2> QED
    BY <2>1, <2>2, <2>3
<1>6. CreateLoop(g, m, h, class, snap, metas)
  <2>1. g = [i \in 0..m |-> g[i]]
    OBVIOUS
  <2> HIDE DEF g
  <2> QED
    BY <2>1, <1>5 DEF CreateLoop
<1> QED
  BY <1>6

(* What the loop leaves behind.                                            *)
LEMMA CreateAllIs ==
  ASSUME NEW h, NEW class, NEW snap, NEW metas, Len(metas) \in Nat
  PROVE  \E f : /\ f[0] = h /\ CreateAll(h, class, snap, metas) = f[Len(metas)]
                /\ \A i \in 1..Len(metas) : f[i] = Create(f[i - 1], class, snap, metas[i])
<1> DEFINE f == CHOOSE f : CreateLoop(f, Len(metas), h, class, snap, metas)
<1>1. CreateLoop(f, Len(metas), h, class, snap, metas)
  BY CreateLoopExists
<1>2. CreateAll(h, class, snap, metas) = f[Len(metas)]
  BY DEF CreateAll, CreateLoop
<1> HIDE DEF f
<1>3. PICK n \in Nat : n = Len(metas)
  OBVIOUS
<1>4. \A i \in 0..n : f[i] = IF i = 0 THEN h ELSE Create(f[i - 1], class, snap, metas[i])
  BY <1>1, <1>3, Zenon DEF CreateLoop
<1>5. f[0] = h
  BY <1>4
<1>6. \A i \in 1..n : f[i] = Create(f[i - 1], class, snap, metas[i])
  BY <1>4
<1> QED
  BY <1>2, <1>3, <1>5, <1>6

DelLoop(f, n, h, os) ==
  f = [i \in 0..n |-> IF i = 0 THEN h ELSE DelPeref(f[i - 1], os[i])]

LEMMA DelLoopExists ==
  ASSUME NEW n \in Nat, NEW h, NEW os
  PROVE  \E f : DelLoop(f, n, h, os)
<1> DEFINE Bad == {m \in Nat : ~ \E f : DelLoop(f, m, h, os)}
<1> SUFFICES ASSUME Bad # {} PROVE FALSE
  OBVIOUS
<1>1. PICK m \in Bad : \A k \in Bad : m <= k
  <2>1. Bad \in SUBSET Nat
    OBVIOUS
  <2> HIDE DEF Bad
  <2> QED
    BY <2>1, FirstIn
<1>2. m # 0
  <2>1. DelLoop([i \in 0..0 |-> h], 0, h, os)
    BY DEF DelLoop
  <2> QED
    BY <2>1
<1>3. PICK f : DelLoop(f, m - 1, h, os)
  BY <1>1, <1>2
<1> DEFINE g == [i \in 0..m |-> IF i = m THEN DelPeref(f[m - 1], os[m]) ELSE f[i]]
<1>4. \A i \in 0..(m - 1) : f[i] = IF i = 0 THEN h ELSE DelPeref(f[i - 1], os[i])
  BY <1>3, Zenon DEF DelLoop
<1>5. \A i \in 0..m : g[i] = IF i = 0 THEN h ELSE DelPeref(g[i - 1], os[i])
  <2> SUFFICES ASSUME NEW i \in 0..m
               PROVE  g[i] = IF i = 0 THEN h ELSE DelPeref(g[i - 1], os[i])
    OBVIOUS
  <2>1. CASE i = m
    <3>1. g[m - 1] = f[m - 1]
      BY <1>2
    <3> QED
      BY <2>1, <1>2, <3>1
  <2>2. CASE i # m /\ i # 0
    <3>1. g[i] = f[i] /\ g[i - 1] = f[i - 1] /\ i \in 0..(m - 1)
      BY <2>2
    <3> QED
      BY <3>1, <1>4, <2>2
  <2>3. CASE i # m /\ i = 0
    BY <2>3, <1>4, <1>2
  <2> QED
    BY <2>1, <2>2, <2>3
<1>6. DelLoop(g, m, h, os)
  <2>1. g = [i \in 0..m |-> g[i]]
    OBVIOUS
  <2> HIDE DEF g
  <2> QED
    BY <2>1, <1>5 DEF DelLoop
<1> QED
  BY <1>6

(* Returning the references of several objects, one after the other.       *)
(* f goes from h to the heap that DelPerefs returns, one object a step.    *)
DelSteps(f, h, os) ==
  /\ f[0] = h /\ DelPerefs(h, os) = f[Len(os)]
  /\ \A i \in 1..Len(os) : f[i] = DelPeref(f[i - 1], os[i])

LEMMA DelPerefsIs ==
  ASSUME NEW h, NEW os, Len(os) \in Nat
  PROVE  \E f : DelSteps(f, h, os)
<1> DEFINE f == CHOOSE f : DelLoop(f, Len(os), h, os)
<1>1. DelLoop(f, Len(os), h, os)
  BY DelLoopExists
<1>2. DelPerefs(h, os) = f[Len(os)]
  BY DEF DelPerefs, DelLoop
<1> HIDE DEF f
<1>3. PICK n \in Nat : n = Len(os)
  OBVIOUS
<1>4. \A i \in 0..n : f[i] = IF i = 0 THEN h ELSE DelPeref(f[i - 1], os[i])
  BY <1>1, <1>3, Zenon DEF DelLoop
<1>5. f[0] = h
  BY <1>4
<1>6. \A i \in 1..n : f[i] = DelPeref(f[i - 1], os[i])
  BY <1>4
<1> QED
  BY <1>2, <1>3, <1>5, <1>6 DEF DelSteps

-----------------------------------------------------------------------------
(* Names that are kept.                                                    *)

Skipped(class, m) == class = "column" /\ m \in Unreadable

(* names are the names a loop keeps of the first n of metas: w tells where *)
(* each comes from.                                                        *)
KeptAt(w, class, metas, n, names) ==
  /\ w \in [1..Len(names) -> 1..n]
  /\ \A j, k \in 1..Len(names) : j < k => w[j] < w[k]
  /\ \A k \in 1..Len(names) : names[k] = metas[w[k]] /\ ~Skipped(class, metas[w[k]])
  /\ \A i \in 1..n : ~Skipped(class, metas[i]) => \E k \in 1..Len(names) : w[k] = i

Kept(class, metas, n, names) == \E w : KeptAt(w, class, metas, n, names)

LEMMA KeptNone ==
  ASSUME NEW class, NEW metas
  PROVE  Kept(class, metas, 0, <<>>)
<1>1. KeptAt([k \in 1..0 |-> 0], class, metas, 0, <<>>)
  BY DEF KeptAt
<1> QED
  BY <1>1 DEF Kept

LEMMA KeptSkip ==
  ASSUME NEW class, NEW metas, NEW n \in Nat \ {0}, NEW S, NEW names \in Seq(S),
         Kept(class, metas, n - 1, names), Skipped(class, metas[n])
  PROVE  Kept(class, metas, n, names)
<1>1. PICK w : KeptAt(w, class, metas, n - 1, names)
  BY DEF Kept
<1> DEFINE m == Len(names)
<1>2. m \in Nat
  OBVIOUS
<1>3. KeptAt(w, class, metas, n, names)
  <2>1. w \in [1..m -> 1..n]
    BY <1>1, <1>2 DEF KeptAt
  <2>2. \A i \in 1..n : ~Skipped(class, metas[i]) => \E k \in 1..m : w[k] = i
    <3> SUFFICES ASSUME NEW i \in 1..n, ~Skipped(class, metas[i])
                 PROVE  \E k \in 1..m : w[k] = i
      OBVIOUS
    <3>1. i # n
      OBVIOUS
    <3>2. i \in 1..(n - 1)
      BY <3>1
    <3> QED
      BY <3>2, <1>1 DEF KeptAt
  <2> QED
    BY <1>1, <2>1, <2>2 DEF KeptAt
<1> QED
  BY <1>3 DEF Kept

LEMMA KeptMore ==
  ASSUME NEW class, NEW metas, NEW n \in Nat \ {0}, NEW S, NEW names \in Seq(S), metas[n] \in S,
         Kept(class, metas, n - 1, names), ~Skipped(class, metas[n])
  PROVE  Kept(class, metas, n, Append(names, metas[n]))
<1>1. PICK w : KeptAt(w, class, metas, n - 1, names)
  BY DEF Kept
<1>2. PICK m \in Nat : m = Len(names)
  OBVIOUS
<1>3. PICK more : more = Append(names, metas[n])
  OBVIOUS
<1>4. /\ Len(more) = m + 1 /\ more[m + 1] = metas[n]
      /\ \A k \in 1..m : more[k] = names[k]
  BY <1>2, <1>3
<1> DEFINE v == [k \in 1..(m + 1) |-> IF k = m + 1 THEN n ELSE w[k]]
<1>5. /\ w \in [1..m -> 1..(n - 1)] /\ \A j, k \in 1..m : j < k => w[j] < w[k]
      /\ \A k \in 1..m : names[k] = metas[w[k]] /\ ~Skipped(class, metas[w[k]])
      /\ \A i \in 1..(n - 1) : ~Skipped(class, metas[i]) => \E k \in 1..m : w[k] = i
  BY <1>1, <1>2 DEF KeptAt
<1>6. /\ v \in [1..(m + 1) -> 1..n] /\ v[m + 1] = n
      /\ \A k \in 1..m : v[k] = w[k] /\ v[k] \in 1..(n - 1) /\ k \in 1..(m + 1)
  BY <1>5
<1> HIDE DEF v
<1>7. \A j, k \in 1..(m + 1) : j < k => v[j] < v[k]
  <2> SUFFICES ASSUME NEW j \in 1..(m + 1), NEW k \in 1..(m + 1), j < k
               PROVE  v[j] < v[k]
    OBVIOUS
  <2>1. j \in 1..m
    OBVIOUS
  <2>2. CASE k = m + 1
    BY <2>1, <2>2, <1>6
  <2>3. CASE k \in 1..m
    BY <2>1, <2>3, <1>6, <1>5
  <2> QED
    BY <2>2, <2>3
<1>8. \A k \in 1..(m + 1) : more[k] = metas[v[k]] /\ ~Skipped(class, metas[v[k]])
  <2> SUFFICES ASSUME NEW k \in 1..(m + 1)
               PROVE  more[k] = metas[v[k]] /\ ~Skipped(class, metas[v[k]])
    OBVIOUS
  <2>2. CASE k = m + 1
    BY <2>2, <1>4, <1>6
  <2>3. CASE k \in 1..m
    BY <2>3, <1>4, <1>6, <1>5
  <2> QED
    BY <2>2, <2>3
<1>9. \A i \in 1..n : ~Skipped(class, metas[i]) => \E k \in 1..(m + 1) : v[k] = i
  <2> SUFFICES ASSUME NEW i \in 1..n, ~Skipped(class, metas[i])
               PROVE  \E k \in 1..(m + 1) : v[k] = i
    OBVIOUS
  <2>1. CASE i = n
    BY <2>1, <1>6
  <2>2. CASE i \in 1..(n - 1)
    BY <2>2, <1>5, <1>6
  <2> QED
    BY <2>1, <2>2
<1>10. KeptAt(v, class, metas, n, more)
  BY <1>4, <1>6, <1>7, <1>8, <1>9 DEF KeptAt
<1> QED
  BY <1>3, <1>10 DEF Kept

(* There is one way to keep names.                                         *)
LEMMA KeptUnique ==
  ASSUME NEW class, NEW metas, NEW n \in Nat, NEW S, NEW r \in Seq(S), NEW s \in Seq(S),
         Kept(class, metas, n, r), Kept(class, metas, n, s)
  PROVE  r = s
<1>1. PICK v : KeptAt(v, class, metas, n, r)
  BY DEF Kept
<1>2. PICK w : KeptAt(w, class, metas, n, s)
  BY DEF Kept
<1>3. PICK a \in Nat : a = Len(r)
  OBVIOUS
<1>4. PICK b \in Nat : b = Len(s)
  OBVIOUS
<1>5. /\ v \in [1..a -> 1..n] /\ \A j, k \in 1..a : j < k => v[j] < v[k]
      /\ \A k \in 1..a : r[k] = metas[v[k]] /\ ~Skipped(class, metas[v[k]])
      /\ \A i \in 1..n : ~Skipped(class, metas[i]) => \E k \in 1..a : v[k] = i
  BY <1>1, <1>3 DEF KeptAt
<1>6. /\ w \in [1..b -> 1..n] /\ \A j, k \in 1..b : j < k => w[j] < w[k]
      /\ \A k \in 1..b : s[k] = metas[w[k]] /\ ~Skipped(class, metas[w[k]])
      /\ \A i \in 1..n : ~Skipped(class, metas[i]) => \E k \in 1..b : w[k] = i
  BY <1>2, <1>4 DEF KeptAt
<1>7. \A k \in 1..a : \E j \in 1..b : w[j] = v[k]
  BY <1>5, <1>6
<1>8. \A k \in 1..b : \E j \in 1..a : v[j] = w[k]
  BY <1>5, <1>6
<1>9. \A k \in Nat : k \in 1..a /\ k \in 1..b => v[k] = w[k]
  <2> DEFINE Bad == {k \in Nat : k \in 1..a /\ k \in 1..b /\ v[k] # w[k]}
  <2> SUFFICES ASSUME Bad # {} PROVE FALSE
    OBVIOUS
  <2>1. PICK k \in Bad : \A j \in Bad : k <= j
    <3>1. Bad \in SUBSET Nat
      OBVIOUS
    <3> HIDE DEF Bad
    <3> QED
      BY <3>1, FirstIn
  <2>2. /\ k \in 1..a /\ k \in 1..b /\ v[k] # w[k] /\ v[k] \in Int /\ w[k] \in Int
        /\ \A j \in 1..(k - 1) : v[j] = w[j]
    BY <2>1, <1>5, <1>6
  <2>3. CASE v[k] < w[k]
    <3>1. PICK j \in 1..b : w[j] = v[k]
      BY <2>2, <1>7
    <3>2. ~(k < j) /\ j # k
      BY <3>1, <2>2, <2>3, <1>6
    <3>3. j \in 1..(k - 1) /\ j \in 1..a
      BY <3>2, <2>2
    <3>4. v[j] < v[k]
      BY <3>3, <2>2, <1>5
    <3> QED
      BY <3>1, <3>3, <3>4, <2>2
  <2>4. CASE w[k] < v[k]
    <3>1. PICK j \in 1..a : v[j] = w[k]
      BY <2>2, <1>8
    <3>2. ~(k < j) /\ j # k
      BY <3>1, <2>2, <2>4, <1>5
    <3>3. j \in 1..(k - 1) /\ j \in 1..b
      BY <3>2, <2>2
    <3>4. w[j] < w[k]
      BY <3>3, <2>2, <1>6
    <3> QED
      BY <3>1, <3>3, <3>4, <2>2
  <2> QED
    BY <2>2, <2>3, <2>4
<1>10. a = b
  <2>1. CASE a < b
    <3>5. a + 1 \in 1..b
      BY <2>1
    <3>1. PICK j \in 1..a : v[j] = w[a + 1]
      BY <3>5, <1>8, Zenon
    <3>0. a + 1 \in 1..b /\ j \in 1..b /\ j < a + 1
      BY <2>1
    <3>2. w[j] < w[a + 1]
      BY <3>0, <1>6
    <3>3. w[j] = v[j]
      BY <3>0, <1>9
    <3>4. w[j] \in 1..n /\ w[a + 1] \in 1..n
      BY <3>0, <1>6
    <3> QED
      BY <3>1, <3>2, <3>3, <3>4
  <2>2. CASE b < a
    <3>5. b + 1 \in 1..a
      BY <2>2
    <3>1. PICK j \in 1..b : w[j] = v[b + 1]
      BY <3>5, <1>7, Zenon
    <3>0. b + 1 \in 1..a /\ j \in 1..a /\ j < b + 1
      BY <2>2
    <3>2. v[j] < v[b + 1]
      BY <3>0, <1>5
    <3>3. w[j] = v[j]
      BY <3>0, <1>9
    <3>4. v[j] \in 1..n /\ v[b + 1] \in 1..n
      BY <3>0, <1>5
    <3> QED
      BY <3>1, <3>2, <3>3, <3>4
  <2> QED
    BY <2>1, <2>2
<1>11. \A k \in 1..a : r[k] = s[k]
  BY <1>5, <1>6, <1>9, <1>10, SMTT(30)
<1>12. r = [k \in 1..a |-> r[k]] /\ s = [k \in 1..a |-> s[k]]
  <2>1. r \in [1..a -> S] /\ s \in [1..b -> S]
    BY <1>3, <1>4
  <2> QED
    BY <2>1, <1>10
<1> QED
  BY <1>11, <1>12

(* What is kept of two lists in a row.                                     *)
LEMMA KeptConcat ==
  ASSUME NEW class, NEW S, NEW p \in Seq(S), NEW c \in Seq(S), NEW r \in Seq(S), NEW s \in Seq(S),
         Kept(class, p, Len(p), r), Kept(class, c, Len(c), s)
  PROVE  Kept(class, p \o c, Len(p \o c), r \o s)
<1>1. PICK v : KeptAt(v, class, p, Len(p), r)
  BY DEF Kept
<1>2. PICK w : KeptAt(w, class, c, Len(c), s)
  BY DEF Kept
<1>3. PICK a \in Nat, b \in Nat, m \in Nat, n \in Nat :
        a = Len(r) /\ b = Len(s) /\ m = Len(p) /\ n = Len(c)
  OBVIOUS
<1>5. /\ v \in [1..a -> 1..m] /\ \A j, k \in 1..a : j < k => v[j] < v[k]
      /\ \A k \in 1..a : r[k] = p[v[k]] /\ ~Skipped(class, p[v[k]])
      /\ \A i \in 1..m : ~Skipped(class, p[i]) => \E k \in 1..a : v[k] = i
  BY <1>1, <1>3 DEF KeptAt
<1>6. /\ w \in [1..b -> 1..n] /\ \A j, k \in 1..b : j < k => w[j] < w[k]
      /\ \A k \in 1..b : s[k] = c[w[k]] /\ ~Skipped(class, c[w[k]])
      /\ \A i \in 1..n : ~Skipped(class, c[i]) => \E k \in 1..b : w[k] = i
  BY <1>2, <1>3 DEF KeptAt
<1>7. PICK pc, rs : pc = p \o c /\ rs = r \o s
  OBVIOUS
<1>8. /\ Len(pc) = m + n /\ Len(rs) = a + b
      /\ \A i \in 1..m : pc[i] = p[i]
      /\ \A i \in 1..n : pc[m + i] = c[i]
      /\ \A k \in 1..a : rs[k] = r[k]
      /\ \A k \in 1..b : rs[a + k] = s[k]
  BY <1>3, <1>7
<1> DEFINE u == [k \in 1..(a + b) |-> IF k <= a THEN v[k] ELSE m + w[k - a]]
<1>9. /\ u \in [1..(a + b) -> 1..(m + n)]
      /\ \A k \in 1..a : u[k] = v[k] /\ u[k] \in 1..m /\ k \in 1..(a + b)
      /\ \A k \in 1..b : u[a + k] = m + w[k] /\ w[k] \in 1..n /\ a + k \in 1..(a + b)
  <2>1. ASSUME NEW k \in 1..(a + b)
        PROVE  u[k] \in 1..(m + n)
    <3>1. CASE k <= a
      <4>1. k \in 1..a
        BY <3>1
      <4>2. v[k] \in 1..m
        BY <4>1, <1>5
      <4> QED
        BY <4>2, <3>1
    <3>2. CASE ~(k <= a)
      <4>1. k - a \in 1..b
        BY <3>2
      <4>2. w[k - a] \in 1..n
        BY <4>1, <1>6
      <4> QED
        BY <4>2, <3>2
    <3> QED
      BY <3>1, <3>2
  <2>2. ASSUME NEW k \in 1..a
        PROVE  u[k] = v[k] /\ u[k] \in 1..m /\ k \in 1..(a + b)
    BY <1>5
  <2>3. ASSUME NEW k \in 1..b
        PROVE  u[a + k] = m + w[k] /\ w[k] \in 1..n /\ a + k \in 1..(a + b)
    <3>1. a + k \in 1..(a + b) /\ ~(a + k <= a) /\ (a + k) - a = k
      OBVIOUS
    <3> QED
      BY <3>1, <1>6
  <2> QED
    BY <2>1, <2>2, <2>3
<1> HIDE DEF u
<1>10. \A k \in 1..(a + b) : k \in 1..a \/ (k - a \in 1..b /\ k = a + (k - a))
  OBVIOUS
<1>11. \A j, k \in 1..(a + b) : j < k => u[j] < u[k]
  <2> SUFFICES ASSUME NEW j \in 1..(a + b), NEW k \in 1..(a + b), j < k
               PROVE  u[j] < u[k]
    OBVIOUS
  <2>1. CASE j \in 1..a /\ k \in 1..a
    BY <2>1, <1>5, <1>9
  <2>2. CASE j \in 1..a /\ k - a \in 1..b
    <3>1. u[j] \in 1..m /\ u[a + (k - a)] = m + w[k - a] /\ w[k - a] \in 1..n
      BY <2>2, <1>9
    <3> QED
      BY <3>1
  <2>3. CASE j - a \in 1..b /\ k - a \in 1..b
    <3>1. /\ u[a + (k - a)] = m + w[k - a] /\ w[k - a] \in 1..n
          /\ u[a + (j - a)] = m + w[j - a] /\ w[j - a] \in 1..n
      BY <2>3, <1>9
    <3>2. j - a < k - a
      OBVIOUS
    <3>3. w[j - a] < w[k - a]
      BY <2>3, <3>2, <1>6
    <3> QED
      BY <3>1, <3>3
  <2> QED
    BY <2>1, <2>2, <2>3, <1>10
<1>12. \A k \in 1..(a + b) : rs[k] = pc[u[k]] /\ ~Skipped(class, pc[u[k]])
  <2> SUFFICES ASSUME NEW k \in 1..(a + b)
               PROVE  rs[k] = pc[u[k]] /\ ~Skipped(class, pc[u[k]])
    OBVIOUS
  <2>1. CASE k \in 1..a
    <3>1. u[k] = v[k] /\ v[k] \in 1..m
      BY <2>1, <1>9
    <3>2. rs[k] = r[k] /\ pc[v[k]] = p[v[k]]
      BY <3>1, <2>1, <1>8
    <3> QED
      BY <3>1, <3>2, <2>1, <1>5
  <2>2. CASE k - a \in 1..b
    <3>1. PICK i \in 1..b : k = a + i
      BY <2>2
    <3>2. u[k] = m + w[i] /\ w[i] \in 1..n
      BY <3>1, <1>9
    <3>3. rs[k] = s[i] /\ pc[u[k]] = c[w[i]]
      <4>1. rs[a + i] = s[i]
        BY <1>8
      <4>2. pc[m + w[i]] = c[w[i]]
        BY <3>2, <1>8
      <4> QED
        BY <4>1, <4>2, <3>1, <3>2
    <3> QED
      BY <3>3, <1>6
  <2> QED
    BY <2>1, <2>2, <1>10
<1>13. \A i \in 1..(m + n) : ~Skipped(class, pc[i]) => \E k \in 1..(a + b) : u[k] = i
  <2> SUFFICES ASSUME NEW i \in 1..(m + n), ~Skipped(class, pc[i])
               PROVE  \E k \in 1..(a + b) : u[k] = i
    OBVIOUS
  <2>1. CASE i \in 1..m
    BY <2>1, <1>5, <1>8, <1>9
  <2>2. CASE i \notin 1..m
    <3>1. PICK l \in 1..n : i = m + l
      <4>1. i - m \in 1..n /\ i = m + (i - m)
        BY <2>2
      <4> QED
        BY <4>1
    <3>2. ~Skipped(class, c[l])
      BY <3>1, <1>8
    <3>3. PICK k \in 1..b : w[k] = l
      BY <3>2, <1>6
    <3>4. u[a + k] = i /\ a + k \in 1..(a + b)
      BY <3>1, <3>3, <1>9
    <3> QED
      BY <3>4
  <2> QED
    BY <2>1, <2>2
<1>14. KeptAt(u, class, pc, Len(pc), rs)
  BY <1>8, <1>9, <1>11, <1>12, <1>13 DEF KeptAt
<1> QED
  BY <1>7, <1>14 DEF Kept

-----------------------------------------------------------------------------
(* What a state is made of.                                                *)

Classes == {"none", "schema", "keyspace", "table", "view", "index", "column", "function", "aggregate"}
KeyFields == {"partition_key", "primary_key", "clustering_key"}
Fields == KeyFields \cup {"base_table", "state_function", "final_function"}
Caches == UNION {[F -> Seq(Object)] : F \in SUBSET Fields}
MetaObject == [class : Classes, meta : STRING \cup {NULL}, cache : Caches]

(* An object holds a reference exactly as long as it is allocated, and the *)
(* counts are the numbers of references.                                   *)
Sound(h, ob) ==
  /\ HeapType(h, Object, Snapshot) /\ HeapOK(h, Object, Snapshot)
  /\ ob \in [Object -> MetaObject]
  /\ \A o \in Object : ob[o].class = "none" => ob[o] = NoObject
  /\ \A o \in Object : ob[o].class = "none" <=> h.ptr[o] = NULL

LEMMA EmptyCache == <<>> \in Caches /\ DOMAIN <<>> = {}
<1>1. <<>> \in [{} -> Seq(Object)]
  OBVIOUS
<1>2. {} \in SUBSET Fields
  OBVIOUS
<1> QED
  BY <1>1, <1>2 DEF Caches

(* The object that Construct takes.                                        *)
LEMMA ConstructIs ==
  ASSUME NEW h, Unused(h) # {}, NEW class, NEW snap, NEW meta
  PROVE  \E o \in Unused(h) :
           Construct(h, class, snap, meta) =
             [heap |-> AddRef(h.heap, o, snap),
              obj  |-> [h.obj EXCEPT ![o] = [class |-> class, meta |-> meta, cache |-> <<>>]],
              made |-> Append(h.made, o)]
<1> DEFINE o == CHOOSE x \in Unused(h) : \A y \in Unused(h) : x <= y
<1>1. o \in Unused(h)
  <2>1. Unused(h) \in SUBSET Nat
    BY ObjectsFinite DEF Unused
  <2> QED
    BY <2>1, FirstIn
<1> QED
  BY <1>1 DEF Construct

(* A column that cannot be read leaves no trace; everything else is one    *)
(* new object with one reference.                                          *)
LEMMA CreateIs ==
  ASSUME NEW h, h = [heap |-> h.heap, obj |-> h.obj, made |-> h.made],
         Sound(h.heap, h.obj), NEW S, h.made \in Seq(S), Unused(h) # {},
         NEW class \in Classes \ {"none", "schema"}, NEW meta,
         NEW snap \in Snapshot, h.heap.status[snap] = "live"
  PROVE  /\ Skipped(class, meta) => Create(h, class, snap, meta) = h
         /\ ~Skipped(class, meta) =>
              \E o \in Unused(h) :
                Create(h, class, snap, meta) =
                  [heap |-> AddRef(h.heap, o, snap),
                   obj  |-> [h.obj EXCEPT ![o] = [class |-> class, meta |-> meta, cache |-> <<>>]],
                   made |-> Append(h.made, o)]
<1>1. PICK o \in Unused(h) :
        Construct(h, class, snap, meta) =
          [heap |-> AddRef(h.heap, o, snap),
           obj  |-> [h.obj EXCEPT ![o] = [class |-> class, meta |-> meta, cache |-> <<>>]],
           made |-> Append(h.made, o)]
  BY ConstructIs
<1>2. CASE ~Skipped(class, meta)
  <2>1. Create(h, class, snap, meta) = Construct(h, class, snap, meta)
    BY <1>2 DEF Create, Classes, Skipped, Keyspace, php_driver_create_table,
       php_driver_create_materialized_view, php_driver_create_index, php_driver_create_function,
       php_driver_create_aggregate, php_driver_create_column
  <2> QED
    BY <2>1, <1>1, <1>2
<1>3. CASE Skipped(class, meta)
  <2> DEFINE c == Construct(h, class, snap, meta)
  <2>1. Last(c.made) = o
    <3>1. c.made = Append(h.made, o) /\ Len(c.made) = Len(h.made) + 1
      BY <1>1
    <3>2. Append(h.made, o)[Len(h.made) + 1] = o
      OBVIOUS
    <3> QED
      BY <3>1, <3>2 DEF Last
  <2>2. Create(h, class, snap, meta) =
          [heap |-> DelPeref(c.heap, o), obj |-> [c.obj EXCEPT ![o] = NoObject], made |-> h.made]
    <3> HIDE DEF c
    <3>1. Create(h, class, snap, meta) = php_driver_create_column(h, snap, meta)
      BY <1>3 DEF Create, Skipped
    <3>2. class = "column" /\ meta \in Unreadable
      BY <1>3 DEF Skipped
    <3> QED
      BY <3>1, <3>2, <2>1 DEF php_driver_create_column, c
  <2>3. o \in Object /\ h.obj[o] = NoObject /\ h.heap.ptr[o] = NULL
    BY DEF Sound, Unused
  <2>4. [c.obj EXCEPT ![o] = NoObject] = h.obj
    <3>1. c.obj = [h.obj EXCEPT ![o] = [class |-> class, meta |-> meta, cache |-> <<>>]]
      BY <1>1
    <3>2. h.obj = [x \in Object |-> h.obj[x]]
      BY DEF Sound
    <3> HIDE DEF c
    <3> QED
      BY <3>1, <3>2, <2>3
  <2>5. DelPeref(c.heap, o) = h.heap
    <3>1. c.heap = AddRef(h.heap, o, snap)
      BY <1>1
    <3>2. /\ h.heap \in [ptr : [Object -> Snapshot \cup {NULL}], count : [Snapshot -> Int],
                          status : [Snapshot -> {"unused", "live", "freed"}]]
          /\ h.heap.count[snap] > 0 /\ snap # NULL
      BY NullIsNoSnapshot DEF Sound, HeapType, HeapOK
    <3>3. PICK p, n, st : h.heap = [ptr |-> p, count |-> n, status |-> st]
      BY <3>2
    <3>4. /\ p \in [Object -> Snapshot \cup {NULL}] /\ n \in [Snapshot -> Int]
          /\ n[snap] > 0 /\ p[o] = NULL
      BY <3>2, <3>3, <2>3
    <3>5. AddRef(h.heap, o, snap) =
            [ptr |-> [p EXCEPT ![o] = snap], count |-> [n EXCEPT ![snap] = @ + 1], status |-> st]
      BY <3>3 DEF AddRef
    <3>6. /\ [p EXCEPT ![o] = snap][o] = snap /\ [n EXCEPT ![snap] = @ + 1][snap] - 1 = n[snap]
          /\ ~(n[snap] <= 0)
      BY <3>4, <2>3
    <3>7. [[p EXCEPT ![o] = snap] EXCEPT ![o] = NULL] = p
      BY <3>4, <2>3
    <3>8. [[n EXCEPT ![snap] = @ + 1] EXCEPT ![snap] = n[snap]] = n
      BY <3>4
    <3> HIDE DEF c
    <3> QED
      BY <3>1, <3>2, <3>3, <3>5, <3>6, <3>7, <3>8 DEF DelPeref
  <2> QED
    BY <2>2, <2>4, <2>5, <1>3
<1> QED
  BY <1>2, <1>3

-----------------------------------------------------------------------------
(* Building several objects.                                               *)

Built(h) == h = [heap |-> h.heap, obj |-> h.obj, made |-> h.made]
NamesOf(ob, ids) == [k \in 1..Len(ids) |-> ob[ids[k]].meta]

(* g has, beside what h had, one object for each of the first n of metas   *)
(* that could be read, and these refer to snap.                            *)
Grown(g, h, n, class, snap, metas) ==
  /\ Built(g) /\ Sound(g.heap, g.obj) /\ g.made \in Seq(Object)
  /\ g.heap.status = h.heap.status
  /\ \A x \in Object \ Unused(h) : g.obj[x] = h.obj[x] /\ g.heap.ptr[x] = h.heap.ptr[x]
  /\ \A x \in Unused(h) \ Unused(g) :
       /\ g.obj[x].class = class /\ g.obj[x].cache = <<>> /\ g.heap.ptr[x] = snap
       /\ \E j \in 1..n : g.obj[x].meta = metas[j]
  /\ \A k \in 1..Len(g.made) : g.made[k] \in Unused(h) \ Unused(g)
  /\ Kept(class, metas, n, NamesOf(g.obj, g.made))
  /\ Cardinality(Unused(g)) + n >= Cardinality(Unused(h))

LEMMA GrownStep ==
  ASSUME NEW h, NEW g, NEW n \in Nat, NEW class \in Classes \ {"none", "schema"},
         NEW snap \in Snapshot, h.heap.status[snap] = "live", NEW metas,
         metas[n + 1] \in STRING,
         Grown(g, h, n, class, snap, metas), Cardinality(Unused(h)) > n
  PROVE  Grown(Create(g, class, snap, metas[n + 1]), h, n + 1, class, snap, metas)
<1> DEFINE m == metas[n + 1]
<1>1. /\ Unused(g) \subseteq Object /\ Unused(h) \subseteq Object /\ Unused(g) # {}
      /\ Cardinality(Unused(g)) \in Nat /\ Cardinality(Unused(h)) \in Nat
  <2>1. Unused(g) \subseteq Object /\ Unused(h) \subseteq Object
    BY DEF Unused
  <2>2. Cardinality(Unused(g)) \in Nat /\ Cardinality(Unused(h)) \in Nat
    BY <2>1, ObjectsFinite
  <2>3. Cardinality(Unused(g)) # 0
    BY <2>2 DEF Grown
  <2> QED
    BY <2>1, <2>2, <2>3, FS_EmptySet
<1>2. /\ Built(g) /\ Sound(g.heap, g.obj) /\ g.made \in Seq(Object)
      /\ g.heap.status[snap] = "live"
  BY DEF Grown
<1>3. NamesOf(g.obj, g.made) \in Seq(STRING \cup {NULL})
  <2>1. \A k \in 1..Len(g.made) : g.obj[g.made[k]].meta \in STRING \cup {NULL}
    BY <1>2 DEF Sound, MetaObject
  <2>2. Len(g.made) \in Nat
    BY <1>2
  <2> QED
    BY <2>1, <2>2 DEF NamesOf
<1>4. CASE Skipped(class, m)
  <2>1. Create(g, class, snap, m) = g
    BY <1>1, <1>2, <1>4, CreateIs DEF Built
  <2>2. Kept(class, metas, n + 1, NamesOf(g.obj, g.made))
    <3>1. n + 1 \in Nat \ {0} /\ (n + 1) - 1 = n
      OBVIOUS
    <3>2. Kept(class, metas, n, NamesOf(g.obj, g.made))
      BY DEF Grown
    <3>3. PICK q \in Nat \ {0} : q = n + 1 /\ q - 1 = n
      BY <3>1
    <3> QED
      BY <3>2, <3>3, <1>3, <1>4, KeptSkip
  <2>3. Cardinality(Unused(g)) + (n + 1) >= Cardinality(Unused(h))
    BY <1>1 DEF Grown
  <2>4. \A x \in Unused(h) \ Unused(g) : \E j \in 1..(n + 1) : g.obj[x].meta = metas[j]
    <3>1. \A x \in Unused(h) \ Unused(g) : \E j \in 1..n : g.obj[x].meta = metas[j]
      BY DEF Grown
    <3>2. \A j \in 1..n : j \in 1..(n + 1)
      OBVIOUS
    <3> QED
      BY <3>1, <3>2
  <2> QED
    BY <2>1, <2>2, <2>3, <2>4 DEF Grown
<1>5. CASE ~Skipped(class, m)
  <2>1. PICK o \in Unused(g) :
          Create(g, class, snap, m) =
            [heap |-> AddRef(g.heap, o, snap),
             obj  |-> [g.obj EXCEPT ![o] = [class |-> class, meta |-> m, cache |-> <<>>]],
             made |-> Append(g.made, o)]
    <3>1. g = [heap |-> g.heap, obj |-> g.obj, made |-> g.made]
      BY <1>2 DEF Built
    <3>2. \A me : ~Skipped(class, me) =>
                 \E o \in Unused(g) :
                   Create(g, class, snap, me) =
                     [heap |-> AddRef(g.heap, o, snap),
                      obj  |-> [g.obj EXCEPT ![o] = [class |-> class, meta |-> me, cache |-> <<>>]],
                      made |-> Append(g.made, o)]
      BY <1>1, <1>2, <3>1, CreateIs
    <3> QED
      BY <1>5, <3>2
  <2>2. PICK e : e = Create(g, class, snap, m)
    OBVIOUS
  <2>3. /\ e.heap = AddRef(g.heap, o, snap)
        /\ e.obj = [g.obj EXCEPT ![o] = [class |-> class, meta |-> m, cache |-> <<>>]]
        /\ e.made = Append(g.made, o) /\ Built(e)
    BY <2>1, <2>2 DEF Built
  <2>4. o \in Object /\ g.obj[o].class = "none" /\ g.heap.ptr[o] = NULL
    BY <1>2 DEF Unused, Sound
  <2>5. [class |-> class, meta |-> m, cache |-> <<>>] \in MetaObject
    BY EmptyCache DEF MetaObject
  <2>6. /\ HeapType(e.heap, Object, Snapshot) /\ HeapOK(e.heap, Object, Snapshot)
    BY <1>2, <2>3, <2>4, ObjectsFinite, NullIsNoSnapshot, AddRefOK DEF Sound
  <2>7. /\ e.obj \in [Object -> MetaObject] /\ e.obj[o].class = class /\ e.obj[o].meta = m
        /\ e.obj[o].cache = <<>> /\ \A x \in Object \ {o} : e.obj[x] = g.obj[x]
    BY <1>2, <2>3, <2>4, <2>5 DEF Sound
  <2>8. /\ e.heap.ptr[o] = snap /\ \A x \in Object \ {o} : e.heap.ptr[x] = g.heap.ptr[x]
        /\ e.heap.status = g.heap.status
    <3>1. g.heap.ptr \in [Object -> Snapshot \cup {NULL}]
      BY <1>2 DEF Sound, HeapType
    <3> QED
      BY <3>1, <2>3, <2>4 DEF AddRef
  <2>9. Sound(e.heap, e.obj)
    <3>1. ASSUME NEW x \in Object
          PROVE  /\ e.obj[x].class = "none" => e.obj[x] = NoObject
                 /\ e.obj[x].class = "none" <=> e.heap.ptr[x] = NULL
      <4>1. CASE x = o
        <5>1. class # "none" /\ snap # NULL
          BY NullIsNoSnapshot
        <5> QED
          BY <4>1, <2>7, <2>8, <5>1
      <4>2. CASE x # o
        BY <4>2, <2>7, <2>8, <1>2 DEF Sound
      <4> QED
        BY <4>1, <4>2
    <3> QED
      BY <3>1, <2>6, <2>7 DEF Sound
  <2>10. Unused(e) = Unused(g) \ {o}
    <3>1. class # "none"
      OBVIOUS
    <3> QED
      BY <2>7, <3>1 DEF Unused
  <2>11. Cardinality(Unused(e)) + (n + 1) >= Cardinality(Unused(h))
    <3>1. Cardinality(Unused(e)) = Cardinality(Unused(g)) - 1
      BY <2>10, <1>1, ObjectsFinite, FS_RemoveElement, SMTT(30)
    <3> QED
      BY <3>1, <1>1 DEF Grown
  <2>12. o \in Unused(h)
    <3>1. ASSUME o \notin Unused(h) PROVE FALSE
      <4>1. g.obj[o] = h.obj[o]
        BY <3>1, <2>4 DEF Grown
      <4> QED
        BY <3>1, <4>1, <2>4 DEF Unused
    <3> QED
      BY <3>1
  <2>13. \A x \in Object \ Unused(h) : e.obj[x] = h.obj[x] /\ e.heap.ptr[x] = h.heap.ptr[x]
    BY <2>7, <2>8, <2>12 DEF Grown
  <2>14. ASSUME NEW x \in Unused(h) \ Unused(e)
         PROVE  /\ e.obj[x].class = class /\ e.obj[x].cache = <<>> /\ e.heap.ptr[x] = snap
                /\ \E j \in 1..(n + 1) : e.obj[x].meta = metas[j]
    <3>1. CASE x = o
      <4>1. n + 1 \in 1..(n + 1)
        OBVIOUS
      <4> QED
        BY <3>1, <4>1, <2>7, <2>8
    <3>2. CASE x # o
      <4>1. x \in Unused(h) \ Unused(g) /\ x \in Object
        BY <3>2, <2>10 DEF Unused
      <4>2. PICK j \in 1..n : g.obj[x].meta = metas[j]
        BY <4>1 DEF Grown
      <4>3. j \in 1..(n + 1)
        OBVIOUS
      <4>4. e.obj[x] = g.obj[x] /\ e.heap.ptr[x] = g.heap.ptr[x]
        BY <3>2, <4>1, <2>7, <2>8
      <4> QED
        BY <4>1, <4>2, <4>3, <4>4 DEF Grown
    <3> QED
      BY <3>1, <3>2
  <2>15. PICK l \in Nat : l = Len(g.made)
    BY <1>2
  <2>16. /\ e.made \in Seq(Object) /\ Len(e.made) = l + 1 /\ e.made[l + 1] = o
         /\ \A k \in 1..l : e.made[k] = g.made[k]
    BY <2>3, <2>4, <2>15, <1>2
  <2>17. \A k \in 1..l : g.made[k] \in Unused(h) \ Unused(g) /\ g.made[k] # o
    BY <2>15 DEF Grown
  <2>18. \A k \in 1..(l + 1) : e.made[k] \in Unused(h) \ Unused(e)
    <3> SUFFICES ASSUME NEW k \in 1..(l + 1) PROVE e.made[k] \in Unused(h) \ Unused(e)
      OBVIOUS
    <3>1. CASE k = l + 1
      BY <3>1, <2>16, <2>12, <2>10
    <3>2. CASE k \in 1..l
      BY <3>2, <2>16, <2>17, <2>10
    <3> QED
      BY <3>1, <3>2
  <2>19. Kept(class, metas, n + 1, NamesOf(e.obj, e.made))
    <3>1. PICK q \in Nat \ {0} : q = n + 1 /\ q - 1 = n
      OBVIOUS
    <3>2. Kept(class, metas, n, NamesOf(g.obj, g.made))
      BY DEF Grown
    <3>3. PICK names \in Seq(STRING \cup {NULL}) : names = NamesOf(g.obj, g.made)
      BY <1>3
    <3>4. Kept(class, metas, q, Append(names, metas[q]))
      BY <3>1, <3>2, <3>3, <1>5, KeptMore
    <3>5. Append(names, m) = NamesOf(e.obj, e.made)
      <4>1. Len(names) = l /\ \A k \in 1..l : names[k] = g.obj[g.made[k]].meta
        BY <3>3, <2>15 DEF NamesOf
      <4>2. \A k \in 1..l : e.obj[e.made[k]].meta = names[k]
        <5>1. \A k \in 1..l : g.made[k] \in Object \ {o}
          BY <2>17 DEF Unused
        <5> QED
          BY <5>1, <4>1, <2>16, <2>7
      <4>3. e.obj[e.made[l + 1]].meta = m
        BY <2>16, <2>7
      <4>4. /\ Len(Append(names, m)) = l + 1 /\ Append(names, m)[l + 1] = m
            /\ \A k \in 1..l : Append(names, m)[k] = names[k]
            /\ Append(names, m) = [k \in 1..(l + 1) |-> Append(names, m)[k]]
        BY <4>1
      <4>5. \A k \in 1..(l + 1) : Append(names, m)[k] = e.obj[e.made[k]].meta
        <5> SUFFICES ASSUME NEW k \in 1..(l + 1)
                     PROVE  Append(names, m)[k] = e.obj[e.made[k]].meta
          OBVIOUS
        <5>1. k = l + 1 \/ k \in 1..l
          OBVIOUS
        <5> QED
          BY <5>1, <4>2, <4>3, <4>4
      <4> HIDE DEF m
      <4> QED
        BY <4>4, <4>5, <2>16 DEF NamesOf
    <3> QED
      BY <3>1, <3>4, <3>5
  <2>20. e.heap.status = h.heap.status
    BY <2>8 DEF Grown
  <2>21. Grown(e, h, n + 1, class, snap, metas)
    BY <2>3, <2>9, <2>11, <2>13, <2>14, <2>16, <2>18, <2>19, <2>20 DEF Grown
  <2> QED
    BY <2>2, <2>21
<1> QED
  BY <1>4, <1>5

(* What a method that builds objects for all of metas has built.           *)
LEMMA CreateAllGrown ==
  ASSUME NEW h, Built(h), Sound(h.heap, h.obj), h.made = <<>>,
         NEW class \in Classes \ {"none", "schema"},
         NEW snap \in Snapshot, h.heap.status[snap] = "live", NEW metas \in Seq(STRING),
         Cardinality(Unused(h)) >= Len(metas)
  PROVE  Grown(CreateAll(h, class, snap, metas), h, Len(metas), class, snap, metas)
<1>1. PICK f : /\ f[0] = h /\ CreateAll(h, class, snap, metas) = f[Len(metas)]
               /\ \A i \in 1..Len(metas) : f[i] = Create(f[i - 1], class, snap, metas[i])
  <2>1. Len(metas) \in Nat
    OBVIOUS
  <2> QED
    BY <2>1, CreateAllIs
<1>2. PICK n \in Nat : n = Len(metas)
  OBVIOUS
<1>3. \A i \in 1..n : metas[i] \in STRING
  BY <1>2
<1>4. Cardinality(Unused(h)) \in Nat
  BY ObjectsFinite DEF Unused
<1>5. Grown(f[0], h, 0, class, snap, metas)
  <2>1. NamesOf(h.obj, h.made) = <<>>
    BY DEF NamesOf
  <2>2. Kept(class, metas, 0, NamesOf(h.obj, h.made))
    BY <2>1, KeptNone
  <2>3. \A k \in 1..Len(h.made) : FALSE
    OBVIOUS
  <2>4. h.made \in Seq(Object)
    OBVIOUS
  <2>5. \A x \in Unused(h) \ Unused(h) : FALSE
    OBVIOUS
  <2>6. Cardinality(Unused(h)) + 0 >= Cardinality(Unused(h))
    BY <1>4
  <2>7. Grown(h, h, 0, class, snap, metas)
    BY <2>2, <2>3, <2>4, <2>5, <2>6 DEF Grown
  <2> QED
    BY <1>1, <2>7
<1>6. \A i \in 0..n : Grown(f[i], h, i, class, snap, metas)
  <2> DEFINE Bad == {i \in 0..n : ~Grown(f[i], h, i, class, snap, metas)}
  <2> SUFFICES ASSUME Bad # {} PROVE FALSE
    OBVIOUS
  <2>1. PICK i \in Bad : \A j \in Bad : i <= j
    <3>1. Bad \in SUBSET Nat
      OBVIOUS
    <3> HIDE DEF Bad
    <3> QED
      BY <3>1, FirstIn
  <2>2. i # 0 /\ i \in 1..n
    BY <2>1, <1>5
  <2>3. PICK j \in Nat : j = i - 1
    BY <2>2
  <2>4. Grown(f[j], h, j, class, snap, metas)
    BY <2>1, <2>2, <2>3
  <2>5. j + 1 = i /\ f[i] = Create(f[j], class, snap, metas[j + 1]) /\ metas[j + 1] \in STRING
    BY <2>2, <2>3, <1>1, <1>2, <1>3
  <2>6. Cardinality(Unused(h)) > j
    BY <2>2, <2>3, <1>2, <1>4
  <2>7. Grown(f[i], h, i, class, snap, metas)
    BY <2>4, <2>5, <2>6, GrownStep
  <2> QED
    BY <2>1, <2>7
<1> QED
  BY <1>1, <1>2, <1>6

-----------------------------------------------------------------------------
(* The invariant, of the versions v of the snapshots, the references h,    *)
(* the objects ob and the ones hd that the program holds.                  *)

Alloc(ob) == {o \in Object : ob[o].class # "none"}

(* An object with keys or functions is described by its snapshot.          *)
Known(w, class, m) == class \in {"table", "view", "aggregate"} => m \in DOMAIN Catalog[w][class]

KeyList(t, f) ==
  CASE f = "partition_key"  -> t.partition
    [] f = "clustering_key" -> t.clustering
    [] f = "primary_key"    -> t.partition \o t.clustering

(* What an object has cached exists, of the same snapshot.                 *)
KidsGood(h, ob, o) ==
  \A f \in DOMAIN ob[o].cache : \A i \in 1..Len(ob[o].cache[f]) :
    ob[o].cache[f][i] \in Alloc(ob) /\ h.ptr[ob[o].cache[f][i]] = h.ptr[o]

(* The same of an object given by its cache and its pointer.               *)
KidsOf(h, alloc, c, p) ==
  \A f \in DOMAIN c : \A i \in 1..Len(c[f]) : c[f][i] \in alloc /\ h.ptr[c[f][i]] = p

LEMMA KidsGoodIs ==
  ASSUME NEW h, NEW ob, NEW o
  PROVE  KidsGood(h, ob, o) <=> KidsOf(h, Alloc(ob), ob[o].cache, h.ptr[o])
BY Zenon DEF KidsGood, KidsOf

LEMMA KidsMoved ==
  ASSUME NEW g, NEW h, NEW old, NEW new, NEW c, NEW p, KidsOf(h, old, c, p),
         \A f \in DOMAIN c : \A i \in 1..Len(c[f]) :
           c[f][i] \in new /\ g.ptr[c[f][i]] = h.ptr[c[f][i]]
  PROVE  KidsOf(g, new, c, p)
BY Zenon DEF KidsOf

(* The keys it has cached are the readable ones among those of its table.  *)
KeysGood(v, h, ob, o) ==
  \A f \in DOMAIN ob[o].cache : f \in KeyFields =>
    /\ ob[o].class \in {"table", "view"}
    /\ LET ks == KeyList(Catalog[v[h.ptr[o]]][ob[o].class][ob[o].meta], f)
       IN  Kept("column", ks, Len(ks), NamesOf(ob, ob[o].cache[f]))

Good(v, h, ob, hd) ==
  /\ v \in [Snapshot -> 0..Len(Catalog)] /\ Sound(h, ob)
  /\ \A s \in Snapshot : v[s] = 0 => h.status[s] # "live"
  /\ hd \subseteq Alloc(ob)
  /\ \A o \in Alloc(ob) : Known(v[h.ptr[o]], ob[o].class, ob[o].meta)
  /\ \A o \in Alloc(ob) : KidsGood(h, ob, o) /\ KeysGood(v, h, ob, o)

(* Facts about an allocated object.                                        *)
LEMMA AllocatedIs ==
  ASSUME NEW v, NEW h, NEW ob, NEW hd, Good(v, h, ob, hd), NEW o \in Alloc(ob)
  PROVE  /\ o \in Object /\ ob[o] \in MetaObject /\ ob[o].class \in Classes \ {"none"}
         /\ h.ptr[o] \in Snapshot /\ h.status[h.ptr[o]] = "live"
         /\ v[h.ptr[o]] \in 1..Len(Catalog)
<1>1. o \in Object /\ ob[o].class # "none" /\ ob[o] \in MetaObject /\ h.ptr[o] # NULL
  BY DEF Alloc, Good, Sound
<1>2. h.ptr[o] \in Snapshot
  BY <1>1 DEF Good, Sound, HeapType
<1>3. h.status[h.ptr[o]] = "live"
  <2>1. PICK x \in Snapshot : x = h.ptr[o]
    BY <1>2
  <2>2. o \in Holders(h, Object, x) /\ IsFiniteSet(Holders(h, Object, x))
        /\ Cardinality(Holders(h, Object, x)) \in Nat
    BY <1>1, <2>1, ObjectsFinite, HoldersFinite DEF Holders
  <2>3. Cardinality(Holders(h, Object, x)) # 0
    BY <2>2, FS_EmptySet
  <2>4. h.count[x] = Cardinality(Holders(h, Object, x)) /\ (h.status[x] = "live" <=> h.count[x] > 0)
    BY DEF Good, Sound, HeapOK
  <2> QED
    BY <2>1, <2>2, <2>3, <2>4
<1>4. v[h.ptr[o]] \in 1..Len(Catalog)
  BY <1>2, <1>3, CatalogAssumption DEF Good
<1> QED
  BY <1>1, <1>2, <1>3, <1>4 DEF MetaObject

(* A cache maps fields to objects.                                         *)
LEMMA CacheIs ==
  ASSUME NEW c \in Caches
  PROVE  /\ DOMAIN c \subseteq Fields /\ c = [f \in DOMAIN c |-> c[f]]
         /\ \A f \in DOMAIN c : c[f] \in Seq(Object) /\ Len(c[f]) \in Nat
              /\ DOMAIN c[f] = 1..Len(c[f]) /\ \A i \in 1..Len(c[f]) : c[f][i] \in Object
<1>1. PICK F \in SUBSET Fields : c \in [F -> Seq(Object)]
  BY DEF Caches
<1>2. DOMAIN c = F /\ \A f \in F : c[f] \in Seq(Object)
  BY <1>1
<1> QED
  BY <1>1, <1>2

LEMMA GrowGood ==
  ASSUME NEW v, NEW h, NEW hd, Good(v, h.heap, h.obj, hd), NEW n \in Nat, NEW g, NEW class, NEW snap,
         NEW metas, snap \in Snapshot, class # "none",
         Grown(g, h, n, class, snap, metas), \A j \in 1..n : Known(v[snap], class, metas[j]),
         NEW ids \in SUBSET Alloc(g.obj)
  PROVE  Good(v, g.heap, g.obj, hd \cup ids)
<1>1. \A x \in Alloc(h.obj) : x \in Alloc(g.obj) /\ g.obj[x] = h.obj[x] /\ g.heap.ptr[x] = h.heap.ptr[x]
  BY DEF Grown, Alloc, Unused
<1>2. \A x \in Alloc(g.obj) \ Alloc(h.obj) : x \in Unused(h) \ Unused(g)
  BY DEF Grown, Alloc, Unused
<1>3. /\ v \in [Snapshot -> 0..Len(Catalog)] /\ Sound(g.heap, g.obj)
      /\ \A s \in Snapshot : v[s] = 0 => g.heap.status[s] # "live"
      /\ hd \cup ids \subseteq Alloc(g.obj)
  BY <1>1 DEF Good, Grown
<1>4. ASSUME NEW o \in Alloc(g.obj) \ Alloc(h.obj)
      PROVE  /\ Known(v[g.heap.ptr[o]], g.obj[o].class, g.obj[o].meta)
             /\ KidsGood(g.heap, g.obj, o) /\ KeysGood(v, g.heap, g.obj, o)
  <2>1. o \in Unused(h) \ Unused(g)
    BY <1>2
  <2>2. /\ g.obj[o].class = class /\ g.obj[o].cache = <<>> /\ g.heap.ptr[o] = snap
        /\ \E j \in 1..n : g.obj[o].meta = metas[j]
    BY <2>1 DEF Grown
  <2>3. Known(v[snap], class, g.obj[o].meta)
    BY <2>2
  <2>4. DOMAIN g.obj[o].cache = {}
    BY <2>2
  <2> QED
    BY <2>2, <2>3, <2>4 DEF KidsGood, KeysGood
<1>5. ASSUME NEW o \in Alloc(h.obj)
      PROVE  /\ Known(v[g.heap.ptr[o]], g.obj[o].class, g.obj[o].meta)
             /\ KidsGood(g.heap, g.obj, o) /\ KeysGood(v, g.heap, g.obj, o)
  <2>1. g.obj[o] = h.obj[o] /\ g.heap.ptr[o] = h.heap.ptr[o]
    BY <1>1
  <2>2. /\ Known(v[h.heap.ptr[o]], h.obj[o].class, h.obj[o].meta)
        /\ KidsGood(h.heap, h.obj, o) /\ KeysGood(v, h.heap, h.obj, o)
    BY DEF Good
  <2>3. PICK c : c = h.obj[o].cache
    OBVIOUS
  <2>4. \A f \in DOMAIN c : \A i \in 1..Len(c[f]) :
          /\ c[f][i] \in Alloc(h.obj) /\ h.heap.ptr[c[f][i]] = h.heap.ptr[o]
          /\ c[f][i] \in Alloc(g.obj) /\ g.obj[c[f][i]] = h.obj[c[f][i]]
          /\ g.heap.ptr[c[f][i]] = h.heap.ptr[c[f][i]]
    BY <2>2, <2>3, <1>1 DEF KidsGood
  <2>5. KidsGood(g.heap, g.obj, o)
    <3>1. KidsOf(h.heap, Alloc(h.obj), c, h.heap.ptr[o])
      BY <2>2, <2>3, KidsGoodIs, Zenon
    <3>2. \A f \in DOMAIN c : \A i \in 1..Len(c[f]) :
            c[f][i] \in Alloc(g.obj) /\ g.heap.ptr[c[f][i]] = h.heap.ptr[c[f][i]]
      BY <2>4, Zenon
    <3>3. KidsOf(g.heap, Alloc(g.obj), c, h.heap.ptr[o])
      BY <3>1, <3>2, KidsMoved, Zenon
    <3> QED
      BY <2>1, <2>3, <3>3, KidsGoodIs, Zenon
  <2>6. \A f \in DOMAIN c : NamesOf(g.obj, c[f]) = NamesOf(h.obj, c[f])
    BY <2>4 DEF NamesOf
  <2>7. KeysGood(v, g.heap, g.obj, o)
    BY <2>1, <2>2, <2>3, <2>6 DEF KeysGood
  <2> QED
    BY <2>1, <2>2, <2>5, <2>7
<1> QED
  BY <1>3, <1>4, <1>5 DEF Good

LEMMA CacheGood ==
  ASSUME NEW v, NEW h, NEW ob, NEW hd, Good(v, h, ob, hd), NEW o \in Alloc(ob),
         NEW field \in Fields, NEW ids \in Seq(Object),
         \A i \in 1..Len(ids) : ids[i] \in Alloc(ob) /\ h.ptr[ids[i]] = h.ptr[o],
         field \in KeyFields =>
           /\ ob[o].class \in {"table", "view"}
           /\ LET ks == KeyList(Catalog[v[h.ptr[o]]][ob[o].class][ob[o].meta], field)
              IN  Kept("column", ks, Len(ks), NamesOf(ob, ids)),
         NEW c, c = [f \in DOMAIN ob[o].cache \cup {field} |-> IF f = field THEN ids ELSE ob[o].cache[f]],
         NEW nb, nb = [ob EXCEPT ![o].cache = c]
  PROVE  Good(v, h, nb, hd)
<1>1. o \in Object /\ ob[o] \in MetaObject /\ ob[o].class \in Classes \ {"none"}
  BY AllocatedIs
<1>2. PICK old \in Caches : old = ob[o].cache
  BY <1>1 DEF MetaObject
<1>3. /\ DOMAIN old \subseteq Fields
      /\ \A f \in DOMAIN old : old[f] \in Seq(Object)
  BY CacheIs
<1>4. c = [f \in DOMAIN old \cup {field} |-> IF f = field THEN ids ELSE old[f]]
  BY <1>2
<1>5. c \in Caches
  <2>1. c \in [DOMAIN old \cup {field} -> Seq(Object)]
    BY <1>3, <1>4
  <2>2. DOMAIN old \cup {field} \in SUBSET Fields
    BY <1>3
  <2> QED
    BY <2>1, <2>2 DEF Caches
<1>7. ob \in [Object -> MetaObject]
  BY DEF Good, Sound
<1>8. /\ nb[o].class = ob[o].class /\ nb[o].meta = ob[o].meta /\ nb[o].cache = c
      /\ \A x \in Object \ {o} : nb[x] = ob[x]
      /\ nb \in [Object -> MetaObject]
  <2>1. [ob[o] EXCEPT !.cache = c] \in MetaObject
    BY <1>1, <1>5 DEF MetaObject
  <2>2. nb = [ob EXCEPT ![o] = [ob[o] EXCEPT !.cache = c]]
    OBVIOUS
  <2>3. ([ob[o] EXCEPT !.cache = c]).class = ob[o].class /\ ([ob[o] EXCEPT !.cache = c]).meta = ob[o].meta
        /\ ([ob[o] EXCEPT !.cache = c]).cache = c
    BY <1>1 DEF MetaObject
  <2> QED
    BY <1>1, <1>7, <2>1, <2>2, <2>3
<1>9. Alloc(nb) = Alloc(ob)
  BY <1>1, <1>8 DEF Alloc
<1>10. \A x \in Object : nb[x].meta = ob[x].meta /\ nb[x].class = ob[x].class
  BY <1>8
<1>11. Sound(h, nb)
  BY <1>1, <1>8, <1>10 DEF Good, Sound
<1>12. \A x \in Alloc(nb) : Known(v[h.ptr[x]], nb[x].class, nb[x].meta)
  BY <1>9, <1>10 DEF Good, Alloc
<1>13. ASSUME NEW s \in Seq(Object) PROVE NamesOf(nb, s) = NamesOf(ob, s)
  <2>1. \A k \in 1..Len(s) : s[k] \in Object
    OBVIOUS
  <2> QED
    BY <2>1, <1>10 DEF NamesOf
<1>14. ASSUME NEW x \in Alloc(nb) PROVE KidsGood(h, nb, x) /\ KeysGood(v, h, nb, x)
  <2>0. x \in Object /\ KidsGood(h, ob, x) /\ KeysGood(v, h, ob, x) /\ ob[x] \in MetaObject
    BY <1>9, <1>7 DEF Good, Alloc
  <2>1. CASE x # o
    <3>1. nb[x] = ob[x]
      BY <2>0, <2>1, <1>8
    <3>2. \A f \in DOMAIN ob[x].cache : ob[x].cache[f] \in Seq(Object)
      BY <2>0, CacheIs DEF MetaObject
    <3>3. KidsGood(h, nb, x)
      BY <3>1, <2>0, <1>9, KidsGoodIs, Zenon
    <3>4. \A f \in DOMAIN ob[x].cache : NamesOf(nb, ob[x].cache[f]) = NamesOf(ob, ob[x].cache[f])
      BY <3>2, <1>13
    <3>5. KeysGood(v, h, nb, x)
      BY <3>1, <3>4, <2>0 DEF KeysGood
    <3> QED
      BY <3>3, <3>5
  <2>2. CASE x = o
    <3>1. /\ nb[x].cache = c /\ nb[x].class = ob[o].class /\ nb[x].meta = ob[o].meta
          /\ DOMAIN c = DOMAIN old \cup {field}
          /\ c[field] = ids /\ \A f \in DOMAIN old : f # field => c[f] = old[f]
      BY <2>2, <1>4, <1>8
    <3>2. ASSUME NEW f \in DOMAIN c, NEW i \in 1..Len(c[f])
          PROVE  c[f][i] \in Alloc(nb) /\ h.ptr[c[f][i]] = h.ptr[x]
      <4>1. CASE f = field
        BY <4>1, <3>1, <2>2, <1>9
      <4>2. CASE f # field
        BY <4>2, <3>1, <2>0, <2>2, <1>9, <1>2 DEF KidsGood
      <4> QED
        BY <4>1, <4>2
    <3>3. ASSUME NEW f \in DOMAIN c, f \in KeyFields
          PROVE  /\ nb[x].class \in {"table", "view"}
                 /\ LET ks == KeyList(Catalog[v[h.ptr[x]]][nb[x].class][nb[x].meta], f)
                    IN  Kept("column", ks, Len(ks), NamesOf(nb, c[f]))
      <4>1. CASE f = field
        <5>1. NamesOf(nb, c[f]) = NamesOf(ob, ids)
          BY <4>1, <3>1, <1>13
        <5> QED
          BY <4>1, <3>1, <3>3, <2>2, <5>1
      <4>2. CASE f # field
        <5>1. f \in DOMAIN old /\ c[f] = old[f] /\ old[f] \in Seq(Object)
          BY <4>2, <3>1, <1>3
        <5>2. NamesOf(nb, c[f]) = NamesOf(ob, old[f])
          BY <5>1, <1>13
        <5> QED
          BY <3>1, <3>3, <2>0, <2>2, <5>1, <5>2, <1>2 DEF KeysGood
      <4> QED
        BY <4>1, <4>2
    <3>4. KidsGood(h, nb, x)
      <4> SUFFICES ASSUME NEW f \in DOMAIN nb[x].cache, NEW i \in 1..Len(nb[x].cache[f])
                   PROVE  /\ nb[x].cache[f][i] \in Alloc(nb)
                          /\ h.ptr[nb[x].cache[f][i]] = h.ptr[x]
        BY DEF KidsGood
      <4>1. f \in DOMAIN c /\ i \in 1..Len(c[f]) /\ nb[x].cache[f] = c[f]
        BY <3>1
      <4>2. c[f][i] \in Alloc(nb) /\ h.ptr[c[f][i]] = h.ptr[x]
        BY <3>2, <4>1, Zenon
      <4> QED
        BY <4>1, <4>2, Zenon
    <3>5. KeysGood(v, h, nb, x)
      BY <3>1, <3>3 DEF KeysGood
    <3> QED
      BY <3>4, <3>5
  <2> QED
    BY <2>1, <2>2
<1> QED
  BY <1>9, <1>11, <1>12, <1>14 DEF Good

-----------------------------------------------------------------------------
(* Dropping objects.                                                       *)

(* The elements of a finite set in some order.                             *)
LEMMA SetToSeqIs ==
  ASSUME NEW S, IsFiniteSet(S)
  PROVE  /\ SetToSeq(S) \in Seq(S) /\ Len(SetToSeq(S)) = Cardinality(S) /\ Cardinality(S) \in Nat
         /\ \A x \in S : \E i \in 1..Cardinality(S) : SetToSeq(S)[i] = x
<1>1. PICK n \in Nat : n = Cardinality(S) /\ ExistsBijection(1..n, S)
  BY FS_CardinalityType
<1>2. PICK f \in Bijection(1..n, S) : TRUE
  BY <1>1 DEF ExistsBijection
<1>3. f \in [1..n -> S] /\ IsInjective(f)
  BY <1>2 DEF Bijection, Injection, IsInjective
<1>4. PICK g : g = SetToSeq(S)
  OBVIOUS
<1>5. g \in [1..n -> S] /\ IsInjective(g)
  BY <1>1, <1>3, <1>4 DEF SetToSeq
<1>6. g \in Seq(S) /\ Len(g) = n
  BY <1>5
<1>7. g \in Surjection(1..n, S)
  <2>1. g \in Injection(1..n, S)
    BY <1>5 DEF Injection, IsInjective
  <2>2. Cardinality(1..n) = n /\ IsFiniteSet(1..n)
    BY FS_Interval
  <2> QED
    BY <2>1, <2>2, <1>1, FS_Injection
<1> QED
  BY <1>1, <1>4, <1>6, <1>7 DEF Surjection

LEMMA DelPerefsOK ==
  ASSUME NEW h, HeapType(h, Object, Snapshot), HeapOK(h, Object, Snapshot), NEW os \in Seq(Object)
  PROVE  LET g == DelPerefs(h, os)
         IN  /\ HeapType(g, Object, Snapshot) /\ HeapOK(g, Object, Snapshot)
             /\ \A x \in Object : g.ptr[x] = IF \E k \in 1..Len(os) : os[k] = x THEN NULL ELSE h.ptr[x]
<1>0. PICK f : DelSteps(f, h, os)
  <2>1. Len(os) \in Nat
    OBVIOUS
  <2> QED
    BY <2>1, DelPerefsIs
<1>1. /\ f[0] = h /\ DelPerefs(h, os) = f[Len(os)]
      /\ \A i \in 1..Len(os) : f[i] = DelPeref(f[i - 1], os[i])
  BY <1>0 DEF DelSteps
<1>2. PICK n \in Nat : n = Len(os)
  OBVIOUS
<1> DEFINE P(i) == /\ HeapType(f[i], Object, Snapshot) /\ HeapOK(f[i], Object, Snapshot)
                   /\ \A x \in Object :
                        f[i].ptr[x] = IF \E k \in 1..i : os[k] = x THEN NULL ELSE h.ptr[x]
<1>3. P(0)
  <2>1. \A x \in Object : ~ \E k \in 1..0 : os[k] = x
    OBVIOUS
  <2> QED
    BY <1>1, <2>1
<1>4. ASSUME NEW i \in 1..n, P(i - 1) PROVE P(i)
  <2>1. PICK a : a = f[i - 1]
    OBVIOUS
  <2>2. PICK o \in Object : o = os[i]
    BY <1>2
  <2>3. /\ HeapType(a, Object, Snapshot) /\ HeapOK(a, Object, Snapshot)
        /\ \A x \in Object : a.ptr[x] = IF \E k \in 1..(i - 1) : os[k] = x THEN NULL ELSE h.ptr[x]
    BY <1>4, <2>1
  <2>4. f[i] = DelPeref(a, o)
    BY <1>1, <1>2, <2>1, <2>2
  <2>5. HeapType(f[i], Object, Snapshot) /\ HeapOK(f[i], Object, Snapshot)
    BY <2>3, <2>4, ObjectsFinite, NullIsNoSnapshot, DelPerefOK
  <2>6. f[i].ptr[o] = NULL /\ \A x \in Object \ {o} : f[i].ptr[x] = a.ptr[x]
    <3>1. a.ptr \in [Object -> Snapshot \cup {NULL}]
      BY <2>3 DEF HeapType
    <3> QED
      BY <3>1, <2>4 DEF DelPeref
  <2>7. ASSUME NEW x \in Object
        PROVE  f[i].ptr[x] = IF \E k \in 1..i : os[k] = x THEN NULL ELSE h.ptr[x]
    <3>1. CASE x = o
      <4>1. \E k \in 1..i : os[k] = x
        BY <3>1, <2>2
      <4> QED
        BY <4>1, <3>1, <2>6
    <3>2. CASE x # o
      <4>1. (\E k \in 1..i : os[k] = x) <=> (\E k \in 1..(i - 1) : os[k] = x)
        <5>1. \A k \in 1..i : k = i \/ k \in 1..(i - 1)
          OBVIOUS
        <5>2. \A k \in 1..(i - 1) : k \in 1..i
          OBVIOUS
        <5> QED
          BY <5>1, <5>2, <3>2, <2>2
      <4> QED
        BY <4>1, <3>2, <2>6, <2>3
    <3> QED
      BY <3>1, <3>2
  <2> QED
    BY <2>5, <2>7
<1> HIDE DEF P
<1>5. P(n)
  <2> DEFINE Bad == {i \in 0..n : ~P(i)}
  <2> SUFFICES ASSUME Bad # {} PROVE FALSE
    OBVIOUS
  <2>1. PICK i \in Bad : \A j \in Bad : i <= j
    <3>1. Bad \in SUBSET Nat
      OBVIOUS
    <3> HIDE DEF Bad
    <3> QED
      BY <3>1, FirstIn
  <2>2. i \in 1..n
    BY <2>1, <1>3
  <2>3. P(i - 1)
    BY <2>1, <2>2
  <2> QED
    BY <2>1, <2>2, <2>3, <1>4
<1> QED
  BY <1>1, <1>2, <1>5 DEF P

(* Of F, nothing is cached in an object outside F.                         *)
Unreferenced(ob, F) ==
  \A y \in Alloc(ob) \ F : \A f \in DOMAIN ob[y].cache : \A i \in 1..Len(ob[y].cache[f]) :
    ob[y].cache[f][i] \notin F

(* Without F, h and ob are g and nb.                                       *)
Cleared(h, ob, F, g, nb) ==
  /\ HeapType(g, Object, Snapshot) /\ HeapOK(g, Object, Snapshot)
  /\ \A x \in Object : g.ptr[x] = IF x \in F THEN NULL ELSE h.ptr[x]
  /\ nb = [x \in Object |-> IF x \in F THEN NoObject ELSE ob[x]]

(* The objects F are freed, which nothing else refers to.                  *)
LEMMA FreedGood ==
  ASSUME NEW v, NEW h, NEW ob, NEW hd, Good(v, h, ob, hd), NEW F \in SUBSET Object,
         NEW hd2 \in SUBSET (hd \ F), Unreferenced(ob, F),
         NEW g, NEW nb, Cleared(h, ob, F, g, nb)
  PROVE  Good(v, g, nb, hd2)
<1>0. /\ \A y \in Alloc(ob) \ F : \A f \in DOMAIN ob[y].cache : \A i \in 1..Len(ob[y].cache[f]) :
           ob[y].cache[f][i] \notin F
      /\ HeapType(g, Object, Snapshot) /\ HeapOK(g, Object, Snapshot)
      /\ \A x \in Object : g.ptr[x] = IF x \in F THEN NULL ELSE h.ptr[x]
      /\ nb = [x \in Object |-> IF x \in F THEN NoObject ELSE ob[x]]
  BY DEF Unreferenced, Cleared
<1>1. /\ \A x \in Object \ F : nb[x] = ob[x] /\ g.ptr[x] = h.ptr[x]
      /\ \A x \in F : nb[x] = NoObject /\ g.ptr[x] = NULL /\ nb[x].class = "none"
  BY <1>0 DEF NoObject
<1>2. Alloc(nb) = Alloc(ob) \ F
  BY <1>1 DEF Alloc
<1>3. Sound(g, nb)
  <2>1. NoObject \in MetaObject
    BY EmptyCache DEF NoObject, MetaObject, Classes
  <2>2. nb \in [Object -> MetaObject]
    BY <1>0, <2>1 DEF Good, Sound
  <2>3. ASSUME NEW x \in Object
        PROVE  /\ nb[x].class = "none" => nb[x] = NoObject
               /\ nb[x].class = "none" <=> g.ptr[x] = NULL
    <3>1. CASE x \in F
      BY <3>1, <1>1
    <3>2. CASE x \notin F
      BY <3>2, <1>1 DEF Good, Sound
    <3> QED
      BY <3>1, <3>2
  <2> QED
    BY <1>0, <2>2, <2>3 DEF Sound
<1>4. ASSUME NEW s \in Snapshot, v[s] = 0 PROVE g.status[s] # "live"
  <2> SUFFICES ASSUME g.status[s] = "live" PROVE FALSE
    OBVIOUS
  <2>1. g.count[s] = Cardinality(Holders(g, Object, s)) /\ g.count[s] > 0
    BY <1>0 DEF HeapOK
  <2>2. Holders(g, Object, s) # {}
    <3>1. Cardinality({}) = 0
      BY FS_EmptySet
    <3> SUFFICES ASSUME Holders(g, Object, s) = {} PROVE FALSE
      OBVIOUS
    <3>2. g.count[s] = 0
      BY <2>1, <3>1, Zenon
    <3> QED
      BY <2>1, <3>2
  <2>3. PICK x \in Object : g.ptr[x] = s
    BY <2>2 DEF Holders
  <2>4. s # NULL
    BY NullIsNoSnapshot
  <2>5. x \notin F /\ h.ptr[x] = s
    BY <1>0, <2>3, <2>4
  <2>6. x \in Alloc(ob)
    BY <2>4, <2>5 DEF Alloc, Good, Sound
  <2>7. v[h.ptr[x]] \in 1..Len(Catalog)
    BY <2>6, AllocatedIs
  <2> QED
    BY <2>5, <2>7, <1>4
<1>5. hd2 \subseteq Alloc(nb)
  BY <1>2 DEF Good
<1>6. ASSUME NEW o \in Alloc(nb)
      PROVE  /\ Known(v[g.ptr[o]], nb[o].class, nb[o].meta)
             /\ KidsGood(g, nb, o) /\ KeysGood(v, g, nb, o)
  <2>1. o \in Alloc(ob) /\ o \notin F /\ nb[o] = ob[o] /\ g.ptr[o] = h.ptr[o]
    BY <1>1, <1>2 DEF Alloc
  <2>2. /\ Known(v[h.ptr[o]], ob[o].class, ob[o].meta)
        /\ KidsGood(h, ob, o) /\ KeysGood(v, h, ob, o)
    BY <2>1 DEF Good
  <2>3. PICK c : c = ob[o].cache
    OBVIOUS
  <2>4. \A f \in DOMAIN c : \A i \in 1..Len(c[f]) :
          c[f][i] \in Alloc(ob) \ F /\ h.ptr[c[f][i]] = h.ptr[o]
    BY <1>0, <2>1, <2>2, <2>3 DEF KidsGood
  <2>5. \A x \in Alloc(ob) \ F : x \in Alloc(nb) /\ nb[x] = ob[x] /\ g.ptr[x] = h.ptr[x]
    BY <1>1, <1>2 DEF Alloc
  <2>6. KidsGood(g, nb, o)
    <3>1. nb[o].cache = c
      BY <2>1, <2>3
    <3> SUFFICES ASSUME NEW f \in DOMAIN c, NEW i \in 1..Len(c[f])
                 PROVE  c[f][i] \in Alloc(nb) /\ g.ptr[c[f][i]] = g.ptr[o]
      BY <3>1 DEF KidsGood
    <3>2. c[f][i] \in Alloc(ob) \ F /\ h.ptr[c[f][i]] = h.ptr[o]
      BY <2>4
    <3> QED
      BY <3>2, <2>1, <2>5
  <2>7. \A f \in DOMAIN c : NamesOf(nb, c[f]) = NamesOf(ob, c[f])
    BY <2>4, <2>5 DEF NamesOf
  <2>8. KeysGood(v, g, nb, o)
    BY <2>1, <2>2, <2>3, <2>7 DEF KeysGood
  <2> QED
    BY <2>1, <2>2, <2>6, <2>8
<1>7. v \in [Snapshot -> 0..Len(Catalog)]
  BY DEF Good
<1> QED
  BY <1>3, <1>4, <1>5, <1>6, <1>7 DEF Good

(* Session::schema: the first reference to a new snapshot.                 *)
LEMMA SnapshotGood ==
  ASSUME NEW v, NEW h, NEW ob, NEW hd, Good(v, h, ob, hd), NEW o \in Object \ Alloc(ob),
         NEW s \in Snapshot, v[s] = 0, NEW w \in 1..Len(Catalog)
  PROVE  Good([v EXCEPT ![s] = w], NewPeref(h, o, s),
              [ob EXCEPT ![o] = [class |-> "schema", meta |-> NULL, cache |-> <<>>]], hd \cup {o})
<1>1. PICK nv, g, nb : /\ nv = [v EXCEPT ![s] = w] /\ g = NewPeref(h, o, s)
                       /\ nb = [ob EXCEPT ![o] = [class |-> "schema", meta |-> NULL, cache |-> <<>>]]
  OBVIOUS
<1>2. /\ HeapType(h, Object, Snapshot) /\ HeapOK(h, Object, Snapshot) /\ h.ptr[o] = NULL
      /\ h.status[s] # "live" /\ ob \in [Object -> MetaObject] /\ ob[o].class = "none"
      /\ v \in [Snapshot -> 0..Len(Catalog)]
  BY DEF Good, Sound, Alloc
<1>3. HeapType(g, Object, Snapshot) /\ HeapOK(g, Object, Snapshot)
  BY <1>1, <1>2, ObjectsFinite, NullIsNoSnapshot, NewPerefOK
<1>4. /\ g.ptr[o] = s /\ \A x \in Object \ {o} : g.ptr[x] = h.ptr[x]
      /\ \A t \in Snapshot \ {s} : g.status[t] = h.status[t]
  <2>1. h.ptr \in [Object -> Snapshot \cup {NULL}] /\ h.status \in [Snapshot -> {"unused", "live", "freed"}]
    BY <1>2 DEF HeapType
  <2> QED
    BY <2>1, <1>1 DEF NewPeref
<1>5. /\ nb \in [Object -> MetaObject] /\ nb[o].class = "schema" /\ nb[o].cache = <<>>
      /\ \A x \in Object \ {o} : nb[x] = ob[x]
  <2>1. [class |-> "schema", meta |-> NULL, cache |-> <<>>] \in MetaObject
    BY EmptyCache DEF MetaObject, Classes
  <2> QED
    BY <2>1, <1>1, <1>2
<1>6. /\ nv \in [Snapshot -> 0..Len(Catalog)] /\ nv[s] = w /\ nv[s] # 0
      /\ \A t \in Snapshot \ {s} : nv[t] = v[t]
  BY <1>1, <1>2, CatalogAssumption
<1>7. Alloc(nb) = Alloc(ob) \cup {o}
  BY <1>5 DEF Alloc
<1>8. Sound(g, nb)
  <2>1. ASSUME NEW x \in Object
        PROVE  /\ nb[x].class = "none" => nb[x] = NoObject
               /\ nb[x].class = "none" <=> g.ptr[x] = NULL
    <3>1. CASE x = o
      BY <3>1, <1>4, <1>5, NullIsNoSnapshot
    <3>2. CASE x # o
      BY <3>2, <1>4, <1>5 DEF Good, Sound
    <3> QED
      BY <3>1, <3>2
  <2> QED
    BY <2>1, <1>3, <1>5 DEF Sound
<1>9. ASSUME NEW x \in Alloc(ob)
      PROVE  x \in Object \ {o} /\ nb[x] = ob[x] /\ g.ptr[x] = h.ptr[x] /\ nv[g.ptr[x]] = v[h.ptr[x]]
  <2>1. x \in Object \ {o} /\ h.ptr[x] \in Snapshot /\ h.status[h.ptr[x]] = "live"
    BY AllocatedIs
  <2>2. h.ptr[x] # s
    BY <2>1, <1>2
  <2> QED
    BY <2>1, <2>2, <1>4, <1>5, <1>6
<1>10. ASSUME NEW x \in Alloc(nb)
       PROVE  /\ Known(nv[g.ptr[x]], nb[x].class, nb[x].meta)
              /\ KidsGood(g, nb, x) /\ KeysGood(nv, g, nb, x)
  <2>1. CASE x = o
    <3>1. DOMAIN nb[x].cache = {}
      BY <2>1, <1>5
    <3> QED
      BY <3>1, <2>1, <1>5 DEF Known, KidsGood, KeysGood
  <2>2. CASE x # o
    <3>1. x \in Alloc(ob)
      BY <2>2, <1>7
    <3>2. nb[x] = ob[x] /\ g.ptr[x] = h.ptr[x] /\ nv[g.ptr[x]] = v[h.ptr[x]]
      BY <3>1, <1>9
    <3>3. Known(v[h.ptr[x]], ob[x].class, ob[x].meta) /\ KidsGood(h, ob, x) /\ KeysGood(v, h, ob, x)
      BY <3>1 DEF Good
    <3>4. PICK c : c = ob[x].cache
      OBVIOUS
    <3>5. \A f \in DOMAIN c : \A i \in 1..Len(c[f]) :
            /\ c[f][i] \in Alloc(ob) /\ h.ptr[c[f][i]] = h.ptr[x] /\ c[f][i] \in Alloc(nb)
            /\ nb[c[f][i]] = ob[c[f][i]] /\ g.ptr[c[f][i]] = h.ptr[c[f][i]]
      BY <3>3, <3>4, <1>7, <1>9 DEF KidsGood
    <3>6. KidsGood(g, nb, x)
      BY <3>2, <3>4, <3>5 DEF KidsGood
    <3>7. \A f \in DOMAIN c : NamesOf(nb, c[f]) = NamesOf(ob, c[f])
      BY <3>5 DEF NamesOf
    <3>8. KeysGood(nv, g, nb, x)
      BY <3>2, <3>3, <3>4, <3>7 DEF KeysGood
    <3> QED
      BY <3>2, <3>3, <3>6, <3>8
  <2> QED
    BY <2>1, <2>2
<1>11. ASSUME NEW t \in Snapshot, nv[t] = 0 PROVE g.status[t] # "live"
  <2>1. t # s /\ v[t] = 0
    BY <1>6, <1>11
  <2> QED
    BY <2>1, <1>4 DEF Good
<1>12. hd \cup {o} \subseteq Alloc(nb)
  BY <1>7 DEF Good
<1>13. Good(nv, g, nb, hd \cup {o})
  BY <1>6, <1>8, <1>10, <1>11, <1>12 DEF Good
<1> QED
  BY <1>1, <1>13

-----------------------------------------------------------------------------
(* The invariant of the specification.                                     *)

Inv == server \in 1..Len(Catalog) /\ Good(version, heap, obj, held)

LEMMA InitInv == Init => Inv
<1> SUFFICES ASSUME Init PROVE Inv
  OBVIOUS
<1>1. server \in 1..Len(Catalog) /\ version \in [Snapshot -> 0..Len(Catalog)]
  BY CatalogAssumption DEF Init
<1>2. /\ heap = EmptyHeap(Object, Snapshot) /\ obj = [o \in Object |-> NoObject] /\ held = {}
  BY DEF Init
<1>3. /\ heap.ptr = [o \in Object |-> NULL] /\ heap.count = [x \in Snapshot |-> 0]
      /\ heap.status = [x \in Snapshot |-> "unused"]
  BY <1>2 DEF EmptyHeap
<1>4. HeapType(heap, Object, Snapshot)
  BY <1>2 DEF HeapType, EmptyHeap
<1>5. HeapOK(heap, Object, Snapshot)
  <2>1. \A x \in Snapshot : Holders(heap, Object, x) = {}
    BY <1>3, NullIsNoSnapshot DEF Holders
  <2> QED
    BY <2>1, <1>3, FS_EmptySet DEF HeapOK
<1>6. Alloc(obj) = {}
  BY <1>2 DEF Alloc, NoObject
<1>7. Sound(heap, obj)
  <2>1. NoObject \in MetaObject /\ NoObject.class = "none"
    BY EmptyCache DEF NoObject, MetaObject, Classes
  <2> QED
    BY <2>1, <1>2, <1>3, <1>4, <1>5 DEF Sound
<1> QED
  BY <1>1, <1>2, <1>3, <1>6, <1>7 DEF Inv, Good

(* What the program holds.                                                 *)
LEMMA HeldIs ==
  ASSUME Inv, NEW o \in held
  PROVE  /\ o \in Alloc(obj) /\ o \in Object /\ obj[o] \in MetaObject
         /\ obj[o].class \in Classes \ {"none"}
         /\ Snap(o) \in Snapshot /\ heap.status[Snap(o)] = "live"
         /\ version[Snap(o)] \in 1..Len(Catalog)
         /\ Known(version[Snap(o)], obj[o].class, obj[o].meta)
         /\ KidsGood(heap, obj, o) /\ KeysGood(version, heap, obj, o)
<1>1. o \in Alloc(obj) /\ Good(version, heap, obj, held)
  BY DEF Inv, Good
<1>2. /\ o \in Object /\ obj[o] \in MetaObject /\ obj[o].class \in Classes \ {"none"}
      /\ heap.ptr[o] \in Snapshot /\ heap.status[heap.ptr[o]] = "live"
      /\ version[heap.ptr[o]] \in 1..Len(Catalog)
  BY <1>1, AllocatedIs
<1> QED
  BY <1>1, <1>2 DEF Good, Snap

(* A method that only answers.                                             *)
LEMMA AnswerOK ==
  ASSUME Inv, NEW kind, NEW value, Answer(kind, value)
  PROVE  Inv'
<1>1. /\ heap' = heap /\ obj' = obj /\ held' = held /\ version' = version /\ server' = server
  BY DEF Answer, Keep, Now
<1> QED
  BY <1>1 DEF Inv

LEMMA NowIs ==
  ASSUME Inv
  PROVE  /\ Built(Now) /\ Sound(Now.heap, Now.obj) /\ Now.made = <<>>
         /\ Now.heap = heap /\ Now.obj = obj
BY DEF Inv, Good, Now, Built

(* A method that creates one object.                                       *)
LEMMA ByNameOK ==
  ASSUME Inv, NEW o \in held, NEW class \in Classes \ {"none", "schema"}, NEW names \in SUBSET STRING,
         \A m \in names : Known(version[Snap(o)], class, m), ByName(o, class, names)
  PROVE  Inv'
<1>1. CASE Answer("FALSE", NULL)
  BY <1>1, AnswerOK
<1>2. CASE \E m \in names :
             LET h == Create(Now, class, Snap(o), m)
             IN  Keep(h, ToSet(h.made), IF h.made = <<>> THEN "exception" ELSE "object", NULL)
  <2>1. PICK m \in names :
          LET h == Create(Now, class, Snap(o), m)
          IN  Keep(h, ToSet(h.made), IF h.made = <<>> THEN "exception" ELSE "object", NULL)
    BY <1>2
  <2>2. PICK h : h = Create(Now, class, Snap(o), m)
    OBVIOUS
  <2>3. /\ heap' = h.heap /\ obj' = h.obj /\ held' = held \cup ToSet(h.made)
        /\ version' = version /\ server' = server
    BY <2>1, <2>2 DEF Keep
  <2>4. PICK ms : ms = <<m>> /\ ms[1] = m
    <3>1. <<m>>[1] = m
      OBVIOUS
    <3> QED
      BY <3>1, Zenon
  <2>5. Cardinality(Unused(Now)) > 0 /\ Cardinality(Unused(Now)) \in Nat
    <3>1. Cardinality(Unused(Now)) \in Nat
      BY ObjectsFinite DEF Unused
    <3> QED
      BY <3>1 DEF ByName, Room
  <2>6. Snap(o) \in Snapshot /\ Now.heap.status[Snap(o)] = "live"
    BY HeldIs, NowIs
  <2>7. Grown(Now, Now, 0, class, Snap(o), ms)
    <3>0. Now.made = <<>>
      BY NowIs
    <3>1. NamesOf(Now.obj, Now.made) = <<>> /\ Now.made \in Seq(Object)
      BY <3>0 DEF NamesOf
    <3>2. Kept(class, ms, 0, NamesOf(Now.obj, Now.made))
      BY <3>1, KeptNone
    <3>3. \A k \in 1..Len(Now.made) : FALSE
      BY NowIs
    <3>4. \A x \in Unused(Now) \ Unused(Now) : FALSE
      OBVIOUS
    <3>5. Cardinality(Unused(Now)) + 0 >= Cardinality(Unused(Now))
      BY <2>5
    <3> QED
      BY <3>1, <3>2, <3>3, <3>4, <3>5, NowIs DEF Grown
  <2>8. Grown(h, Now, 1, class, Snap(o), ms)
    <3>1. PICK n \in Nat : n = 0 /\ n + 1 = 1
      OBVIOUS
    <3>2. Grown(Create(Now, class, Snap(o), ms[n + 1]), Now, n + 1, class, Snap(o), ms)
      BY <3>1, <2>4, <2>5, <2>6, <2>7, GrownStep
    <3> QED
      BY <3>1, <3>2, <2>2, <2>4
  <2>9. ToSet(h.made) \subseteq Alloc(h.obj)
    BY <2>8 DEF Grown, ToSet, Alloc, Unused
  <2>10. \A j \in 1..1 : Known(version[Snap(o)], class, ms[j])
    BY <2>4
  <2>11. Good(version, Now.heap, Now.obj, held)
    BY NowIs DEF Inv
  <2>12. Good(version, h.heap, h.obj, held \cup ToSet(h.made))
    BY <2>6, <2>8, <2>9, <2>10, <2>11, GrowGood
  <2> QED
    BY <2>3, <2>12 DEF Inv
<1> QED
  BY <1>1, <1>2 DEF ByName

(* What CreateAll has built of an object's snapshot.                       *)
LEMMA CreateAllGood ==
  ASSUME Inv, NEW o \in held, NEW class \in Classes \ {"none", "schema"}, NEW metas \in Seq(STRING),
         \A j \in 1..Len(metas) : Known(version[Snap(o)], class, metas[j]), Room(Len(metas)),
         NEW h, h = CreateAll(Now, class, Snap(o), metas)
  PROVE  /\ Grown(h, Now, Len(metas), class, Snap(o), metas)
         /\ ToSet(h.made) \subseteq Alloc(h.obj)
         /\ \A ids \in SUBSET Alloc(h.obj) : Good(version, h.heap, h.obj, held \cup ids)
<1>1. Snap(o) \in Snapshot /\ Now.heap.status[Snap(o)] = "live"
  BY HeldIs, NowIs
<1>2. Grown(h, Now, Len(metas), class, Snap(o), metas)
  BY <1>1, NowIs, CreateAllGrown DEF Room
<1>3. ToSet(h.made) \subseteq Alloc(h.obj)
  BY <1>2 DEF Grown, ToSet, Alloc, Unused
<1>4. Good(version, Now.heap, Now.obj, held)
  BY NowIs DEF Inv
<1>5. ASSUME NEW ids \in SUBSET Alloc(h.obj) PROVE Good(version, h.heap, h.obj, held \cup ids)
  <2>1. PICK n \in Nat : n = Len(metas)
    OBVIOUS
  <2> QED
    BY <1>1, <1>2, <1>4, <2>1, GrowGood
<1> QED
  BY <1>2, <1>3, <1>5

(* A method that creates an object for every name.                         *)
LEMMA EveryOK ==
  ASSUME Inv, NEW o \in held, NEW class \in Classes \ {"none", "schema"}, NEW names \in SUBSET STRING,
         IsFiniteSet(names),
         \A m \in names : Known(version[Snap(o)], class, m), Every(o, class, names)
  PROVE  Inv'
<1>1. CASE Answer("exception", NULL)
  BY <1>1, AnswerOK
<1>2. CASE ~Answer("exception", NULL)
  <2>1. PICK metas : metas = SetToSeq(names)
    OBVIOUS
  <2>2. /\ metas \in Seq(names) /\ Len(metas) = Cardinality(names)
    BY <2>1, SetToSeqIs
  <2>3. /\ metas \in Seq(STRING) /\ \A j \in 1..Len(metas) : metas[j] \in names
    <3>1. PICK n \in Nat : n = Len(metas)
      BY <2>2
    <3>2. metas \in [1..n -> names]
      BY <2>2, <3>1
    <3>3. metas \in [1..n -> STRING]
      BY <3>2
    <3> QED
      BY <3>1, <3>2, <3>3
  <2>4. PICK h : h = CreateAll(Now, class, Snap(o), metas)
    OBVIOUS
  <2>5. Room(Len(metas)) /\ Keep(h, ToSet(h.made), "array", NULL)
    BY <1>2, <2>1, <2>2, <2>4 DEF Every
  <2>6. Good(version, h.heap, h.obj, held \cup ToSet(h.made))
    BY <2>3, <2>4, <2>5, CreateAllGood
  <2> QED
    BY <2>5, <2>6 DEF Keep, Inv
<1> QED
  BY <1>1, <1>2

(* A method that builds its result once.                                   *)
LEMMA CachedOK ==
  ASSUME Inv, NEW o \in held, NEW class \in Classes \ {"none", "schema"}, NEW metas \in Seq(STRING),
         \A j \in 1..Len(metas) : Known(version[Snap(o)], class, metas[j]),
         NEW field \in Fields,
         field \in KeyFields => /\ class = "column" /\ obj[o].class \in {"table", "view"}
                               /\ metas = KeyList(Meta(o), field),
         Cached(o, field, class, metas)
  PROVE  Inv'
<1>0. /\ o \in Alloc(obj) /\ o \in Object /\ obj[o] \in MetaObject
      /\ KidsGood(heap, obj, o)
  BY HeldIs
<1>1. CASE field \in DOMAIN obj[o].cache
  <2>1. Keep(Now, ToSet(obj[o].cache[field]), "cached", NULL)
    BY <1>1 DEF Cached
  <2>2. /\ heap' = heap /\ obj' = obj /\ held' = held \cup ToSet(obj[o].cache[field])
        /\ version' = version /\ server' = server
    BY <2>1 DEF Keep, Now
  <2>3. obj[o].cache \in Caches
    BY <1>0 DEF MetaObject
  <2>4. DOMAIN obj[o].cache[field] = 1..Len(obj[o].cache[field])
    BY <2>3, <1>1, CacheIs
  <2>5. ToSet(obj[o].cache[field]) \subseteq Alloc(obj)
    BY <1>0, <1>1, <2>4 DEF KidsGood, ToSet
  <2> QED
    BY <2>2, <2>5 DEF Inv, Good
<1>2. CASE field \notin DOMAIN obj[o].cache
  <2>1. PICK h : h = CreateAll(Now, class, Snap(o), metas)
    OBVIOUS
  <2>2. PICK g : g = [h EXCEPT !.obj[o].cache =
                        [f \in DOMAIN @ \cup {field} |-> IF f = field THEN h.made ELSE @[f]]]
    OBVIOUS
  <2>3. /\ Room(Len(metas))
        /\ \/ Keep(g, {}, "exception", NULL)
           \/ Keep(g, ToSet(h.made), "array", NULL)
    BY <1>2, <2>1, <2>2 DEF Cached
  <2>4. /\ Grown(h, Now, Len(metas), class, Snap(o), metas)
        /\ ToSet(h.made) \subseteq Alloc(h.obj)
        /\ \A ids \in SUBSET Alloc(h.obj) : Good(version, h.heap, h.obj, held \cup ids)
    BY <2>1, <2>3, CreateAllGood
  <2>5. PICK ids \in SUBSET Alloc(h.obj) :
          /\ heap' = g.heap /\ obj' = g.obj /\ held' = held \cup ids
          /\ version' = version /\ server' = server
    BY <2>3, <2>4 DEF Keep
  <2>6. /\ h.obj[o] = obj[o] /\ h.heap.ptr[o] = heap.ptr[o] /\ o \in Alloc(h.obj)
        /\ h.made \in Seq(Object) /\ Built(h)
        /\ \A k \in 1..Len(h.made) : h.made[k] \in Alloc(h.obj) /\ h.heap.ptr[h.made[k]] = heap.ptr[o]
        /\ Kept(class, metas, Len(metas), NamesOf(h.obj, h.made))
    <3>1. o \notin Unused(Now)
      BY <1>0, NowIs DEF Unused, Alloc
    <3>2. h.obj[o] = obj[o] /\ h.heap.ptr[o] = heap.ptr[o]
      BY <3>1, <1>0, <2>4, NowIs DEF Grown
    <3>3. o \in Alloc(h.obj)
      BY <3>2, <1>0 DEF Alloc
    <3>4. \A k \in 1..Len(h.made) : h.made[k] \in Alloc(h.obj) /\ h.heap.ptr[h.made[k]] = Snap(o)
      BY <2>4 DEF Grown, Alloc, Unused
    <3> QED
      BY <3>2, <3>3, <3>4, <2>4 DEF Grown, Snap
  <2>7. PICK c : c = [f \in DOMAIN h.obj[o].cache \cup {field} |->
                        IF f = field THEN h.made ELSE h.obj[o].cache[f]]
    OBVIOUS
  <2>8. g.heap = h.heap /\ g.obj = [h.obj EXCEPT ![o].cache = c]
    <3>1. PICK hh, ho, hm : h = [heap |-> hh, obj |-> ho, made |-> hm]
      BY <2>6 DEF Built
    <3> QED
      BY <3>1, <2>2, <2>7
  <2>9. Good(version, h.heap, h.obj, held \cup ids)
    BY <2>4, <2>5
  <2>10. field \in KeyFields =>
           /\ h.obj[o].class \in {"table", "view"}
           /\ LET ks == KeyList(Catalog[version[h.heap.ptr[o]]][h.obj[o].class][h.obj[o].meta], field)
              IN  Kept("column", ks, Len(ks), NamesOf(h.obj, h.made))
    BY <2>6 DEF Meta, Cat, Snap
  <2>11. \A k \in 1..Len(h.made) : h.made[k] \in Alloc(h.obj) /\ h.heap.ptr[h.made[k]] = h.heap.ptr[o]
    BY <2>6
  <2>12. Good(version, h.heap, [h.obj EXCEPT ![o].cache = c], held \cup ids)
    <3>1. PICK hp, hb, md, hd : hp = h.heap /\ hb = h.obj /\ md = h.made /\ hd = held \cup ids
      OBVIOUS
    <3>2. /\ Good(version, hp, hb, hd) /\ o \in Alloc(hb) /\ md \in Seq(Object)
          /\ \A k \in 1..Len(md) : md[k] \in Alloc(hb) /\ hp.ptr[md[k]] = hp.ptr[o]
      BY <3>1, <2>6, <2>9, <2>11
    <3>3. field \in KeyFields =>
            /\ hb[o].class \in {"table", "view"}
            /\ LET ks == KeyList(Catalog[version[hp.ptr[o]]][hb[o].class][hb[o].meta], field)
               IN  Kept("column", ks, Len(ks), NamesOf(hb, md))
      BY <3>1, <2>10
    <3>4. c = [f \in DOMAIN hb[o].cache \cup {field} |-> IF f = field THEN md ELSE hb[o].cache[f]]
      BY <3>1, <2>7
    <3>5. PICK nb : nb = [hb EXCEPT ![o].cache = c]
      OBVIOUS
    <3>6. Good(version, hp, nb, hd)
      BY <3>2, <3>3, <3>4, <3>5, CacheGood
    <3> QED
      BY <3>1, <3>5, <3>6
  <2> QED
    BY <2>5, <2>8, <2>12 DEF Inv
<1> QED
  BY <1>1, <1>2

-----------------------------------------------------------------------------
(* The methods.                                                            *)

(* The names in a version of the schema.                                   *)
LEMMA CatalogIs ==
  ASSUME NEW w \in 1..Len(Catalog)
  PROVE  LET c == Catalog[w]
         IN  /\ IsFiniteSet(c.keyspaces) /\ c.keyspaces \subseteq STRING
             /\ IsFiniteSet(DOMAIN c.table) /\ DOMAIN c.table \subseteq STRING
             /\ IsFiniteSet(DOMAIN c.view) /\ DOMAIN c.view \subseteq STRING
             /\ IsFiniteSet(c.function) /\ c.function \subseteq STRING
             /\ IsFiniteSet(DOMAIN c.aggregate) /\ DOMAIN c.aggregate \subseteq STRING
             /\ c["table"] = c.table /\ c["view"] = c.view /\ c["aggregate"] = c.aggregate
BY CatalogAssumption

(* What the snapshot of a table or view says of it.                        *)
LEMMA TableIs ==
  ASSUME Inv, NEW o \in held, obj[o].class \in {"table", "view"}
  PROVE  /\ Meta(o).columns \in Seq(STRING) /\ Meta(o).partition \in Seq(STRING)
         /\ Meta(o).clustering \in Seq(STRING)
         /\ IsFiniteSet(Meta(o).indexes) /\ Meta(o).indexes \subseteq STRING
         /\ Meta(o).views \subseteq DOMAIN Cat(o)["view"]
         /\ IsFiniteSet(Meta(o).views) /\ Meta(o).views \subseteq STRING
         /\ obj[o].class = "view" => Meta(o).base \in DOMAIN Cat(o)["table"] /\ Meta(o).base \in STRING
<1>1. PICK w \in 1..Len(Catalog) : w = version[Snap(o)]
  BY HeldIs
<1>2. PICK class \in {"table", "view"} : class = obj[o].class
  OBVIOUS
<1>3. obj[o].meta \in DOMAIN Catalog[w][class]
  BY <1>1, <1>2, HeldIs DEF Known
<1>4. PICK m \in DOMAIN Catalog[w][class] : m = obj[o].meta
  BY <1>3
<1>5. PICK t : t = Catalog[w][class][m]
  OBVIOUS
<1>6. Meta(o) = t /\ Cat(o) = Catalog[w]
  BY <1>1, <1>2, <1>4, <1>5 DEF Meta, Cat
<1>7. /\ {t.columns, t.partition, t.clustering} \subseteq Seq(STRING)
      /\ IsFiniteSet(t.indexes) /\ t.indexes \subseteq STRING
      /\ t.views \subseteq DOMAIN Catalog[w].view
      /\ class = "view" => t.base \in DOMAIN Catalog[w].table
  BY <1>5, CatalogAssumption
<1>8. /\ IsFiniteSet(DOMAIN Catalog[w].view) /\ DOMAIN Catalog[w].view \subseteq STRING
      /\ DOMAIN Catalog[w].table \subseteq STRING
      /\ Catalog[w]["view"] = Catalog[w].view /\ Catalog[w]["table"] = Catalog[w].table
  BY CatalogIs
<1>9. IsFiniteSet(t.views) /\ t.views \subseteq STRING
  BY <1>7, <1>8, FS_Subset
<1> QED
  BY <1>2, <1>6, <1>7, <1>8, <1>9

(* The elements of a sequence of strings.                                  *)
LEMMA ToSetIs ==
  ASSUME NEW s \in Seq(STRING)
  PROVE  ToSet(s) \subseteq STRING /\ IsFiniteSet(ToSet(s))
<1>1. PICK n \in Nat : n = Len(s)
  OBVIOUS
<1>2. s \in [1..n -> STRING]
  BY <1>1
<1>3. ToSet(s) \subseteq STRING
  BY <1>2 DEF ToSet
<1>4. s \in Surjection(1..n, ToSet(s))
  BY <1>2 DEF Surjection, ToSet
<1>5. IsFiniteSet(1..n)
  BY FS_Interval
<1> QED
  BY <1>3, <1>4, <1>5, FS_Surjection

LEMMA NewClasses ==
  /\ {"keyspace", "table", "view", "index", "column", "function", "aggregate"}
       \subseteq Classes \ {"none", "schema"}
  /\ KeyFields \subseteq Fields /\ {"base_table", "state_function", "final_function"} \subseteq Fields \ KeyFields
  /\ {"partition_key", "primary_key", "clustering_key"} \subseteq KeyFields
BY DEF Classes, Fields, KeyFields

LEMMA OnSchemaOK ==
  ASSUME Inv, NEW o \in held, OnSchema(o)
  PROVE  Inv'
<1>1. IsFiniteSet(Cat(o).keyspaces) /\ Cat(o).keyspaces \in SUBSET STRING
  BY HeldIs, CatalogIs DEF Cat
<1>2. \A m \in Cat(o).keyspaces : Known(version[Snap(o)], "keyspace", m)
  BY DEF Known
<1>3. CASE DefaultSchema_keyspace(o)
  BY <1>1, <1>2, <1>3, ByNameOK, NewClasses DEF DefaultSchema_keyspace
<1>4. CASE DefaultSchema_keyspaces(o)
  BY <1>1, <1>2, <1>4, EveryOK, NewClasses DEF DefaultSchema_keyspaces
<1>5. CASE DefaultSchema_version(o)
  BY <1>5, AnswerOK DEF DefaultSchema_version
<1> QED
  BY <1>3, <1>4, <1>5 DEF OnSchema

LEMMA OnKeyspaceOK ==
  ASSUME Inv, NEW o \in held, OnKeyspace(o)
  PROVE  Inv'
<1>0. PICK w \in 1..Len(Catalog) : w = version[Snap(o)] /\ Cat(o) = Catalog[w]
  BY HeldIs DEF Cat
<1>1. /\ IsFiniteSet(DOMAIN Cat(o).table) /\ DOMAIN Cat(o).table \in SUBSET STRING
      /\ IsFiniteSet(DOMAIN Cat(o).view) /\ DOMAIN Cat(o).view \in SUBSET STRING
      /\ IsFiniteSet(Cat(o).function) /\ Cat(o).function \in SUBSET STRING
      /\ IsFiniteSet(DOMAIN Cat(o).aggregate) /\ DOMAIN Cat(o).aggregate \in SUBSET STRING
  BY <1>0, CatalogIs
<1>2. /\ \A m \in DOMAIN Cat(o).table : Known(version[Snap(o)], "table", m)
      /\ \A m \in DOMAIN Cat(o).view : Known(version[Snap(o)], "view", m)
      /\ \A m \in Cat(o).function : Known(version[Snap(o)], "function", m)
      /\ \A m \in DOMAIN Cat(o).aggregate : Known(version[Snap(o)], "aggregate", m)
  BY <1>0, CatalogIs DEF Known
<1>3. CASE DefaultKeyspace_fields(o)
  BY <1>3, AnswerOK DEF DefaultKeyspace_fields, php_driver_get_keyspace_field, Read
<1>4. CASE DefaultKeyspace_table(o)
  BY <1>1, <1>2, <1>4, ByNameOK, NewClasses DEF DefaultKeyspace_table
<1>5. CASE DefaultKeyspace_tables(o)
  BY <1>1, <1>2, <1>5, EveryOK, NewClasses DEF DefaultKeyspace_tables
<1>6. CASE DefaultKeyspace_materializedView(o)
  BY <1>1, <1>2, <1>6, ByNameOK, NewClasses DEF DefaultKeyspace_materializedView
<1>7. CASE DefaultKeyspace_materializedViews(o)
  BY <1>1, <1>2, <1>7, EveryOK, NewClasses DEF DefaultKeyspace_materializedViews
<1>8. CASE DefaultKeyspace_userType(o)
  BY <1>8, AnswerOK DEF DefaultKeyspace_userType
<1>9. CASE DefaultKeyspace_userTypes(o)
  BY <1>9, AnswerOK DEF DefaultKeyspace_userTypes
<1>10. CASE DefaultKeyspace_function(o)
  BY <1>1, <1>2, <1>10, ByNameOK, AnswerOK, NewClasses
     DEF DefaultKeyspace_function, php_driver_arguments_string
<1>11. CASE DefaultKeyspace_functions(o)
  BY <1>1, <1>2, <1>11, EveryOK, NewClasses DEF DefaultKeyspace_functions
<1>12. CASE DefaultKeyspace_aggregate(o)
  BY <1>1, <1>2, <1>12, ByNameOK, AnswerOK, NewClasses
     DEF DefaultKeyspace_aggregate, php_driver_arguments_string
<1>13. CASE DefaultKeyspace_aggregates(o)
  BY <1>1, <1>2, <1>13, EveryOK, NewClasses DEF DefaultKeyspace_aggregates
<1> QED
  BY <1>3, <1>4, <1>5, <1>6, <1>7, <1>8, <1>9, <1>10, <1>11, <1>12, <1>13 DEF OnKeyspace

(* A key of a table or view, cached.                                       *)
LEMMA KeyCachedOK ==
  ASSUME Inv, NEW o \in held, obj[o].class \in {"table", "view"}, NEW field \in KeyFields,
         NEW metas, metas = KeyList(Meta(o), field), Cached(o, field, "column", metas)
  PROVE  Inv'
<1>1. Meta(o).partition \in Seq(STRING) /\ Meta(o).clustering \in Seq(STRING)
  BY TableIs
<1>2. Meta(o).partition \o Meta(o).clustering \in Seq(STRING)
  BY <1>1
<1>3. metas \in Seq(STRING)
  BY <1>1, <1>2 DEF KeyList, KeyFields
<1>4. \A j \in 1..Len(metas) : Known(version[Snap(o)], "column", metas[j])
  BY DEF Known
<1>5. field \in Fields /\ "column" \in Classes \ {"none", "schema"}
  BY NewClasses
<1> QED
  BY <1>3, <1>4, <1>5, CachedOK

LEMMA KeyListIs ==
  ASSUME NEW t
  PROVE  /\ KeyList(t, "partition_key") = t.partition /\ KeyList(t, "clustering_key") = t.clustering
         /\ KeyList(t, "primary_key") = t.partition \o t.clustering
BY DEF KeyList

(* The methods a table and a view have in common.                          *)
LEMMA TableMethodOK ==
  ASSUME Inv, NEW o \in held, obj[o].class \in {"table", "view"},
         \/ php_driver_table_get_option(o)
         \/ \E kind, value : Answer(kind, value)
         \/ ByName(o, "column", ToSet(Meta(o).columns)) \/ Every(o, "column", ToSet(Meta(o).columns))
         \/ Cached(o, "partition_key", "column", Meta(o).partition)
         \/ Cached(o, "clustering_key", "column", Meta(o).clustering)
         \/ Cached(o, "primary_key", "column", Meta(o).partition \o Meta(o).clustering)
  PROVE  Inv'
<1>1. /\ Meta(o).columns \in Seq(STRING)
  BY TableIs
<1>2. ToSet(Meta(o).columns) \in SUBSET STRING /\ IsFiniteSet(ToSet(Meta(o).columns))
  BY <1>1, ToSetIs
<1>3. \A m \in ToSet(Meta(o).columns) : Known(version[Snap(o)], "column", m)
  BY DEF Known
<1>4. CASE php_driver_table_get_option(o)
  BY <1>4, AnswerOK DEF php_driver_table_get_option, Read
<1>5. CASE \E kind, value : Answer(kind, value)
  BY <1>5, AnswerOK
<1>6. CASE ByName(o, "column", ToSet(Meta(o).columns))
  BY <1>2, <1>3, <1>6, ByNameOK, NewClasses
<1>7. CASE Every(o, "column", ToSet(Meta(o).columns))
  BY <1>2, <1>3, <1>7, EveryOK, NewClasses
<1>8. CASE Cached(o, "partition_key", "column", Meta(o).partition)
  BY <1>8, KeyCachedOK, KeyListIs, NewClasses
<1>9. CASE Cached(o, "clustering_key", "column", Meta(o).clustering)
  BY <1>9, KeyCachedOK, KeyListIs, NewClasses
<1>10. CASE Cached(o, "primary_key", "column", Meta(o).partition \o Meta(o).clustering)
  BY <1>10, KeyCachedOK, KeyListIs, NewClasses
<1> QED
  BY <1>4, <1>5, <1>6, <1>7, <1>8, <1>9, <1>10

LEMMA OnTableOK ==
  ASSUME Inv, NEW o \in held, OnTable(o)
  PROVE  Inv'
<1>0. obj[o].class = "table"
  BY DEF OnTable, A, DefaultTable_name, DefaultTable_option, DefaultTable_options, DefaultTable_getters1,
     DefaultTable_getters2, DefaultTable_column, DefaultTable_columns, DefaultTable_partitionKey,
     DefaultTable_primaryKey, DefaultTable_clusteringKey, DefaultTable_clusteringOrder,
     DefaultTable_index, DefaultTable_indexes, DefaultTable_materializedView,
     DefaultTable_materializedViews
<1>1. /\ IsFiniteSet(Meta(o).indexes) /\ Meta(o).indexes \in SUBSET STRING
      /\ Meta(o).views \subseteq DOMAIN Cat(o)["view"]
      /\ IsFiniteSet(Meta(o).views) /\ Meta(o).views \in SUBSET STRING
  BY <1>0, TableIs
<1>2. /\ \A m \in Meta(o).indexes : Known(version[Snap(o)], "index", m)
      /\ \A m \in Meta(o).views : Known(version[Snap(o)], "view", m)
  BY <1>1 DEF Known, Cat
<1>3. CASE DefaultTable_name(o) \/ DefaultTable_clusteringOrder(o) \/ DefaultTable_options(o)
  BY <1>3, AnswerOK DEF DefaultTable_name, DefaultTable_clusteringOrder, DefaultTable_options, Read
<1>4. CASE DefaultTable_option(o) \/ DefaultTable_getters1(o) \/ DefaultTable_getters2(o)
  BY <1>0, <1>4, TableMethodOK DEF DefaultTable_option, DefaultTable_getters1, DefaultTable_getters2
<1>5. CASE DefaultTable_column(o) \/ DefaultTable_columns(o)
  BY <1>0, <1>5, TableMethodOK DEF DefaultTable_column, DefaultTable_columns
<1>6. CASE DefaultTable_partitionKey(o) \/ DefaultTable_clusteringKey(o) \/ DefaultTable_primaryKey(o)
  BY <1>0, <1>6, TableMethodOK DEF DefaultTable_partitionKey, DefaultTable_clusteringKey,
     DefaultTable_primaryKey, populate_partition_key, populate_clustering_key
<1>7. CASE DefaultTable_index(o)
  BY <1>1, <1>2, <1>7, ByNameOK, NewClasses DEF DefaultTable_index
<1>8. CASE DefaultTable_indexes(o)
  BY <1>1, <1>2, <1>8, EveryOK, NewClasses DEF DefaultTable_indexes
<1>9. CASE DefaultTable_materializedView(o)
  BY <1>1, <1>2, <1>9, ByNameOK, NewClasses DEF DefaultTable_materializedView
<1>10. CASE DefaultTable_materializedViews(o)
  BY <1>1, <1>2, <1>10, EveryOK, NewClasses DEF DefaultTable_materializedViews
<1> QED
  BY <1>3, <1>4, <1>5, <1>6, <1>7, <1>8, <1>9, <1>10 DEF OnTable

LEMMA OnViewOK ==
  ASSUME Inv, NEW o \in held, OnView(o)
  PROVE  Inv'
<1>0. obj[o].class = "view"
  BY DEF OnView, A, DefaultMaterializedView_name, DefaultMaterializedView_option,
     DefaultMaterializedView_options, DefaultMaterializedView_getters1, DefaultMaterializedView_getters2,
     DefaultMaterializedView_column, DefaultMaterializedView_columns,
     DefaultMaterializedView_partitionKey, DefaultMaterializedView_primaryKey,
     DefaultMaterializedView_clusteringKey, DefaultMaterializedView_clusteringOrder,
     DefaultMaterializedView_baseTable
<1>1. CASE \/ DefaultMaterializedView_name(o) \/ DefaultMaterializedView_clusteringOrder(o)
           \/ DefaultMaterializedView_options(o)
  BY <1>1, AnswerOK DEF DefaultMaterializedView_name, DefaultMaterializedView_clusteringOrder,
     DefaultMaterializedView_options, Read
<1>2. CASE \/ DefaultMaterializedView_option(o) \/ DefaultMaterializedView_getters1(o)
           \/ DefaultMaterializedView_getters2(o)
  BY <1>0, <1>2, TableMethodOK DEF DefaultMaterializedView_option, DefaultMaterializedView_getters1,
     DefaultMaterializedView_getters2, php_driver_materialized_view_get_option
<1>3. CASE DefaultMaterializedView_column(o) \/ DefaultMaterializedView_columns(o)
  BY <1>0, <1>3, TableMethodOK DEF DefaultMaterializedView_column, DefaultMaterializedView_columns
<1>4. CASE \/ DefaultMaterializedView_partitionKey(o) \/ DefaultMaterializedView_clusteringKey(o)
           \/ DefaultMaterializedView_primaryKey(o)
  BY <1>0, <1>4, TableMethodOK DEF DefaultMaterializedView_partitionKey,
     DefaultMaterializedView_clusteringKey, DefaultMaterializedView_primaryKey
<1>5. CASE DefaultMaterializedView_baseTable(o)
  <2>1. Meta(o).base \in DOMAIN Cat(o)["table"] /\ Meta(o).base \in STRING
    BY <1>0, TableIs
  <2>2. PICK metas : metas = <<Meta(o).base>>
    OBVIOUS
  <2>3. metas \in Seq(STRING) /\ \A j \in 1..Len(metas) : metas[j] = Meta(o).base
    BY <2>1, <2>2
  <2>4. \A j \in 1..Len(metas) : Known(version[Snap(o)], "table", metas[j])
    BY <2>1, <2>3 DEF Known, Cat
  <2>5. Cached(o, "base_table", "table", metas)
    BY <1>5, <2>2 DEF DefaultMaterializedView_baseTable
  <2>6. "base_table" \in Fields /\ "base_table" \notin KeyFields /\ "table" \in Classes \ {"none", "schema"}
    BY NewClasses
  <2> QED
    BY <2>3, <2>4, <2>5, <2>6, CachedOK
<1> QED
  BY <1>1, <1>2, <1>3, <1>4, <1>5 DEF OnView

LEMMA OnLeafOK ==
  ASSUME Inv, NEW o \in held, OnLeaf(o)
  PROVE  Inv'
<1>1. CASE \/ DefaultColumn_getters(o) \/ DefaultIndex_getters(o) \/ DefaultFunction_getters(o)
           \/ DefaultAggregate_getters(o)
  BY <1>1, AnswerOK DEF DefaultColumn_getters, DefaultIndex_getters, DefaultFunction_getters,
     DefaultAggregate_getters, Read
<1>2. ASSUME obj[o].class = "aggregate", NEW field \in {"state_function", "final_function"}, NEW f,
             f \in {Meta(o).state, Meta(o).final}, AggregateFunction(o, field, f)
      PROVE  Inv'
  <2>1. CASE f = NULL
    BY <1>2, <2>1, AnswerOK DEF AggregateFunction
  <2>2. CASE f # NULL
    <3>1. PICK w \in 1..Len(Catalog) : w = version[Snap(o)] /\ Cat(o) = Catalog[w]
      BY HeldIs DEF Cat
    <3>2. obj[o].meta \in DOMAIN Catalog[w]["aggregate"]
      BY <1>2, <3>1, HeldIs DEF Known
    <3>3. PICK m \in DOMAIN Catalog[w].aggregate : m = obj[o].meta
      BY <3>2, CatalogIs
    <3>4. Meta(o) = Catalog[w].aggregate[m]
      BY <1>2, <3>1, <3>3, CatalogIs DEF Meta
    <3>5. f \in STRING
      <4>1. {Catalog[w].aggregate[m].state, Catalog[w].aggregate[m].final} \subseteq STRING \cup {NULL}
        BY CatalogAssumption
      <4> QED
        BY <4>1, <1>2, <2>2, <3>4
    <3>6. PICK metas : metas = <<f>>
      OBVIOUS
    <3>7. metas \in Seq(STRING)
      BY <3>5, <3>6
    <3>8. \A j \in 1..Len(metas) : Known(version[Snap(o)], "function", metas[j])
      BY DEF Known
    <3>9. Cached(o, field, "function", metas)
      BY <1>2, <2>2, <3>6 DEF AggregateFunction
    <3>10. field \in Fields /\ field \notin KeyFields /\ "function" \in Classes \ {"none", "schema"}
      BY <1>2, NewClasses
    <3> QED
      BY <3>7, <3>8, <3>9, <3>10, CachedOK
  <2> QED
    BY <2>1, <2>2
<1>3. CASE DefaultAggregate_stateFunction(o)
  BY <1>2, <1>3 DEF DefaultAggregate_stateFunction, A
<1>4. CASE DefaultAggregate_finalFunction(o)
  BY <1>2, <1>4 DEF DefaultAggregate_finalFunction, A
<1> QED
  BY <1>1, <1>3, <1>4 DEF OnLeaf

-----------------------------------------------------------------------------
(* The other steps.                                                        *)

LEMMA schemaOK ==
  ASSUME Inv, schema
  PROVE  Inv'
<1>1. PICK s \in Snapshot :
        /\ Room(1) /\ version[s] = 0
        /\ LET o == CHOOSE x \in Unused(Now) : \A y \in Unused(Now) : x <= y
           IN  /\ heap' = NewPeref(heap, o, s)
               /\ obj' = [obj EXCEPT ![o] = [class |-> "schema", meta |-> NULL, cache |-> <<>>]]
               /\ held' = held \cup {o}
        /\ version' = [version EXCEPT ![s] = server] /\ server' = server
  BY DEF schema
<1>2. Unused(Now) \in SUBSET Object /\ Unused(Now) = Object \ Alloc(obj)
  BY DEF Unused, Now, Alloc
<1>3. Unused(Now) # {} /\ Unused(Now) \in SUBSET Nat
  <2>1. Cardinality(Unused(Now)) >= 1
    BY <1>1 DEF Room
  <2>2. Cardinality({}) = 0
    BY FS_EmptySet
  <2>3. Unused(Now) # {}
    BY <2>1, <2>2
  <2>4. Object \subseteq Nat
    BY ObjectsFinite
  <2> QED
    BY <2>3, <2>4, <1>2
<1>4. PICK o : o = CHOOSE x \in Unused(Now) : \A y \in Unused(Now) : x <= y
  OBVIOUS
<1>5. o \in Object \ Alloc(obj)
  <2>1. \E x \in Unused(Now) : \A y \in Unused(Now) : x <= y
    BY <1>3, FirstIn
  <2>2. o \in Unused(Now)
    BY <1>4, <2>1
  <2> QED
    BY <2>2, <1>2
<1>6. /\ heap' = NewPeref(heap, o, s)
      /\ obj' = [obj EXCEPT ![o] = [class |-> "schema", meta |-> NULL, cache |-> <<>>]]
      /\ held' = held \cup {o} /\ version' = [version EXCEPT ![s] = server] /\ server' = server
  BY <1>1, <1>4
<1>7. server \in 1..Len(Catalog) /\ Good(version, heap, obj, held)
  BY DEF Inv
<1>8. Good([version EXCEPT ![s] = server], NewPeref(heap, o, s),
           [obj EXCEPT ![o] = [class |-> "schema", meta |-> NULL, cache |-> <<>>]], held \cup {o})
  BY <1>1, <1>5, <1>7, SnapshotGood
<1> QED
  BY <1>6, <1>7, <1>8 DEF Inv

LEMMA AlterOK ==
  ASSUME Inv, Alter
  PROVE  Inv'
<1>1. server' \in 1..Len(Catalog)
  BY CatalogAssumption DEF Inv, Alter
<1> QED
  BY <1>1 DEF Inv, Alter

(* The objects an object has cached.                                       *)
LEMMA KidsAre ==
  ASSUME NEW y \in Object, obj[y].cache \in Caches
  PROVE  /\ Kids(y) \subseteq Object
         /\ \A f \in DOMAIN obj[y].cache : \A i \in 1..Len(obj[y].cache[f]) :
              obj[y].cache[f][i] \in Kids(y)
<1>1. PICK c \in Caches : c = obj[y].cache
  OBVIOUS
<1>2. \A f \in DOMAIN c : DOMAIN c[f] = 1..Len(c[f]) /\ \A i \in 1..Len(c[f]) : c[f][i] \in Object
  BY CacheIs
<1>3. Kids(y) = UNION {ToSet(s) : s \in Range(c)}
  BY <1>1 DEF Kids
<1>4. Range(c) = {c[f] : f \in DOMAIN c}
  BY DEF Range
<1>5. \A f \in DOMAIN c : ToSet(c[f]) = {c[f][i] : i \in 1..Len(c[f])}
  BY <1>2 DEF ToSet
<1>6. Kids(y) \subseteq Object
  BY <1>2, <1>3, <1>4, <1>5
<1>7. \A f \in DOMAIN c : \A i \in 1..Len(c[f]) : c[f][i] \in Kids(y)
  BY <1>3, <1>4, <1>5
<1> QED
  BY <1>1, <1>6, <1>7

(* Drop frees the objects that nothing else refers to, and only those.     *)
LEMMA DropOK ==
  ASSUME Inv, NEW o \in held, Drop(o)
  PROVE  Inv'
<1>1. PICK gone, freed : gone = Dropped(o) /\ freed = {x \in gone : obj[x].class \in FreeInstalled}
  OBVIOUS
<1>2. /\ held' = held \ {o} /\ heap' = DelPerefs(heap, SetToSeq(freed))
      /\ obj' = [x \in Object |-> IF x \in freed THEN NoObject ELSE obj[x]]
      /\ server' = server /\ version' = version
  BY <1>1 DEF Drop
<1>3. PICK others : others = (held \ {o}) \cup UNION {Kids(x) : x \in Allocated \ {o}}
  OBVIOUS
<1>4. gone = IF o \in others THEN {}
             ELSE {o} \cup (IF obj[o].class \in FreeInstalled THEN Kids(o) \ others ELSE {})
  BY <1>1, <1>3 DEF Dropped
<1>5. Good(version, heap, obj, held) /\ o \in Object /\ obj[o].cache \in Caches
  BY HeldIs DEF Inv, MetaObject
<1>6. freed \in SUBSET Object
  BY <1>1, <1>4, <1>5, KidsAre
<1>7. \A x \in freed : x \notin others
  BY <1>1, <1>4
<1>8. held \ {o} \in SUBSET (held \ freed)
  BY <1>3, <1>7
<1>9. freed # {} => o \in freed
  BY <1>1, <1>4
<1>10. ASSUME NEW y \in Alloc(obj) \ freed, NEW f \in DOMAIN obj[y].cache,
              NEW i \in 1..Len(obj[y].cache[f])
       PROVE  obj[y].cache[f][i] \notin freed
  <2>1. CASE freed = {}
    BY <2>1
  <2>2. CASE freed # {}
    <3>1. y # o /\ y \in Allocated \ {o}
      BY <2>2, <1>9 DEF Alloc, Allocated
    <3>2. y \in Object /\ obj[y].cache \in Caches
      BY <1>5, AllocatedIs DEF MetaObject
    <3>3. obj[y].cache[f][i] \in Kids(y)
      BY <3>2, KidsAre
    <3>4. obj[y].cache[f][i] \in others
      BY <3>1, <3>3, <1>3
    <3> QED
      BY <3>4, <1>7
  <2> QED
    BY <2>1, <2>2
<1>11. PICK os : os = SetToSeq(freed)
  OBVIOUS
<1>12. /\ os \in Seq(freed) /\ os \in Seq(Object) /\ \A x \in freed : \E k \in 1..Len(os) : os[k] = x
       /\ \A k \in 1..Len(os) : os[k] \in freed
  <2>1. IsFiniteSet(freed)
    BY <1>6, ObjectsFinite
  <2>2. /\ SetToSeq(freed) \in Seq(freed) /\ Len(SetToSeq(freed)) = Cardinality(freed)
        /\ \A x \in freed : \E i \in 1..Cardinality(freed) : SetToSeq(freed)[i] = x
    BY <2>1, SetToSeqIs
  <2>3. os \in Seq(freed) /\ \A x \in freed : \E k \in 1..Len(os) : os[k] = x
    BY <2>2, <1>11
  <2>4. os \in Seq(Object)
    BY <2>3, <1>6
  <2> QED
    BY <2>3, <2>4
<1>13. PICK g : g = DelPerefs(heap, os)
  OBVIOUS
<1>14. /\ HeapType(g, Object, Snapshot) /\ HeapOK(g, Object, Snapshot)
       /\ \A x \in Object : g.ptr[x] = IF \E k \in 1..Len(os) : os[k] = x THEN NULL ELSE heap.ptr[x]
  <2>1. HeapType(heap, Object, Snapshot) /\ HeapOK(heap, Object, Snapshot)
    BY <1>5 DEF Good, Sound
  <2> QED
    BY <2>1, <1>12, <1>13, DelPerefsOK
<1>15. \A x \in Object : g.ptr[x] = IF x \in freed THEN NULL ELSE heap.ptr[x]
  BY <1>12, <1>14
<1>16. PICK nb : nb = [x \in Object |-> IF x \in freed THEN NoObject ELSE obj[x]]
  OBVIOUS
<1>17. Good(version, g, nb, held \ {o})
  <2>1. Unreferenced(obj, freed)
    BY <1>10 DEF Unreferenced
  <2>2. Cleared(heap, obj, freed, g, nb)
    BY <1>14, <1>15, <1>16 DEF Cleared
  <2> QED
    BY <1>5, <1>6, <1>8, <2>1, <2>2, FreedGood
<1>18. heap' = g /\ obj' = nb
  BY <1>2, <1>11, <1>13, <1>16
<1> QED
  BY <1>2, <1>17, <1>18 DEF Inv

LEMMA InvStep == Inv /\ [Next]_vars => Inv'
<1> SUFFICES ASSUME Inv, [Next]_vars PROVE Inv'
  OBVIOUS
<1>1. CASE schema
  BY <1>1, schemaOK
<1>2. CASE Alter
  BY <1>2, AlterOK
<1>3. ASSUME NEW o \in held,
             OnSchema(o) \/ OnKeyspace(o) \/ OnTable(o) \/ OnView(o) \/ OnLeaf(o) \/ Drop(o)
      PROVE  Inv'
  BY <1>3, OnSchemaOK, OnKeyspaceOK, OnTableOK, OnViewOK, OnLeafOK, DropOK
<1>4. CASE UNCHANGED vars
  BY <1>4 DEF vars, Inv
<1> QED
  BY <1>1, <1>2, <1>3, <1>4 DEF Next

LEMMA InvAlways == Spec => []Inv
BY InitInv, InvStep, PTL DEF Spec

-----------------------------------------------------------------------------
(* The properties.                                                         *)

(* Session::schema and the metadata objects: however the program builds,   *)
(* caches and drops them, and however often the schema is altered between, *)
(* a snapshot is freed exactly when its last reference is returned, and    *)
(* every object that can still be reached points into one that is not.     *)
THEOREM SnapshotsStayAlive == Spec => []SchemaAlive
<1>1. Inv => SchemaAlive
  <2> SUFFICES ASSUME Inv PROVE SchemaAlive
    OBVIOUS
  <2>1. Good(version, heap, obj, held) /\ HeapOK(heap, Object, Snapshot)
    BY DEF Inv, Good, Sound
  <2>2. ASSUME NEW o \in Allocated PROVE Snap(o) # NULL /\ heap.status[Snap(o)] = "live"
    <3>1. o \in Alloc(obj)
      BY DEF Allocated, Alloc
    <3>2. heap.ptr[o] \in Snapshot /\ heap.status[heap.ptr[o]] = "live"
      BY <2>1, <3>1, AllocatedIs
    <3> QED
      BY <3>2, NullIsNoSnapshot DEF Snap
  <2> QED
    BY <2>1, <2>2 DEF SchemaAlive
<1> QED
  BY <1>1, InvAlways, PTL

(* The keys of a table or view of the catalog are sequences of names.      *)
LEMMA CatalogKeys ==
  ASSUME NEW w \in 1..Len(Catalog), NEW class \in {"table", "view"},
         NEW m \in DOMAIN Catalog[w][class]
  PROVE  {Catalog[w][class][m].partition, Catalog[w][class][m].clustering} \subseteq Seq(STRING)
<1>1. {Catalog[w][class][m].columns, Catalog[w][class][m].partition, Catalog[w][class][m].clustering}
        \subseteq Seq(STRING)
  BY CatalogAssumption, ZenonT(60)
<1> QED
  BY <1>1, Zenon

(* The keys of a table or a view, each built on first use and possibly     *)
(* after the schema was altered, are those of the object's own snapshot:   *)
(* the primary key is the partition key followed by the clustering key,    *)
(* and a key column is missing only if its validator could not be read.    *)
THEOREM CachedKeysAgree == Spec => []KeysAgree
<1>1. Inv => KeysAgree
  <2> SUFFICES ASSUME Inv, NEW o \in Allocated
               PROVE  LET c == obj[o].cache
                      IN  /\ \A f \in DOMAIN c : \A i \in DOMAIN c[f] : Snap(c[f][i]) = Snap(o)
                          /\ {"partition_key", "primary_key", "clustering_key"} \subseteq DOMAIN c =>
                               Names(o, "primary_key") = Names(o, "partition_key") \o Names(o, "clustering_key")
                          /\ "primary_key" \in DOMAIN c =>
                               ToSet(Meta(o).partition \o Meta(o).clustering)
                                 \subseteq ToSet(Names(o, "primary_key")) \cup Unreadable
    BY DEF KeysAgree
  <2>1. o \in Alloc(obj) /\ Good(version, heap, obj, held)
    BY DEF Inv, Alloc, Allocated
  <2>2. PICK c : c = obj[o].cache
    OBVIOUS
  <2>3. c \in Caches /\ version[Snap(o)] \in 1..Len(Catalog)
    BY <2>1, <2>2, AllocatedIs DEF MetaObject, Snap
  <2>4. \A f \in DOMAIN c : DOMAIN c[f] = 1..Len(c[f]) /\ Len(c[f]) \in Nat
          /\ \A i \in 1..Len(c[f]) : c[f][i] \in Object
    BY <2>3, CacheIs
  <2>5. /\ KidsGood(heap, obj, o) /\ KeysGood(version, heap, obj, o)
        /\ Known(version[heap.ptr[o]], obj[o].class, obj[o].meta)
    BY <2>1 DEF Good
  <2>6. \A f \in DOMAIN c : \A i \in DOMAIN c[f] : Snap(c[f][i]) = Snap(o)
    BY <2>2, <2>4, <2>5 DEF KidsGood, Snap
  <2>7. ASSUME NEW f \in DOMAIN c, f \in KeyFields
        PROVE  /\ obj[o].class \in {"table", "view"}
               /\ {Meta(o).partition, Meta(o).clustering} \subseteq Seq(STRING)
               /\ Names(o, f) \in Seq(STRING \cup {NULL})
               /\ Kept("column", KeyList(Meta(o), f), Len(KeyList(Meta(o), f)), Names(o, f))
    <3>1. obj[o].class \in {"table", "view"}
      BY <2>2, <2>5, <2>7 DEF KeysGood
    <3>2. Meta(o) = Catalog[version[heap.ptr[o]]][obj[o].class][obj[o].meta]
      BY DEF Meta, Cat, Snap
    <3>3. Names(o, f) = NamesOf(obj, c[f])
      BY <2>2, <2>4 DEF Names, NamesOf
    <3>4. Kept("column", KeyList(Meta(o), f), Len(KeyList(Meta(o), f)), NamesOf(obj, c[f]))
      BY <2>2, <2>5, <2>7, <3>2 DEF KeysGood
    <3>5. {Meta(o).partition, Meta(o).clustering} \subseteq Seq(STRING)
      <4>1. PICK w \in 1..Len(Catalog) : w = version[Snap(o)]
        BY <2>3
      <4>2. PICK class \in {"table", "view"} : class = obj[o].class
        BY <3>1
      <4>3. obj[o].meta \in DOMAIN Catalog[w][class]
        BY <2>5, <4>1, <4>2 DEF Known, Snap
      <4>4. Meta(o) = Catalog[w][class][obj[o].meta]
        BY <3>2, <4>1, <4>2 DEF Snap
      <4> QED
        BY <4>3, <4>4, CatalogKeys, Zenon
    <3>6. NamesOf(obj, c[f]) \in Seq(STRING \cup {NULL})
      <4>1. PICK n \in Nat : n = Len(c[f])
        BY <2>4
      <4>2. \A i \in 1..n : obj[c[f][i]].meta \in STRING \cup {NULL}
        <5>1. obj \in [Object -> MetaObject]
          BY <2>1 DEF Good, Sound
        <5>2. \A x \in Object : obj[x].meta \in STRING \cup {NULL}
          BY <5>1 DEF MetaObject
        <5> QED
          BY <5>2, <4>1, <2>4
      <4>3. NamesOf(obj, c[f]) = [k \in 1..n |-> obj[c[f][k]].meta]
        BY <4>1 DEF NamesOf
      <4> QED
        BY <4>2, <4>3
    <3> QED
      BY <3>1, <3>3, <3>4, <3>5, <3>6
  <2>8. ASSUME {"partition_key", "primary_key", "clustering_key"} \subseteq DOMAIN c
        PROVE  Names(o, "primary_key") = Names(o, "partition_key") \o Names(o, "clustering_key")
    <3>1. PICK p, k, r, s, t :
            /\ p = Meta(o).partition /\ k = Meta(o).clustering
            /\ r = Names(o, "partition_key") /\ s = Names(o, "clustering_key")
            /\ t = Names(o, "primary_key")
      OBVIOUS
    <3>2. PICK S : S = STRING \cup {NULL}
      OBVIOUS
    <3>3. /\ KeyList(Meta(o), "partition_key") = p /\ KeyList(Meta(o), "clustering_key") = k
          /\ KeyList(Meta(o), "primary_key") = p \o k
      BY <3>1 DEF KeyList
    <3>4. p \in Seq(S) /\ k \in Seq(S) /\ r \in Seq(S) /\ s \in Seq(S) /\ t \in Seq(S)
      <4>1. p \in Seq(STRING) /\ k \in Seq(STRING)
        BY <2>7, <2>8, <3>1 DEF KeyFields
      <4>2. p \in Seq(S) /\ k \in Seq(S)
        BY <4>1, <3>2
      <4> QED
        BY <4>2, <2>7, <2>8, <3>1, <3>2 DEF KeyFields
    <3>5. /\ Kept("column", p, Len(p), r) /\ Kept("column", k, Len(k), s)
          /\ Kept("column", p \o k, Len(p \o k), t)
      BY <2>7, <2>8, <3>1, <3>3 DEF KeyFields
    <3>6. Kept("column", p \o k, Len(p \o k), r \o s)
      BY <3>4, <3>5, KeptConcat
    <3>7. Len(p \o k) \in Nat /\ r \o s \in Seq(S)
      BY <3>4
    <3> QED
      BY <3>1, <3>4, <3>5, <3>6, <3>7, KeptUnique
  <2>9. ASSUME "primary_key" \in DOMAIN c
        PROVE  ToSet(Meta(o).partition \o Meta(o).clustering)
                 \subseteq ToSet(Names(o, "primary_key")) \cup Unreadable
    <3>1. PICK ks, t : ks = Meta(o).partition \o Meta(o).clustering /\ t = Names(o, "primary_key")
      OBVIOUS
    <3>2. ks \in Seq(STRING) /\ t \in Seq(STRING \cup {NULL}) /\ Kept("column", ks, Len(ks), t)
      <4>1. KeyList(Meta(o), "primary_key") = ks
        BY <3>1 DEF KeyList
      <4>2. /\ {Meta(o).partition, Meta(o).clustering} \subseteq Seq(STRING)
            /\ t \in Seq(STRING \cup {NULL}) /\ Kept("column", ks, Len(ks), t)
        BY <4>1, <2>7, <2>9, <3>1 DEF KeyFields
      <4>3. ks \in Seq(STRING)
        BY <4>2, <3>1
      <4> QED
        BY <4>2, <4>3
    <3>3. PICK w : KeptAt(w, "column", ks, Len(ks), t)
      BY <3>2 DEF Kept
    <3>4. ASSUME NEW i \in 1..Len(ks), ks[i] \notin Unreadable PROVE ks[i] \in ToSet(t)
      <4>1. PICK k \in 1..Len(t) : w[k] = i
        BY <3>3, <3>4 DEF KeptAt, Skipped
      <4>2. t[k] = ks[i]
        BY <3>3, <4>1 DEF KeptAt
      <4>3. DOMAIN t = 1..Len(t)
        BY <3>2
      <4> QED
        BY <4>1, <4>2, <4>3 DEF ToSet
    <3>5. ToSet(ks) = {ks[i] : i \in 1..Len(ks)}
      BY <3>2 DEF ToSet
    <3>6. ToSet(ks) \subseteq ToSet(t) \cup Unreadable
      BY <3>4, <3>5
    <3> QED
      BY <3>1, <3>6
  <2> QED
    BY <2>2, <2>6, <2>8, <2>9
<1> QED
  BY <1>1, InvAlways, PTL
=============================================================================
