------------------------- MODULE RequestRewriteProofs -------------------------
(***************************************************************************)
(* Proofs about what happens to a request before it is forwarded, for      *)
(* conversations of any length and caches of any size.  The stages that go *)
(* over the messages are recursive functions of their number; a lemma for  *)
(* each says that the function exists, and what the stages do follows by   *)
(* induction over the number of messages.                                  *)
(***************************************************************************)
EXTENDS RequestRewrite, SequenceTheorems, FiniteSetTheorems, WellFoundedInduction, TLAPS

-----------------------------------------------------------------------------
\* Induction over a set of numbers.

LEMMA NatSetInduction ==
  ASSUME NEW S \in SUBSET Nat, 0 \in S, \A n \in S : n + 1 \in S
  PROVE  S = Nat
<1> DEFINE Bad == Nat \ S
<1>1. ASSUME Bad # {} PROVE FALSE
  <2> HIDE DEF Bad
  <2>1. PICK m \in Bad : \A k \in Bad : ~(<<k, m>> \in OpToRel(<, Nat))
    BY <1>1, NatLessThanWellFounded, WFMin DEF Bad
  <2>2. m # 0 /\ m \in Nat
    BY DEF Bad
  <2>3. m - 1 \in Nat /\ m - 1 < m /\ (m - 1) + 1 = m
    BY <2>2
  <2>4. m - 1 \notin Bad
    BY <2>1, <2>2, <2>3 DEF OpToRel
  <2>5. (m - 1) + 1 \in S
    BY <2>3, <2>4 DEF Bad
  <2> QED BY <2>3, <2>5 DEF Bad
<1> QED BY <1>1

\* Up to a bound.
LEMMA BoundedInduction ==
  ASSUME NEW k \in Nat, NEW S \in SUBSET Nat, 0 \in S,
         \A n \in S : n + 1 <= k => n + 1 \in S
  PROVE  0 .. k \subseteq S
<1> DEFINE T == {n \in Nat : n <= k => n \in S}
<1>1. 0 \in T
  OBVIOUS
<1>2. ASSUME NEW n \in T PROVE n + 1 \in T
  BY <1>2
<1>3. T = Nat
  <2>1. T \in SUBSET Nat
    OBVIOUS
  <2> HIDE DEF T
  <2> QED BY <1>1, <1>2, <2>1, NatSetInduction
<1> QED BY <1>3

-----------------------------------------------------------------------------
\* Ordered dictionaries: sequences in which no key occurs twice.

Distinct(d) == \A i, j \in DOMAIN d : d[i].key = d[j].key => i = j

LEMMA MinIsMember ==
  ASSUME NEW S \in SUBSET Nat, S # {}
  PROVE  Min(S) \in S /\ \A n \in S : Min(S) <= n
<1>1. PICK m \in S : \A k \in S : ~(<<k, m>> \in OpToRel(<, Nat))
  BY NatLessThanWellFounded, WFMin
<1>2. ASSUME NEW k \in S PROVE m <= k
  <2>1. m \in Nat /\ k \in Nat /\ ~(<<k, m>> \in OpToRel(<, Nat))
    BY <1>1
  <2>2. k < m => <<k, m>> \in OpToRel(<, Nat)
    BY <2>1 DEF OpToRel
  <2>3. m \in Nat /\ k \in Nat /\ ~(k < m)
    BY <2>1, <2>2
  <2> QED BY ONLY <2>3
<1> QED BY <1>1, <1>2 DEF Min

LEMMA MinOfTwo ==
  ASSUME NEW a \in Nat, NEW b \in Nat
  PROVE  Min({a, b}) \in Nat /\ Min({a, b}) <= a /\ Min({a, b}) <= b
BY MinIsMember

LEMMA PlaceIs ==
  ASSUME NEW d, NEW key, HasKey(d, key)
  PROVE  Place(d, key) \in DOMAIN d /\ d[Place(d, key)].key = key
BY DEF HasKey, Place

LEMMA LookupIs ==
  ASSUME NEW D, NEW d \in Seq(D), NEW key, HasKey(d, key)
  PROVE  Lookup(d, key) \in D /\ Lookup(d, key).key = key
BY PlaceIs, LenProperties DEF Lookup

\* What is left of a dictionary when its oldest entries are dropped.
LEMMA Suffix ==
  ASSUME NEW D, NEW d \in Seq(D), NEW k \in 0 .. Len(d)
  PROVE  /\ SubSeq(d, k + 1, Len(d)) \in Seq(D)
         /\ Len(SubSeq(d, k + 1, Len(d))) = Len(d) - k
         /\ \A j \in 1 .. Len(d) - k : SubSeq(d, k + 1, Len(d))[j] = d[k + j]
<1> DEFINE n == Len(d)
<1>1. n \in Nat /\ \A j \in 1 .. n : d[j] \in D
  BY LenProperties
<1>2. k \in 0 .. n
  OBVIOUS
<1> HIDE DEF n
<1>3. k + 1 \in Int /\ n \in Int /\ \A j \in k + 1 .. n : d[j] \in D
  BY <1>1, <1>2
<1>4. /\ SubSeq(d, k + 1, n) \in Seq(D)
      /\ Len(SubSeq(d, k + 1, n)) = IF k + 1 <= n THEN n - (k + 1) + 1 ELSE 0
      /\ \A j \in 1 .. n - (k + 1) + 1 : SubSeq(d, k + 1, n)[j] = d[(k + 1) + j - 1]
  BY ONLY <1>3, SubSeqProperties
<1>5. (IF k + 1 <= n THEN n - (k + 1) + 1 ELSE 0) = n - k /\ n - (k + 1) + 1 = n - k
  BY <1>1, <1>2
<1>6. \A j \in 1 .. n - k : (k + 1) + j - 1 = k + j
  BY <1>1, <1>2
<1>7. \A j \in 1 .. n - k : SubSeq(d, k + 1, n)[j] = d[k + j]
  BY ONLY <1>4, <1>5, <1>6
<1> QED BY <1>4, <1>5, <1>7 DEF n

LEMMA Prefix ==
  ASSUME NEW D, NEW d \in Seq(D), NEW k \in 0 .. Len(d)
  PROVE  /\ SubSeq(d, 1, k) \in Seq(D)
         /\ Len(SubSeq(d, 1, k)) = k
         /\ \A j \in 1 .. k : SubSeq(d, 1, k)[j] = d[j]
<1>1. Len(d) \in Nat /\ \A j \in 1 .. Len(d) : d[j] \in D
  BY LenProperties
<1>2. 1 \in Int /\ k \in Int /\ \A j \in 1 .. k : d[j] \in D
  BY <1>1
<1>3. /\ SubSeq(d, 1, k) \in Seq(D)
      /\ Len(SubSeq(d, 1, k)) = IF 1 <= k THEN k - 1 + 1 ELSE 0
      /\ \A j \in 1 .. k - 1 + 1 : SubSeq(d, 1, k)[j] = d[1 + j - 1]
  BY ONLY <1>2, SubSeqProperties
<1>4. (IF 1 <= k THEN k - 1 + 1 ELSE 0) = k /\ k - 1 + 1 = k
  BY <1>1
<1>5. \A j \in 1 .. k : 1 + j - 1 = j
  OBVIOUS
<1>6. \A j \in 1 .. k : SubSeq(d, 1, k)[j] = d[j]
  BY ONLY <1>3, <1>4, <1>5
<1> QED BY <1>3, <1>4, <1>6

LEMMA Removal ==
  ASSUME NEW D, NEW d \in Seq(D), NEW i \in 1 .. Len(d)
  PROVE  /\ RemoveAt(d, i) \in Seq(D)
         /\ Len(RemoveAt(d, i)) = Len(d) - 1
         /\ \A j \in 1 .. Len(d) - 1 : RemoveAt(d, i)[j] = IF j < i THEN d[j] ELSE d[j + 1]
<1> DEFINE a == SubSeq(d, 1, i - 1)
           b == SubSeq(d, i + 1, Len(d))
           n == Len(d)
<1>1. n \in Nat
  BY LenProperties
<1>2. i - 1 \in 0 .. n /\ i \in 0 .. n /\ i \in 1 .. n
  BY <1>1
<1>3. a \in Seq(D) /\ Len(a) = i - 1 /\ \A j \in 1 .. i - 1 : a[j] = d[j]
  BY <1>2, Prefix
<1>4. b \in Seq(D) /\ Len(b) = n - i /\ \A j \in 1 .. n - i : b[j] = d[i + j]
  BY <1>2, Suffix
<1>5. RemoveAt(d, i) = a \o b
  BY DEF RemoveAt
<1> HIDE DEF a, b, n
<1>6. /\ a \o b \in Seq(D) /\ Len(a \o b) = Len(a) + Len(b)
      /\ \A j \in 1 .. Len(a) + Len(b) : (a \o b)[j] = IF j <= Len(a) THEN a[j] ELSE b[j - Len(a)]
  BY ONLY <1>3, <1>4, ConcatProperties
<1>7. Len(a) + Len(b) = n - 1
  BY <1>1, <1>2, <1>3, <1>4
<1>8. ASSUME NEW j \in 1 .. n - 1
      PROVE  (a \o b)[j] = IF j < i THEN d[j] ELSE d[j + 1]
  <2>1. (a \o b)[j] = IF j <= i - 1 THEN a[j] ELSE b[j - (i - 1)]
    BY <1>3, <1>6, <1>7
  <2>2. CASE j < i
    <3>1. j <= i - 1 /\ j \in 1 .. i - 1
      BY <1>1, <1>2, <2>2
    <3> QED BY <1>3, <2>1, <2>2, <3>1
  <2>3. CASE ~(j < i)
    <3>1. ~(j <= i - 1) /\ j - (i - 1) \in 1 .. n - i /\ i + (j - (i - 1)) = j + 1
      BY <1>1, <1>2, <2>3
    <3> QED BY <1>4, <2>1, <2>3, <3>1
  <2> QED BY <2>2, <2>3
<1> QED BY <1>5, <1>6, <1>7, <1>8 DEF n

LEMMA WithoutIs ==
  ASSUME NEW D, NEW d \in Seq(D), NEW key, Distinct(d)
  PROVE  /\ Without(d, key) \in Seq(D)
         /\ Len(Without(d, key)) <= Len(d)
         /\ HasKey(d, key) => Len(Without(d, key)) = Len(d) - 1
         /\ Distinct(Without(d, key))
         /\ ~HasKey(Without(d, key), key)
<1> DEFINE i == Place(d, key)
           w == RemoveAt(d, i)
           n == Len(d)
<1>0. n \in Nat /\ DOMAIN d = 1 .. n
  BY LenProperties
<1>1. CASE ~HasKey(d, key)
  <2>1. Without(d, key) = d
    BY <1>1 DEF Without
  <2>2. Len(d) <= Len(d)
    BY <1>0
  <2> QED BY ONLY <1>1, <2>1, <2>2, Distinct(d), d \in Seq(D)
<1>2. CASE HasKey(d, key)
  <2>1. i \in 1 .. n /\ d[i].key = key
    BY <1>0, <1>2, PlaceIs
  <2>2. /\ w \in Seq(D) /\ Len(w) = n - 1
        /\ \A j \in 1 .. n - 1 : w[j] = IF j < i THEN d[j] ELSE d[j + 1]
    <3> HIDE DEF i
    <3> QED BY <2>1, Removal
  <2>3. Without(d, key) = w
    BY <1>2 DEF Without
  <2> HIDE DEF i, w, n
  <2>4. DOMAIN w = 1 .. n - 1
    BY <2>2, LenProperties
  <2>5. \A j, k \in 1 .. n : d[j].key = d[k].key => j = k
    BY <1>0 DEF Distinct
  <2> DEFINE p(j) == IF j < i THEN j ELSE j + 1
  <2>6. \A j \in 1 .. n - 1 : p(j) \in 1 .. n /\ p(j) # i /\ w[j] = d[p(j)]
    BY <1>0, <2>1, <2>2
  <2>7. \A j, k \in 1 .. n - 1 : p(j) = p(k) => j = k
    BY <1>0, <2>1
  <2> HIDE DEF p
  <2>8. ~HasKey(w, key)
    BY <2>1, <2>4, <2>5, <2>6 DEF HasKey
  <2>9. Distinct(w)
    <3> SUFFICES ASSUME NEW j \in 1 .. n - 1, NEW k \in 1 .. n - 1, w[j].key = w[k].key
                 PROVE  j = k
      BY <2>4 DEF Distinct
    <3>1. p(j) = p(k)
      BY <2>5, <2>6
    <3> QED BY <2>7, <3>1
  <2>10. Len(w) = n - 1 /\ n - 1 <= n
    BY <1>0, <2>2
  <2>11. Distinct(w) /\ ~HasKey(w, key) /\ w \in Seq(D) /\ Len(w) = n - 1
    BY <2>2, <2>8, <2>9
  <2> QED BY <1>2, <2>3, <2>10, <2>11 DEF n
<1> QED BY <1>1, <1>2

\* A new key at the end.
LEMMA Appended ==
  ASSUME NEW D, NEW d \in Seq(D), NEW e \in D, Distinct(d), ~HasKey(d, e.key)
  PROVE  Distinct(Append(d, e))
<1>1. /\ Len(d) \in Nat /\ DOMAIN d = 1 .. Len(d)
      /\ Append(d, e) \in Seq(D) /\ Len(Append(d, e)) = Len(d) + 1
      /\ \A i \in 1 .. Len(d) : Append(d, e)[i] = d[i]
      /\ Append(d, e)[Len(d) + 1] = e
  BY LenProperties, AppendProperties
<1>2. DOMAIN Append(d, e) = 1 .. Len(d) + 1
  BY <1>1, LenProperties
<1>3. \A i \in 1 .. Len(d) : d[i].key # e.key
  BY <1>1 DEF HasKey
<1>4. \A i \in 1 .. Len(d) + 1 : i \in 1 .. Len(d) \/ i = Len(d) + 1
  BY <1>1
<1> QED BY <1>1, <1>2, <1>3, <1>4 DEF Distinct

LEMMA ToEndIs ==
  ASSUME NEW D, NEW d \in Seq(D), NEW e \in D, Distinct(d)
  PROVE  /\ ToEnd(d, e) \in Seq(D)
         /\ Distinct(ToEnd(d, e))
         /\ HasKey(d, e.key) => Len(ToEnd(d, e)) = Len(d)
<1> DEFINE w == Without(d, e.key)
<1>1. /\ w \in Seq(D) /\ Distinct(w) /\ ~HasKey(w, e.key)
      /\ HasKey(d, e.key) => Len(w) = Len(d) - 1
  BY WithoutIs
<1>2. ToEnd(d, e) = Append(w, e)
  BY DEF ToEnd
<1> HIDE DEF w
<1>3. Append(w, e) \in Seq(D) /\ Len(Append(w, e)) = Len(w) + 1
  BY <1>1, AppendProperties
<1>4. Len(d) \in Nat
  BY LenProperties
<1>5. Distinct(Append(w, e))
  BY <1>1, Appended
<1> QED BY <1>1, <1>2, <1>3, <1>4, <1>5

LEMMA SuffixDistinct ==
  ASSUME NEW D, NEW d \in Seq(D), NEW k \in 0 .. Len(d), Distinct(d)
  PROVE  /\ Distinct(SubSeq(d, k + 1, Len(d)))
         /\ \A key : ~HasKey(d, key) => ~HasKey(SubSeq(d, k + 1, Len(d)), key)
<1> DEFINE t == SubSeq(d, k + 1, Len(d))
<1>1. /\ t \in Seq(D) /\ Len(t) = Len(d) - k
      /\ \A j \in 1 .. Len(d) - k : t[j] = d[k + j]
  BY Suffix
<1>2. DOMAIN t = 1 .. Len(d) - k /\ DOMAIN d = 1 .. Len(d) /\ Len(d) \in Nat
  BY <1>1, LenProperties
<1> HIDE DEF t
<1>3. \A j \in 1 .. Len(d) - k : k + j \in 1 .. Len(d)
  BY <1>2
<1>4. \A key : ~HasKey(d, key) => ~HasKey(t, key)
  BY <1>1, <1>2, <1>3 DEF HasKey
<1>5. ASSUME NEW i \in 1 .. Len(d) - k, NEW j \in 1 .. Len(d) - k, t[i].key = t[j].key
      PROVE  i = j
  <2>1. k + i = k + j
    BY <1>1, <1>2, <1>3, <1>5 DEF Distinct
  <2> QED BY <2>1
<1>6. Distinct(t)
  BY <1>2, <1>5 DEF Distinct
<1> QED BY <1>4, <1>6 DEF t

LEMMA NewestIs ==
  ASSUME NEW D, NEW d \in Seq(D), NEW n \in Nat, Distinct(d)
  PROVE  /\ Newest(d, n) \in Seq(D)
         /\ Len(Newest(d, n)) <= n
         /\ Distinct(Newest(d, n))
<1> DEFINE m == Min({n, Len(d)})
           k == Len(d) - m
<1>1. Len(d) \in Nat
  BY LenProperties
<1>2. m \in Nat /\ m <= n /\ m <= Len(d)
  BY <1>1, MinOfTwo
<1>3. Newest(d, n) = SubSeq(d, Len(d) - m + 1, Len(d))
  BY DEF Newest
<1> HIDE DEF m
<1>4. k \in 0 .. Len(d) /\ Len(d) - k = m
  BY <1>1, <1>2
<1>5. Newest(d, n) = SubSeq(d, k + 1, Len(d))
  BY <1>3
<1> HIDE DEF k
<1> QED BY <1>2, <1>4, <1>5, Suffix, SuffixDistinct

-----------------------------------------------------------------------------
\* The bytes of the entries of a dictionary.

\* The recursive function behind BytesOf.
LEMMA BytesUnfold ==
  ASSUME NEW d, Len(d) \in Nat
  PROVE  \E f : /\ BytesOf(d) = f[Len(d)]
                /\ f[0] = 0
                /\ \A n \in 1 .. Len(d) : f[n] = f[n - 1] + d[n].bytes
<1> DEFINE k == Len(d)
           Sums(f, m) == f = [n \in 0 .. m |-> IF n = 0 THEN 0 ELSE f[n - 1] + d[n].bytes]
           N == {m \in Nat : \E f : Sums(f, m)}
<1>1. 0 \in N
  <2> DEFINE z == [n \in 0 .. 0 |-> 0]
  <2>1. Sums(z, 0)
    <3>1. \A n \in 0 .. 0 : n = 0
      OBVIOUS
    <3>2. [n \in 0 .. 0 |-> IF n = 0 THEN 0 ELSE z[n - 1] + d[n].bytes] = [n \in 0 .. 0 |-> 0]
      BY <3>1
    <3> QED BY <3>2
  <2> QED BY <2>1
<1>2. ASSUME NEW m \in N PROVE m + 1 \in N
  <2>1. PICK f : Sums(f, m)
    OBVIOUS
  <2> DEFINE g == [n \in 0 .. m + 1 |-> IF n = m + 1 THEN f[m] + d[m + 1].bytes ELSE f[n]]
  <2>2. m \in Nat
    OBVIOUS
  <2> HIDE DEF N
  <2>3. ASSUME NEW n \in 0 .. m + 1
        PROVE  g[n] = IF n = 0 THEN 0 ELSE g[n - 1] + d[n].bytes
    <3>1. CASE n = m + 1
      <4>1. n # 0 /\ n - 1 = m /\ m \in 0 .. m + 1 /\ m # m + 1
        BY <2>2, <3>1
      <4> QED BY <3>1, <4>1
    <3>2. CASE n # m + 1
      <4>1. n \in 0 .. m
        BY <2>2, <3>2
      <4>2. n # 0 => n - 1 \in 0 .. m + 1 /\ n - 1 # m + 1
        BY <2>2, <4>1
      <4>3. f[n] = IF n = 0 THEN 0 ELSE f[n - 1] + d[n].bytes
        BY <2>1, <4>1
      <4> QED BY <3>2, <4>2, <4>3
    <3> QED BY <3>1, <3>2
  <2>4. Sums(g, m + 1)
    <3> DEFINE h == [n \in 0 .. m + 1 |-> IF n = 0 THEN 0 ELSE g[n - 1] + d[n].bytes]
    <3>1. \A n \in 0 .. m + 1 : g[n] = h[n]
      <4> HIDE DEF g
      <4> QED BY <2>3
    <3>2. DOMAIN g = 0 .. m + 1 /\ g = [n \in 0 .. m + 1 |-> g[n]]
      OBVIOUS
    <3> HIDE DEF g
    <3> QED BY <3>1, <3>2
  <2> HIDE DEF Sums
  <2> QED BY <2>2, <2>4 DEF N
<1>3. k \in N
  <2>1. N \in SUBSET Nat
    OBVIOUS
  <2> HIDE DEF N
  <2> QED BY <1>1, <1>2, <2>1, NatSetInduction
<1> DEFINE s == CHOOSE f : Sums(f, k)
<1>4. Sums(s, k)
  <2>1. \E f : Sums(f, k)
    BY <1>3
  <2> HIDE DEF Sums
  <2> QED BY <2>1
<1>5. BytesOf(d) = s[k]
  BY DEF BytesOf
<1> HIDE DEF s
<1>6. s[0] = 0 /\ \A n \in 1 .. k : s[n] = s[n - 1] + d[n].bytes
  BY <1>4
<1> QED BY <1>5, <1>6

LEMMA BytesConcat ==
  ASSUME NEW D, \A x \in D : x.bytes \in Nat, NEW s \in Seq(D), NEW t \in Seq(D)
  PROVE  /\ BytesOf(s) \in Nat
         /\ BytesOf(s \o t) = BytesOf(s) + BytesOf(t)
<1> DEFINE a == Len(s)
           b == Len(t)
           u == s \o t
<1>1. /\ a \in Nat /\ \A n \in 1 .. a : s[n].bytes \in Nat
      /\ b \in Nat /\ \A n \in 1 .. b : t[n].bytes \in Nat
  BY LenProperties
<1>2. /\ Len(u) = a + b
      /\ \A n \in 1 .. a + b : u[n] = IF n <= a THEN s[n] ELSE t[n - a]
  BY ConcatProperties
<1> HIDE DEF u
<1>3. PICK f : BytesOf(s) = f[a] /\ f[0] = 0 /\ \A n \in 1 .. a : f[n] = f[n - 1] + s[n].bytes
  BY <1>1, BytesUnfold
<1>4. PICK g : BytesOf(t) = g[b] /\ g[0] = 0 /\ \A n \in 1 .. b : g[n] = g[n - 1] + t[n].bytes
  BY <1>1, BytesUnfold
<1>5. PICK h : /\ BytesOf(u) = h[a + b] /\ h[0] = 0
               /\ \A n \in 1 .. a + b : h[n] = h[n - 1] + u[n].bytes
  <2>1. Len(u) \in Nat
    BY <1>1, <1>2
  <2>2. \E h : /\ BytesOf(u) = h[Len(u)] /\ h[0] = 0
               /\ \A n \in 1 .. Len(u) : h[n] = h[n - 1] + u[n].bytes
    BY ONLY <2>1, BytesUnfold
  <2> HIDE DEF a, b
  <2> QED BY <1>2, <2>2
<1> HIDE DEF a, b
<1> DEFINE S == {n \in Nat : f[n] \in Nat /\ h[n] = f[n]}
           T == {n \in Nat : g[n] \in Nat /\ h[a + n] = f[a] + g[n]}
<1>6. 0 .. a \subseteq S
  <2>1. 0 \in S
    BY <1>3, <1>5
  <2>2. ASSUME NEW n \in S, n + 1 <= a PROVE n + 1 \in S
    <3>1. n + 1 \in 1 .. a /\ n + 1 \in 1 .. a + b /\ (n + 1) - 1 = n /\ n + 1 <= a /\ n + 1 \in Nat
      BY <1>1, <2>2
    <3>2. f[n + 1] = f[n] + s[n + 1].bytes
      BY ONLY <1>3, <3>1
    <3>3. h[n + 1] = h[n] + s[n + 1].bytes
      BY ONLY <1>2, <1>5, <3>1
    <3> QED BY <1>1, <3>1, <3>2, <3>3
  <2>3. S \in SUBSET Nat
    OBVIOUS
  <2> HIDE DEF S
  <2> QED BY <1>1, <2>1, <2>2, <2>3, BoundedInduction
<1>7. 0 .. b \subseteq T
  <2>0. f[a] \in Nat /\ h[a] = f[a] /\ a + 0 = a
    BY <1>1, <1>6
  <2>1. 0 \in T
    BY <1>4, <2>0
  <2>2. ASSUME NEW n \in T, n + 1 <= b PROVE n + 1 \in T
    <3>1. /\ n + 1 \in 1 .. b /\ a + (n + 1) \in 1 .. a + b /\ (n + 1) - 1 = n
          /\ ~(a + (n + 1) <= a) /\ n + 1 \in Nat
          /\ (a + (n + 1)) - a = n + 1 /\ (a + (n + 1)) - 1 = a + n
      BY <1>1, <2>2
    <3>2. g[n + 1] = g[n] + t[n + 1].bytes
      BY ONLY <1>4, <3>1
    <3>3. h[a + (n + 1)] = h[a + n] + t[n + 1].bytes
      BY ONLY <1>2, <1>5, <3>1
    <3>4. t[n + 1].bytes \in Nat /\ g[n] \in Nat /\ h[a + n] = f[a] + g[n]
      BY <1>1, <3>1
    <3>5. g[n + 1] \in Nat /\ h[a + (n + 1)] = f[a] + g[n + 1]
      BY ONLY <2>0, <3>2, <3>3, <3>4
    <3> QED BY <3>1, <3>5
  <2>3. T \in SUBSET Nat
    OBVIOUS
  <2> HIDE DEF T
  <2> QED BY <1>1, <2>1, <2>2, <2>3, BoundedInduction
<1>8. a \in 0 .. a /\ b \in 0 .. b
  BY <1>1
<1>9. f[a] \in Nat /\ h[a + b] = f[a] + g[b]
  BY <1>6, <1>7, <1>8
<1> QED BY <1>3, <1>4, <1>5, <1>9 DEF u

LEMMA BytesOne ==
  ASSUME NEW D, NEW e \in D, e.bytes \in Nat
  PROVE  BytesOf(<<>>) = 0 /\ BytesOf(<<e>>) = e.bytes
<1>1. BytesOf(<<>>) = 0
  <2>1. Len(<<>>) = 0
    OBVIOUS
  <2> QED BY <2>1, BytesUnfold
<1>2. BytesOf(<<e>>) = e.bytes
  <2>1. Len(<<e>>) = 1 /\ <<e>>[1] = e
    OBVIOUS
  <2>2. PICK f : BytesOf(<<e>>) = f[1] /\ f[0] = 0 /\ f[1] = f[1 - 1] + <<e>>[1].bytes
    BY <2>1, BytesUnfold
  <2> QED BY <2>1, <2>2
<1> QED BY <1>1, <1>2

\* Dropping the oldest k entries, and appending one.
LEMMA BytesSplit ==
  ASSUME NEW D, \A x \in D : x.bytes \in Nat, NEW d \in Seq(D), NEW k \in 0 .. Len(d)
  PROVE  /\ BytesOf(d) \in Nat
         /\ BytesOf(SubSeq(d, 1, k)) \in Nat
         /\ BytesOf(SubSeq(d, k + 1, Len(d))) \in Nat
         /\ BytesOf(d) = BytesOf(SubSeq(d, 1, k)) + BytesOf(SubSeq(d, k + 1, Len(d)))
<1> DEFINE a == SubSeq(d, 1, k)
           b == SubSeq(d, k + 1, Len(d))
<1>1. a \in Seq(D) /\ Len(a) = k /\ \A j \in 1 .. k : a[j] = d[j]
  BY Prefix
<1>2. b \in Seq(D) /\ Len(b) = Len(d) - k /\ \A j \in 1 .. Len(d) - k : b[j] = d[k + j]
  BY Suffix
<1> HIDE DEF a, b
<1>3. a \o b = d
  <2>1. /\ a \o b \in Seq(D) /\ Len(a \o b) = Len(a) + Len(b)
        /\ \A j \in 1 .. Len(a) + Len(b) : (a \o b)[j] = IF j <= Len(a) THEN a[j] ELSE b[j - Len(a)]
    BY <1>1, <1>2, ConcatProperties
  <2>2. Len(d) \in Nat /\ Len(a) + Len(b) = Len(d)
    BY <1>1, <1>2, LenProperties
  <2>3. ASSUME NEW j \in 1 .. Len(d) PROVE (a \o b)[j] = d[j]
    <3>1. CASE j <= k
      BY <1>1, <2>1, <2>2, <3>1
    <3>2. CASE ~(j <= k)
      <4>1. j - k \in 1 .. Len(d) - k /\ k + (j - k) = j
        BY <2>2, <3>2
      <4> QED BY <1>1, <1>2, <2>1, <2>2, <3>2, <4>1
    <3> QED BY <3>1, <3>2
  <2>4. Len(a \o b) = Len(d) /\ a \o b \in Seq(D) /\ d \in Seq(D)
    BY <2>1, <2>2
  <2> QED BY ONLY <2>3, <2>4, SeqEqual
<1>4. /\ BytesOf(a) \in Nat /\ BytesOf(b) \in Nat /\ BytesOf(d) \in Nat
      /\ BytesOf(a \o b) = BytesOf(a) + BytesOf(b)
  BY <1>1, <1>2, BytesConcat
<1> QED BY <1>3, <1>4 DEF a, b

LEMMA BytesAppend ==
  ASSUME NEW D, \A x \in D : x.bytes \in Nat, NEW d \in Seq(D), NEW e \in D
  PROVE  BytesOf(Append(d, e)) = BytesOf(d) + e.bytes
<1>1. Append(d, e) = d \o <<e>> /\ <<e>> \in Seq(D)
  BY AppendIsConcat
<1>2. BytesOf(d \o <<e>>) = BytesOf(d) + BytesOf(<<e>>)
  BY <1>1, BytesConcat
<1>3. BytesOf(<<e>>) = e.bytes
  BY BytesOne
<1> QED BY <1>1, <1>2, <1>3

\* An entry that moves to the end is counted once.
LEMMA BytesToEnd ==
  ASSUME NEW D, \A x \in D : x.bytes \in Nat, NEW d \in Seq(D), NEW i \in 1 .. Len(d)
  PROVE  BytesOf(Append(RemoveAt(d, i), d[i])) = BytesOf(d)
<1> DEFINE a == SubSeq(d, 1, i - 1)
           b == SubSeq(d, i, Len(d))
           c == SubSeq(d, i + 1, Len(d))
<1>1. Len(d) \in Nat /\ d[i] \in D /\ i - 1 \in 0 .. Len(d) /\ i \in 0 .. Len(d) /\ (i - 1) + 1 = i
  BY LenProperties
<1>2. /\ a \in Seq(D) /\ BytesOf(a) \in Nat
      /\ b \in Seq(D) /\ BytesOf(b) \in Nat
      /\ BytesOf(d) = BytesOf(a) + BytesOf(b)
  <2>1. /\ SubSeq(d, (i - 1) + 1, Len(d)) \in Seq(D) /\ SubSeq(d, 1, i - 1) \in Seq(D)
    BY <1>1, Prefix, Suffix
  <2>2. /\ BytesOf(SubSeq(d, 1, i - 1)) \in Nat
        /\ BytesOf(SubSeq(d, (i - 1) + 1, Len(d))) \in Nat
        /\ BytesOf(d) = BytesOf(SubSeq(d, 1, i - 1)) + BytesOf(SubSeq(d, (i - 1) + 1, Len(d)))
    BY <1>1, BytesSplit
  <2> QED BY <1>1, <2>1, <2>2
<1>3. c \in Seq(D) /\ Len(c) = Len(d) - i /\ \A j \in 1 .. Len(d) - i : c[j] = d[i + j]
  BY <1>1, Suffix
<1>4. b = <<d[i]>> \o c
  <2>1. /\ Len(b) = Len(d) - (i - 1) /\ \A j \in 1 .. Len(d) - (i - 1) : b[j] = d[(i - 1) + j]
    <3>1. /\ Len(SubSeq(d, (i - 1) + 1, Len(d))) = Len(d) - (i - 1)
          /\ \A j \in 1 .. Len(d) - (i - 1) : SubSeq(d, (i - 1) + 1, Len(d))[j] = d[(i - 1) + j]
      BY <1>1, Suffix
    <3> QED BY <1>1, <3>1
  <2>2. <<d[i]>> \in Seq(D) /\ Len(<<d[i]>>) = 1 /\ <<d[i]>>[1] = d[i]
    BY <1>1
  <2> DEFINE e == <<d[i]>>
  <2>3. b \in Seq(D) /\ e \in Seq(D) /\ Len(e) = 1 /\ e[1] = d[i]
    BY <1>2, <2>2
  <2> HIDE DEF b, c, e
  <2>4. /\ e \o c \in Seq(D) /\ Len(e \o c) = Len(e) + Len(c)
        /\ \A j \in 1 .. Len(e) + Len(c) : (e \o c)[j] = IF j <= Len(e) THEN e[j] ELSE c[j - Len(e)]
    BY <1>3, <2>3, ConcatProperties
  <2>5. Len(e) + Len(c) = Len(b)
    BY <1>1, <1>3, <2>1, <2>3
  <2>6. ASSUME NEW j \in 1 .. Len(b) PROVE (e \o c)[j] = b[j]
    <3>0. j \in 1 .. Len(d) - (i - 1) /\ j \in 1 .. Len(e) + Len(c)
      BY <2>1, <2>5
    <3>1. CASE j = 1
      <4>1. j <= Len(e) /\ (i - 1) + j = i
        BY <1>1, <2>3, <3>1
      <4> QED BY <2>1, <2>3, <2>4, <3>0, <3>1, <4>1
    <3>2. CASE j # 1
      <4>1. ~(j <= Len(e)) /\ j - Len(e) \in 1 .. Len(d) - i /\ i + (j - Len(e)) = (i - 1) + j
        BY <1>1, <2>1, <2>3, <3>2
      <4> QED BY <1>3, <2>1, <2>4, <3>0, <4>1
    <3> QED BY <3>1, <3>2
  <2>7. Len(e \o c) = Len(b)
    BY <2>4, <2>5
  <2>8. e \o c = b
    BY ONLY <2>3, <2>4, <2>6, <2>7, SeqEqual
  <2> QED BY <2>8 DEF e
<1>5. BytesOf(b) = d[i].bytes + BytesOf(c) /\ BytesOf(c) \in Nat
  <2>1. <<d[i]>> \in Seq(D) /\ d[i].bytes \in Nat
    BY <1>1
  <2>2. BytesOf(<<d[i]>> \o c) = BytesOf(<<d[i]>>) + BytesOf(c) /\ BytesOf(c) \in Nat
    BY <1>3, <2>1, BytesConcat
  <2>3. BytesOf(<<d[i]>>) = d[i].bytes
    BY <1>1, <2>1, BytesOne
  <2> QED BY <1>4, <2>2, <2>3
<1>6. BytesOf(RemoveAt(d, i)) = BytesOf(a) + BytesOf(c)
  <2>1. RemoveAt(d, i) = a \o c
    BY DEF RemoveAt
  <2> HIDE DEF a, c
  <2> QED BY <1>2, <1>3, <2>1, BytesConcat
<1>7. BytesOf(Append(RemoveAt(d, i), d[i])) = BytesOf(RemoveAt(d, i)) + d[i].bytes
  <2>1. RemoveAt(d, i) \in Seq(D)
    BY Removal
  <2> QED BY <1>1, <2>1, BytesAppend
<1>8. d[i].bytes \in Nat
  BY <1>1
<1> QED BY <1>2, <1>5, <1>6, <1>7, <1>8

-----------------------------------------------------------------------------
\* The tool-result stage.

\* What optimize_tool_result computes for a key that is not cached.
Value(key) == Limited(FilterByType(key.content, key.type))

ResultEntry ==
  {[key |-> k, value |-> Value(k)] : k \in [args : STRING, content : Text, type : STRING]}

\* A result cache as the stage leaves it.
Sound(d) == d \in Seq(ResultEntry) /\ Distinct(d) /\ Len(d) <= MaxResults

Treat(m) == IF ~StringResult(m) THEN m ELSE [m EXCEPT !.content = Value(ResultKey(m))]
Continued(m, id) == [m EXCEPT !.content = [Did(@, "continued", 0) EXCEPT !.id = id]]

\* The recursive function behind OptimizeWith.
LEMMA StageUnfolds ==
  ASSUME NEW messages, Len(messages) \in Nat, NEW full, NEW cached
  PROVE  \E f : /\ OptimizeWith(messages, full, cached) = f[Len(messages)]
                /\ f[0] = [out |-> <<>>, results |-> cached, saved |-> saved]
                /\ \A n \in 1 .. Len(messages) :
                     f[n] = OptimizeMessage(f[n - 1], messages[n], full)
<1> DEFINE k == Len(messages)
           start == [out |-> <<>>, results |-> cached, saved |-> saved]
           Stage(f, m) == f = [n \in 0 .. m |-> IF n = 0 THEN start
                                                ELSE OptimizeMessage(f[n - 1], messages[n], full)]
           N == {m \in Nat : \E f : Stage(f, m)}
<1>4. OptimizeWith(messages, full, cached) = (CHOOSE f : Stage(f, k))[k]
  BY DEF OptimizeWith
<1> HIDE DEF start
<1>1. 0 \in N
  <2> DEFINE z == [n \in 0 .. 0 |-> start]
  <2>1. Stage(z, 0)
    <3>1. \A n \in 0 .. 0 : n = 0
      OBVIOUS
    <3>2. [n \in 0 .. 0 |-> IF n = 0 THEN start ELSE OptimizeMessage(z[n - 1], messages[n], full)]
            = [n \in 0 .. 0 |-> start]
      BY <3>1
    <3> QED BY <3>2
  <2> QED BY <2>1
<1>2. ASSUME NEW m \in N PROVE m + 1 \in N
  <2>1. PICK f : Stage(f, m)
    OBVIOUS
  <2> DEFINE last == OptimizeMessage(f[m], messages[m + 1], full)
             g == [n \in 0 .. m + 1 |-> IF n = m + 1 THEN last ELSE f[n]]
  <2>2. m \in Nat
    OBVIOUS
  <2> HIDE DEF N
  <2>3. ASSUME NEW n \in 0 .. m + 1
        PROVE  g[n] = IF n = 0 THEN start ELSE OptimizeMessage(g[n - 1], messages[n], full)
    <3>1. CASE n = m + 1
      <4>1. n # 0 /\ n - 1 = m /\ m \in 0 .. m + 1 /\ m # m + 1
        BY <2>2, <3>1
      <4>2. g[n] = last /\ g[n - 1] = f[m]
        BY <3>1, <4>1
      <4> QED BY <3>1, <4>1, <4>2
    <3>2. CASE n # m + 1
      <4>1. n \in 0 .. m
        BY <2>2, <3>2
      <4>2. n # 0 => n - 1 \in 0 .. m + 1 /\ n - 1 # m + 1
        BY <2>2, <4>1
      <4>3. f[n] = IF n = 0 THEN start ELSE OptimizeMessage(f[n - 1], messages[n], full)
        BY <2>1, <4>1
      <4>4. g[n] = f[n] /\ (n # 0 => g[n - 1] = f[n - 1])
        BY <3>2, <4>2
      <4> HIDE DEF g
      <4> QED BY <4>3, <4>4
    <3> QED BY <3>1, <3>2
  <2>4. Stage(g, m + 1)
    <3>1. g = [n \in 0 .. m + 1 |-> g[n]]
      OBVIOUS
    <3> HIDE DEF g
    <3> QED BY <2>3, <3>1
  <2> HIDE DEF Stage
  <2> QED BY <2>2, <2>4 DEF N
<1>3. k \in N
  <2>1. N \in SUBSET Nat
    OBVIOUS
  <2> HIDE DEF N
  <2> QED BY <1>1, <1>2, <2>1, NatSetInduction
<1> DEFINE s == CHOOSE f : Stage(f, k)
<1>5. Stage(s, k)
  <2>1. \E f : Stage(f, k)
    BY <1>3
  <2> HIDE DEF Stage
  <2> QED BY <2>1
<1>6. OptimizeWith(messages, full, cached) = s[k]
  BY <1>4
<1> HIDE DEF s
<1>7. s[0] = start /\ \A n \in 1 .. k : s[n] = OptimizeMessage(s[n - 1], messages[n], full)
  <2>1. 0 \in 0 .. k /\ \A n \in 1 .. k : n \in 0 .. k /\ n # 0
    OBVIOUS
  <2> QED BY <1>5, <2>1
<1> QED BY <1>6, <1>7 DEF start

\* An entry of the cache is what would be computed.
LEMMA EntryOf ==
  ASSUME NEW d \in Seq(ResultEntry), NEW key, HasKey(d, key)
  PROVE  Lookup(d, key).value = Value(key)
<1>1. Lookup(d, key) \in ResultEntry /\ Lookup(d, key).key = key
  BY LookupIs
<1>2. PICK k \in [args : STRING, content : Text, type : STRING] :
        Lookup(d, key) = [key |-> k, value |-> Value(k)]
  BY <1>1 DEF ResultEntry
<1> QED BY <1>1, <1>2

LEMMA ResultKeyTyped ==
  ASSUME NEW m \in Messages
  PROVE  /\ ResultKey(m) \in [args : STRING, content : Text, type : STRING]
         /\ ResultKey(m).content = m.content /\ ResultKey(m).type = m.type
BY MessagesAreSaid DEF Message, ResultKey

\* One message; what it becomes does not depend on the cache.
LEMMA StageStep ==
  ASSUME NEW acc, Sound(acc.results), NEW m \in Messages, NEW full
  PROVE  LET next == OptimizeMessage(acc, m, full) IN
         /\ Sound(next.results)
         /\ StringResult(m) /\ Continues(acc, m, full) =>
              /\ next.out = Append(acc.out, Continued(m, FreshId(acc.saved)))
              /\ next.saved = acc.saved \cup {[id |-> FreshId(acc.saved), content |-> m.content]}
         /\ ~(StringResult(m) /\ Continues(acc, m, full)) =>
              /\ next.out = Append(acc.out, Treat(m))
              /\ next.saved = acc.saved
<1> DEFINE next == OptimizeMessage(acc, m, full)
<1>1. CASE ~StringResult(m)
  <2>1. next = [out |-> Append(acc.out, m), results |-> acc.results, saved |-> acc.saved]
    BY <1>1 DEF OptimizeMessage
  <2>2. Treat(m) = m
    BY <1>1 DEF Treat
  <2> HIDE DEF next
  <2>3. next.out = Append(acc.out, m) /\ next.results = acc.results /\ next.saved = acc.saved
    BY <2>1
  <2> QED BY <1>1, <2>2, <2>3 DEF next
<1>2. CASE StringResult(m) /\ Continues(acc, m, full)
  <2>1. next = Continue(acc, m)
    BY <1>2 DEF OptimizeMessage
  <2>2. /\ next.out = Append(acc.out, Continued(m, FreshId(acc.saved)))
        /\ next.results = acc.results
        /\ next.saved = acc.saved \cup {[id |-> FreshId(acc.saved), content |-> m.content]}
    <3> HIDE DEF next
    <3> QED BY <2>1 DEF Continue, Continued
  <2> QED BY <1>2, <2>2
<1>3. CASE StringResult(m) /\ ~Continues(acc, m, full)
  <2> DEFINE key == ResultKey(m)
             value == IF HasKey(acc.results, key) THEN Lookup(acc.results, key).value
                      ELSE Limited(FilterByType(m.content, m.type))
             entry == [key |-> key, value |-> value]
  <2>1. next = OptimizeResult(acc, m)
    BY <1>3 DEF OptimizeMessage
  <2>2. /\ next.out = Append(acc.out, [m EXCEPT !.content = value])
        /\ next.results = Newest(ToEnd(acc.results, entry), MaxResults)
        /\ next.saved = acc.saved
    <3> HIDE DEF next
    <3> QED BY <2>1 DEF OptimizeResult
  <2>3. value = Value(key)
    <3>1. CASE HasKey(acc.results, key)
      BY <3>1, EntryOf DEF Sound
    <3>2. CASE ~HasKey(acc.results, key)
      BY <3>2, ResultKeyTyped DEF Value
    <3> QED BY <3>1, <3>2
  <2>4. Treat(m) = [m EXCEPT !.content = value]
    BY <1>3, <2>3 DEF Treat
  <2>5. entry \in ResultEntry
    BY <2>3, ResultKeyTyped DEF ResultEntry
  <2> HIDE DEF value, entry, next
  <2>6. ToEnd(acc.results, entry) \in Seq(ResultEntry) /\ Distinct(ToEnd(acc.results, entry))
    BY <2>5, ToEndIs DEF Sound
  <2> DEFINE d == ToEnd(acc.results, entry)
  <2>7. Sound(next.results)
    <3>1. d \in Seq(ResultEntry) /\ Distinct(d) /\ MaxResults \in Nat
      BY <2>6, LimitsArePositive
    <3> HIDE DEF d
    <3>2. /\ Newest(d, MaxResults) \in Seq(ResultEntry)
          /\ Len(Newest(d, MaxResults)) <= MaxResults
          /\ Distinct(Newest(d, MaxResults))
      BY ONLY <3>1, NewestIs
    <3> QED BY <2>2, <3>2 DEF d, Sound
  <2> QED BY <1>3, <2>2, <2>4, <2>7 DEF next
<1> QED BY <1>1, <1>2, <1>3

\* The whole stage with two caches: only the caches differ afterwards.
LEMMA StageTransparent ==
  ASSUME NEW messages \in Seq(Messages), NEW full, NEW c, NEW d, Sound(c), Sound(d)
  PROVE  /\ Sound(OptimizeWith(messages, full, c).results)
         /\ OptimizeWith(messages, full, c).out = OptimizeWith(messages, full, d).out
<1> DEFINE k == Len(messages)
<1>1. k \in Nat /\ \A n \in 1 .. k : messages[n] \in Messages
  BY LenProperties
<1>2. PICK f : /\ OptimizeWith(messages, full, c) = f[k]
               /\ f[0] = [out |-> <<>>, results |-> c, saved |-> saved]
               /\ \A n \in 1 .. k : f[n] = OptimizeMessage(f[n - 1], messages[n], full)
  BY <1>1, StageUnfolds
<1>3. PICK g : /\ OptimizeWith(messages, full, d) = g[k]
               /\ g[0] = [out |-> <<>>, results |-> d, saved |-> saved]
               /\ \A n \in 1 .. k : g[n] = OptimizeMessage(g[n - 1], messages[n], full)
  BY <1>1, StageUnfolds
<1> HIDE DEF k
<1> DEFINE S == {n \in Nat : /\ Sound(f[n].results) /\ Sound(g[n].results)
                             /\ f[n].out = g[n].out /\ f[n].saved = g[n].saved}
<1>4. 0 \in S
  <2>1. f[0].results = c /\ f[0].out = <<>> /\ f[0].saved = saved
    BY <1>2
  <2>2. g[0].results = d /\ g[0].out = <<>> /\ g[0].saved = saved
    BY <1>3
  <2> QED BY <2>1, <2>2
<1>5. ASSUME NEW n \in S, n + 1 <= k PROVE n + 1 \in S
  <2> DEFINE m == messages[n + 1]
             a == f[n]
             b == g[n]
  <2>1. n \in Nat /\ n + 1 \in 1 .. k /\ (n + 1) - 1 = n /\ m \in Messages
    BY <1>1, <1>5
  <2>2. Sound(a.results) /\ Sound(b.results) /\ a.out = b.out /\ a.saved = b.saved
    OBVIOUS
  <2>3. f[n + 1] = OptimizeMessage(a, m, full) /\ g[n + 1] = OptimizeMessage(b, m, full)
    BY <1>2, <1>3, <2>1
  <2> HIDE DEF a, b, m, S
  <2>4. Continues(a, m, full) = Continues(b, m, full)
    BY <2>2 DEF Continues
  <2> DEFINE x == f[n + 1]
             y == g[n + 1]
  <2>5. /\ Sound(x.results)
        /\ StringResult(m) /\ Continues(a, m, full) =>
             /\ x.out = Append(a.out, Continued(m, FreshId(a.saved)))
             /\ x.saved = a.saved \cup {[id |-> FreshId(a.saved), content |-> m.content]}
        /\ ~(StringResult(m) /\ Continues(a, m, full)) =>
             x.out = Append(a.out, Treat(m)) /\ x.saved = a.saved
    BY <2>1, <2>2, <2>3, StageStep
  <2>6. /\ Sound(y.results)
        /\ StringResult(m) /\ Continues(b, m, full) =>
             /\ y.out = Append(b.out, Continued(m, FreshId(b.saved)))
             /\ y.saved = b.saved \cup {[id |-> FreshId(b.saved), content |-> m.content]}
        /\ ~(StringResult(m) /\ Continues(b, m, full)) =>
             y.out = Append(b.out, Treat(m)) /\ y.saved = b.saved
    BY <2>1, <2>2, <2>3, StageStep
  <2> HIDE DEF x, y
  <2>7. x.out = y.out /\ x.saved = y.saved
    <3>1. CASE StringResult(m) /\ Continues(a, m, full)
      BY ONLY <2>2, <2>4, <2>5, <2>6, <3>1
    <3>2. CASE ~(StringResult(m) /\ Continues(a, m, full))
      BY ONLY <2>2, <2>4, <2>5, <2>6, <3>2
    <3> QED BY <3>1, <3>2
  <2>8. n + 1 \in Nat
    BY <2>1
  <2> QED BY <2>5, <2>6, <2>7, <2>8 DEF S, x, y
<1>6. k \in S
  <2>1. S \in SUBSET Nat /\ k \in 0 .. k
    BY <1>1
  <2> HIDE DEF S
  <2> QED BY <1>1, <1>4, <1>5, <2>1, BoundedInduction
<1> QED BY <1>2, <1>3, <1>6

-----------------------------------------------------------------------------
\* The caches along a behavior.

Schema == {t \in ToolArray : t.spare <= t.bytes}

\* An entry holds the minified form of its own key.
SchemaEntry ==
  {[key |-> t, value |-> Minified(t), bytes |-> Minified(t).bytes] : t \in Schema}

SchemasSound ==
  /\ schemas \in Seq(SchemaEntry)
  /\ Distinct(schemas)
  /\ Len(schemas) <= MaxSchemas
  /\ schemaBytes = BytesOf(schemas)
  /\ schemaBytes <= MaxSchemaBytes

CacheInv ==
  /\ chat \in Seq(Messages)
  /\ SchemasSound
  /\ Sound(results)

LEMMA MinifiedTyped ==
  ASSUME NEW t \in Schema
  PROVE  Minified(t).bytes \in Nat
BY DEF Schema, ToolArray, Minified

LEMMA EntryBytes == \A x \in SchemaEntry : x.bytes \in Nat
BY MinifiedTyped DEF SchemaEntry

LEMMA RequestTools ==
  ASSUME NEW request \in Requests
  PROVE  request.tools \in Schema
BY SpareIsPartOfTools DEF Schema

\* A new array: what stays of the older entries leaves room for it.
LEMMA InsertionKeepsAccount ==
  ASSUME SchemasSound, NEW tools \in Schema,
         ~HasKey(schemas, Fingerprint(tools)),
         Minified(tools).bytes <= MaxSchemaBytes,
         SchemaInserted(tools)
  PROVE  SchemasSound'
<1> DEFINE bytes == Minified(tools).bytes
           e == [key |-> Fingerprint(tools), value |-> Minified(tools), bytes |-> bytes]
           n == Len(schemas)
           Enough(k) == \/ k = n
                        \/ /\ n - k < MaxSchemas
                           /\ schemaBytes - BytesOf(SubSeq(schemas, 1, k)) + bytes <= MaxSchemaBytes
           S == {k \in 0 .. n : Enough(k)}
           k == Evicted(bytes)
           gone == SubSeq(schemas, 1, k)
           kept == SubSeq(schemas, k + 1, n)
<1>1. /\ n \in Nat /\ schemas \in Seq(SchemaEntry) /\ Distinct(schemas)
      /\ schemaBytes = BytesOf(schemas)
  BY LenProperties DEF SchemasSound
<1>2. bytes \in Nat /\ bytes <= MaxSchemaBytes
  BY MinifiedTyped
<1>3. e \in SchemaEntry /\ e.bytes = bytes /\ e.key = Fingerprint(tools)
  BY DEF SchemaEntry, Fingerprint
<1>4. k \in S
  <2>1. k = Min(S)
    BY DEF Evicted
  <2>2. n \in S
    BY <1>1
  <2>3. S \in SUBSET Nat /\ S # {}
    BY <2>2
  <2> HIDE DEF S, k
  <2> QED BY <2>1, <2>3, MinIsMember
<1>5. /\ schemas' = Append(kept, e)
      /\ schemaBytes' = schemaBytes - BytesOf(gone) + bytes
  BY DEF SchemaInserted
<1>6. k \in 0 .. n /\ Enough(k)
  BY <1>4
<1> HIDE DEF k, e, bytes
<1>7. kept \in Seq(SchemaEntry) /\ Len(kept) = n - k
  BY <1>1, <1>6, Suffix
<1>8. Distinct(kept) /\ ~HasKey(kept, e.key)
  BY <1>1, <1>3, <1>6, SuffixDistinct
<1>9. /\ BytesOf(gone) \in Nat /\ BytesOf(kept) \in Nat
      /\ schemaBytes = BytesOf(gone) + BytesOf(kept)
  BY <1>1, <1>6, EntryBytes, BytesSplit
<1>10. k = n => BytesOf(kept) = 0
  <2>1. ASSUME k = n PROVE kept = <<>>
    <3>1. Len(kept) = 0
      BY <1>1, <1>7, <2>1
    <3> HIDE DEF kept
    <3> QED BY <1>7, <3>1, EmptySeq
  <2> HIDE DEF kept
  <2> QED BY <1>2, <1>3, <2>1, BytesOne
<1> HIDE DEF gone, kept, n
<1>11. /\ Append(kept, e) \in Seq(SchemaEntry)
       /\ Len(Append(kept, e)) = n - k + 1
       /\ Distinct(Append(kept, e))
  BY <1>3, <1>7, <1>8, Appended, AppendProperties
<1>12. BytesOf(Append(kept, e)) = BytesOf(kept) + bytes
  <2>1. BytesOf(Append(kept, e)) = BytesOf(kept) + e.bytes
    BY <1>3, <1>7, EntryBytes, BytesAppend
  <2> QED BY <1>3, <2>1
<1>13. schemaBytes' = BytesOf(kept) + bytes
  BY <1>2, <1>5, <1>9
<1>14. n - k + 1 <= MaxSchemas
  BY <1>1, <1>6, LimitsArePositive
<1>15. BytesOf(kept) + bytes <= MaxSchemaBytes
  <2>1. CASE k = n
    BY <1>2, <1>10, <2>1
  <2>2. CASE k # n
    <3>1. schemaBytes - BytesOf(gone) + bytes <= MaxSchemaBytes
      BY <1>6, <2>2 DEF gone
    <3> QED BY <1>2, <1>9, <3>1, LimitsArePositive
  <2> QED BY <2>1, <2>2
<1> QED BY <1>5, <1>11, <1>12, <1>13, <1>14, <1>15 DEF SchemasSound

\* A hit moves its entry to the end.
LEMMA HitKeepsAccount ==
  ASSUME SchemasSound, NEW key, HasKey(schemas, key),
         schemas' = ToEnd(schemas, Lookup(schemas, key)), UNCHANGED schemaBytes
  PROVE  SchemasSound'
<1> DEFINE i == Place(schemas, key)
           e == Lookup(schemas, key)
<1>1. schemas \in Seq(SchemaEntry) /\ Distinct(schemas) /\ DOMAIN schemas = 1 .. Len(schemas)
  BY LenProperties DEF SchemasSound
<1>2. e \in SchemaEntry /\ e.key = key /\ e = schemas[i] /\ i \in 1 .. Len(schemas)
  BY <1>1, LookupIs, PlaceIs DEF Lookup
<1>3. schemas' = Append(RemoveAt(schemas, i), schemas[i])
  BY <1>2 DEF ToEnd, Without
<1> HIDE DEF i, e
<1>4. /\ ToEnd(schemas, e) \in Seq(SchemaEntry)
      /\ Distinct(ToEnd(schemas, e))
      /\ Len(ToEnd(schemas, e)) = Len(schemas)
  BY <1>1, <1>2, ToEndIs
<1>5. BytesOf(Append(RemoveAt(schemas, i), schemas[i])) = BytesOf(schemas)
  BY <1>1, <1>2, EntryBytes, BytesToEnd
<1>6. schemas' = ToEnd(schemas, e)
  BY DEF e
<1> QED BY <1>3, <1>4, <1>5, <1>6 DEF SchemasSound

LEMMA MinifyKeepsAccount ==
  ASSUME SchemasSound, NEW request \in Requests, Minify(request.tools)
  PROVE  SchemasSound'
<1> DEFINE tools == request.tools
<1>1. tools \in Schema
  BY RequestTools
<1> HIDE DEF tools
<1>2. CASE UNCHANGED <<schemas, schemaBytes>>
  BY <1>2 DEF SchemasSound
<1>3. CASE /\ HasKey(schemas, Fingerprint(tools))
           /\ schemas' = ToEnd(schemas, Lookup(schemas, Fingerprint(tools)))
           /\ UNCHANGED schemaBytes
  BY <1>3, HitKeepsAccount
<1>4. CASE /\ ~HasKey(schemas, Fingerprint(tools))
           /\ Minified(tools).bytes <= MaxSchemaBytes
           /\ SchemaInserted(tools)
  BY <1>1, <1>4, InsertionKeepsAccount
<1> QED BY <1>2, <1>3, <1>4 DEF Minify, tools

LEMMA StageKeepsSound ==
  ASSUME Sound(results), NEW messages \in Seq(Messages), NEW full
  PROVE  Sound(Optimized(messages, full, results).results)
<1>1. Sound(OptimizeWith(messages, full, results).results)
  BY StageTransparent
<1> QED BY <1>1 DEF Optimized

LEMMA SoundEmpty == Sound(<<>>)
<1>1. <<>> \in Seq(ResultEntry) /\ Len(<<>>) = 0 /\ DOMAIN <<>> = {}
  OBVIOUS
<1> QED BY <1>1, LimitsArePositive DEF Sound, Distinct

LEMMA CacheInvInit == Init => CacheInv
<1> SUFFICES ASSUME Init PROVE CacheInv
  OBVIOUS
<1>1. chat \in Seq(Messages) /\ schemas = <<>> /\ schemaBytes = 0 /\ results = <<>>
  BY DEF Init
<1>2. BytesOf(<<>>) = 0
  <2> DEFINE e == [bytes |-> 0]
  <2> QED BY BytesOne, e \in {e}, e.bytes \in Nat
<1>3. SchemasSound
  <2>1. <<>> \in Seq(SchemaEntry) /\ Len(<<>>) = 0 /\ Distinct(<<>>)
    BY DEF Distinct
  <2> QED BY <1>1, <1>2, <2>1, LimitsArePositive DEF SchemasSound
<1> QED BY <1>1, <1>3, SoundEmpty DEF CacheInv

LEMMA CacheInvStep == CacheInv /\ [Next]_vars => CacheInv'
<1> SUFFICES ASSUME CacheInv, [Next]_vars PROVE CacheInv'
  OBVIOUS
<1>1. ASSUME NEW m \in Messages, Says(m) PROVE CacheInv'
  <2>1. chat' \in Seq(Messages)
    BY <1>1 DEF Says, CacheInv
  <2> QED BY <1>1, <2>1 DEF Says, CacheInv, SchemasSound, Sound
<1>2. ASSUME NEW request \in Requests, Sends(request) PROVE CacheInv'
  <2>1. SchemasSound'
    BY <1>2, MinifyKeepsAccount DEF Sends, CacheInv
  <2>2. Sound(results')
    BY <1>2, StageKeepsSound DEF Sends, CacheInv
  <2> QED BY <1>2, <2>1, <2>2 DEF Sends, CacheInv, Sound
<1>3. CASE Starts
  BY <1>3 DEF Starts, CacheInv, SchemasSound, Sound
<1>4. CASE Restarts
  <2>1. BytesOf(<<>>) = 0
    <3> DEFINE e == [bytes |-> 0]
    <3> QED BY BytesOne, e \in {e}, e.bytes \in Nat
  <2>2. <<>> \in Seq(SchemaEntry) /\ Len(<<>>) = 0 /\ Distinct(<<>>)
    BY DEF Distinct
  <2>3. SchemasSound'
    BY <1>4, <2>1, <2>2, LimitsArePositive DEF SchemasSound, Restarts
  <2>4. Sound(results')
    BY <1>4, SoundEmpty DEF Restarts
  <2> QED BY <1>4, <2>3, <2>4 DEF Restarts, CacheInv, Sound
<1>5. CASE Flips \/ Expires \/ UNCHANGED vars
  BY <1>5 DEF Flips, Expires, vars, CacheInv, SchemasSound, Sound
<1> QED BY <1>1, <1>2, <1>3, <1>4, <1>5 DEF Next

\* Along every behavior the schema cache's byte counter is the sum of its
\* entries and at most the limit, and both caches stay within their number of
\* entries with no key twice: eviction always frees enough, a hit changes no
\* sum, and an entry is never counted twice.
THEOREM CachesBalance == Spec => []CacheAccountsAddUp
<1>1. Spec => []CacheInv
  BY CacheInvInit, CacheInvStep, PTL DEF Spec
<1>2. CacheInv => CacheAccountsAddUp
  BY DEF CacheInv, SchemasSound, Sound, Distinct, CacheAccountsAddUp
<1> QED BY <1>1, <1>2, PTL

\* The schema cache answers what minification would compute.
LEMMA SchemaTransparent ==
  ASSUME SchemasSound, NEW tools \in Schema
  PROVE  ToolsSent(tools, schemas) = ToolsSent(tools, <<>>)
<1>1. ~HasKey(<<>>, Fingerprint(tools))
  BY DEF HasKey
<1>2. ASSUME HasKey(schemas, Fingerprint(tools))
      PROVE  Lookup(schemas, Fingerprint(tools)).value = Minified(tools)
  <2>1. /\ Lookup(schemas, Fingerprint(tools)) \in SchemaEntry
        /\ Lookup(schemas, Fingerprint(tools)).key = Fingerprint(tools)
    BY <1>2, LookupIs DEF SchemasSound
  <2>2. PICK t \in Schema : Lookup(schemas, Fingerprint(tools)) =
          [key |-> t, value |-> Minified(t), bytes |-> Minified(t).bytes]
    BY <2>1 DEF SchemaEntry
  <2> QED BY <2>1, <2>2 DEF Fingerprint
<1> QED BY <1>1, <1>2 DEF ToolsSent

LEMMA BodyTransparent ==
  ASSUME CacheInv, NEW request \in Requests
  PROVE  Body(Optimized(chat, request.full, results).out, schemas, request) =
         Body(Optimized(chat, request.full, <<>>).out, <<>>, request)
<1>1. Optimized(chat, request.full, results).out = Optimized(chat, request.full, <<>>).out
  <2>1. OptimizeWith(chat, request.full, results).out = OptimizeWith(chat, request.full, <<>>).out
    BY SoundEmpty, StageTransparent DEF CacheInv
  <2> QED BY <2>1 DEF Optimized
<1>2. ToolsSent(request.tools, schemas) = ToolsSent(request.tools, <<>>)
  BY RequestTools, SchemaTransparent DEF CacheInv
<1> QED BY <1>1, <1>2 DEF Body

LEMMA TransparentStep ==
  ASSUME CacheInv, [Next]_vars, sent' \notin {sent, NotSent}
  PROVE  sent' = Body(Optimized(chat, sent'.request.full, <<>>).out, <<>>, sent'.request)
<1>1. PICK request \in Requests : Sends(request)
  BY DEF Next, vars, Says, Starts, Flips, Restarts, Expires
<1>2. sent' = Body(Optimized(chat, request.full, <<>>).out, <<>>, request)
  BY <1>1, BodyTransparent DEF Sends
<1>3. sent'.request = request
  BY <1>2 DEF Body
<1> QED BY <1>2, <1>3

\* What is forwarded never depends on what the caches hold: it is what the
\* request would send with both caches empty, whatever was cached or evicted
\* before, and whatever flags and messages filled the caches.
THEOREM ForwardedWithoutCaches == Spec => CachesAreTransparent
<1> DEFINE A == sent' \notin {sent, NotSent} =>
                  sent' = Body(Optimized(chat, sent'.request.full, <<>>).out, <<>>, sent'.request)
<1>1. Spec => []CacheInv
  BY CacheInvInit, CacheInvStep, PTL DEF Spec
<1>2. CacheInv /\ [Next]_vars => [A]_sent
  BY TransparentStep
<1>3. CachesAreTransparent <=> [][A]_sent
  BY DEF CachesAreTransparent
<1> HIDE DEF A
<1> QED BY <1>1, <1>2, <1>3, PTL DEF Spec

-----------------------------------------------------------------------------
\* Truncation, whatever the notices, the limits of JSON and the keys cost.

LEMMA MaxOfTwo ==
  ASSUME NEW a \in Nat, NEW b \in Nat
  PROVE  Max({a, b}) \in {a, b} /\ Max({a, b}) >= a
<1>1. \E x \in {a, b} : \A y \in {a, b} : x >= y
  <2>1. a >= b \/ b >= a
    OBVIOUS
  <2> QED BY <2>1
<1> DEFINE P(x) == x \in {a, b} /\ \A y \in {a, b} : x >= y
<1>2. P(CHOOSE x : P(x))
  BY <1>1
<1>3. Max({a, b}) = CHOOSE x : P(x)
  BY DEF Max
<1> HIDE DEF P
<1>4. P(Max({a, b}))
  BY <1>2, <1>3
<1> QED BY <1>4 DEF P

\* What a round of _truncate_plain_text works on.
Round(n) == [head : Nat, tail : Nat, notice : 0 .. n]

LEMMA RenderedTyped ==
  ASSUME NEW n \in Nat, NEW max \in Nat, \A j \in 0 .. n : Notice(j) \in 0 .. max,
         NEW s \in Round(n)
  PROVE  Rendered(s) \in Nat
<1>1. s.head \in Nat /\ s.tail \in Nat /\ s.notice \in 0 .. n
  BY DEF Round
<1>2. Notice(s.notice) \in Nat
  BY <1>1
<1> QED BY <1>1, <1>2 DEF Rendered

LEMMA MinusTyped ==
  ASSUME NEW a \in Nat, NEW b \in Nat
  PROVE  Minus(a, b) \in 0 .. a
BY DEF Minus

LEMMA StartTyped ==
  ASSUME NEW n \in Nat, NEW max \in Nat, \A j \in 0 .. n : Notice(j) \in 0 .. max
  PROVE  StartOf(n, max) \in Round(n)
<1> DEFINE room == Minus(max, Notice(n) + 2)
           most == Max({1, room})
           part == (7 * most) \div 10
           head == Max({1, part})
<1>1. room \in Nat
  BY MinusTyped
<1> HIDE DEF room
<1>2. most \in Nat
  BY <1>1, MaxOfTwo
<1> HIDE DEF most
<1>3. part \in Nat
  BY <1>2
<1> HIDE DEF part
<1>4. head \in Nat
  BY <1>3, MaxOfTwo
<1> HIDE DEF head
<1>5. Minus(room, head) \in Nat
  BY <1>1, <1>4, MinusTyped
<1>6. StartOf(n, max) = [head |-> head, tail |-> Minus(room, head), notice |-> n]
  BY DEF StartOf, head, part, most, room
<1> QED BY <1>4, <1>5, <1>6 DEF Round

LEMMA AgainTyped ==
  ASSUME NEW n \in Nat, NEW max \in Nat, \A j \in 0 .. n : Notice(j) \in 0 .. max,
         NEW s \in Round(n)
  PROVE  Again(s, n, max) \in Round(n)
<1> DEFINE excess == Minus(Rendered(s), max)
           cut == Min({s.tail, excess})
<1>1. Rendered(s) \in Nat /\ s.head \in Nat /\ s.tail \in Nat
  BY RenderedTyped DEF Round
<1>2. excess \in Nat
  BY <1>1, MinusTyped
<1> HIDE DEF excess
<1>3. cut \in Nat /\ cut <= s.tail /\ cut <= excess
  BY <1>1, <1>2, MinOfTwo
<1>4. Again(s, n, max) = [head |-> Minus(s.head, excess - cut), tail |-> s.tail - cut,
                          notice |-> Minus(n, Rendered(s))]
  BY DEF Again, excess
<1> HIDE DEF cut
<1>5. excess - cut \in Nat /\ s.tail - cut \in Nat
  BY <1>1, <1>2, <1>3
<1>6. Minus(s.head, excess - cut) \in Nat /\ Minus(n, Rendered(s)) \in 0 .. n
  <2>1. Minus(s.head, excess - cut) \in 0 .. s.head
    BY <1>1, <1>5, MinusTyped
  <2>2. Minus(n, Rendered(s)) \in 0 .. n
    BY <1>1, MinusTyped
  <2> QED BY <1>1, <2>1, <2>2
<1> QED BY <1>4, <1>5, <1>6 DEF Round

\* The recursive function behind PlainRounds.
LEMMA RoundsTyped ==
  ASSUME NEW n \in Nat, NEW max \in Nat, \A j \in 0 .. n : Notice(j) \in 0 .. max
  PROVE  PlainRounds(n, max) \in Round(n)
<1> DEFINE Step(s) == IF Settled(s, n, max) THEN s ELSE Again(s, n, max)
           start == StartOf(n, max)
           Goes(f, m) == f = [k \in 1 .. m |-> IF k = 1 THEN start ELSE Step(f[k - 1])]
           N == {m \in Nat : \E f : Goes(f, m)}
<1>a. PlainRounds(n, max) = (CHOOSE f : Goes(f, Rounds))[Rounds]
  <2>1. \A f, k : (IF k = 1 THEN start ELSE IF Settled(f[k - 1], n, max) THEN f[k - 1]
                    ELSE Again(f[k - 1], n, max)) =
                  (IF k = 1 THEN start ELSE Step(f[k - 1]))
    OBVIOUS
  <2> QED BY DEF PlainRounds
<1>b. start \in Round(n) /\ \A s \in Round(n) : Step(s) \in Round(n)
  BY StartTyped, AgainTyped
<1> HIDE DEF start, Step
<1>1. 0 \in N
  <2> DEFINE z == [k \in 1 .. 0 |-> start]
  <2>1. Goes(z, 0)
    <3>1. 1 .. 0 = {}
      OBVIOUS
    <3> QED BY <3>1
  <2> QED BY <2>1
<1>2. ASSUME NEW m \in N PROVE m + 1 \in N
  <2>1. PICK f : Goes(f, m)
    OBVIOUS
  <2> DEFINE last == IF m = 0 THEN start ELSE Step(f[m])
             g == [k \in 1 .. m + 1 |-> IF k = m + 1 THEN last ELSE f[k]]
  <2>2. m \in Nat
    OBVIOUS
  <2> HIDE DEF N
  <2>3. ASSUME NEW k \in 1 .. m + 1
        PROVE  g[k] = IF k = 1 THEN start ELSE Step(g[k - 1])
    <3>1. CASE k = m + 1
      <4>1. (k = 1 <=> m = 0) /\ k - 1 = m /\ m # m + 1 /\ (m # 0 => m \in 1 .. m + 1)
        BY <2>2, <3>1
      <4>2. g[k] = last /\ (m # 0 => g[k - 1] = f[m])
        BY <3>1, <4>1
      <4> QED BY <3>1, <4>1, <4>2
    <3>2. CASE k # m + 1
      <4>1. k \in 1 .. m
        BY <2>2, <3>2
      <4>2. k # 1 => k - 1 \in 1 .. m + 1 /\ k - 1 # m + 1
        BY <2>2, <4>1
      <4>3. f[k] = IF k = 1 THEN start ELSE Step(f[k - 1])
        BY <2>1, <4>1
      <4>4. g[k] = f[k] /\ (k # 1 => g[k - 1] = f[k - 1])
        BY <3>2, <4>2
      <4> HIDE DEF g
      <4> QED BY <4>3, <4>4
    <3> QED BY <3>1, <3>2
  <2>4. Goes(g, m + 1)
    <3>1. g = [k \in 1 .. m + 1 |-> g[k]]
      OBVIOUS
    <3> HIDE DEF g
    <3> QED BY <2>3, <3>1
  <2> HIDE DEF Goes
  <2> QED BY <2>2, <2>4 DEF N
<1>3. Rounds \in N
  <2>1. N \in SUBSET Nat
    OBVIOUS
  <2>2. Rounds \in Nat
    BY DEF Rounds
  <2> HIDE DEF N
  <2> QED BY <1>1, <1>2, <2>1, <2>2, NatSetInduction
<1> DEFINE s == CHOOSE f : Goes(f, Rounds)
<1>4. Goes(s, Rounds)
  <2>1. \E f : Goes(f, Rounds)
    BY <1>3
  <2> HIDE DEF Goes
  <2> QED BY <2>1
<1>5. PlainRounds(n, max) = s[Rounds]
  BY <1>a
<1> HIDE DEF s
<1>6. \A k \in 1 .. Rounds : s[k] = IF k = 1 THEN start ELSE Step(s[k - 1])
  BY <1>4
<1> DEFINE S == {k \in Nat : k + 1 <= Rounds => s[k + 1] \in Round(n)}
<1>7. 0 \in S
  <2>1. 1 \in 1 .. Rounds
    BY DEF Rounds
  <2> QED BY <1>b, <1>6, <2>1
<1>8. ASSUME NEW k \in S PROVE k + 1 \in S
  <2>1. ASSUME (k + 1) + 1 <= Rounds PROVE s[(k + 1) + 1] \in Round(n)
    <3>1. (k + 1) + 1 \in 1 .. Rounds /\ (k + 1) + 1 # 1 /\ ((k + 1) + 1) - 1 = k + 1 /\ k + 1 <= Rounds
      BY <2>1 DEF Rounds
    <3>2. s[k + 1] \in Round(n)
      BY <3>1
    <3>3. s[(k + 1) + 1] = Step(s[k + 1])
      BY <1>6, <3>1
    <3> QED BY <1>b, <3>2, <3>3
  <2> QED BY <2>1
<1>9. S = Nat
  <2>1. S \in SUBSET Nat
    OBVIOUS
  <2> HIDE DEF S
  <2> QED BY <1>7, <1>8, <2>1, NatSetInduction
<1>10. 31 \in S /\ 31 + 1 = Rounds
  <2>1. 31 \in Nat /\ 31 + 1 = Rounds
    BY DEF Rounds
  <2> HIDE DEF S
  <2> QED BY <1>9, <2>1
<1>11. Rounds <= Rounds
  BY DEF Rounds
<1> QED BY <1>5, <1>10, <1>11

\* No result of truncation is over the limit when every notice is within it.
LEMMA TruncatedWithin ==
  ASSUME NEW n \in Nat, NEW max \in Nat, \A j \in 0 .. n : Notice(j) \in 0 .. max,
         NEW json
  PROVE  Truncated(n, max, json) <= max
<1>1. TruncatedText(n, max) <= max
  <2> DEFINE s == PlainRounds(n, max)
  <2>1. s \in Round(n)
    BY RoundsTyped
  <2> HIDE DEF s
  <2>2. Notice(s.notice) \in Nat
    BY <2>1 DEF Round
  <2>3. Minus(n, Notice(s.notice)) \in 0 .. n
    BY <2>2, MinusTyped
  <2>4. Notice(Minus(n, Notice(s.notice))) <= max
    BY <2>3
  <2>5. Settled(s, n, max) => Rendered(s) <= max
    BY DEF Settled
  <2> QED BY <2>4, <2>5 DEF TruncatedText, s
<1>2. TruncatedJson(n, max) <= max
  <2> DEFINE fits == {i \in 1 .. 4 : WithNotice(Shaped(n, i), n) <= max}
  <2>1. CASE fits # {}
    <3>1. TruncatedJson(n, max) = WithNotice(Shaped(n, Min(fits)), n)
      BY <2>1 DEF TruncatedJson
    <3>2. Min(fits) \in fits
      <4>1. fits \in SUBSET Nat
        OBVIOUS
      <4> HIDE DEF fits
      <4> QED BY <2>1, <4>1, MinIsMember
    <3> QED BY <3>1, <3>2
  <2>2. CASE fits = {}
    <3>1. TruncatedJson(n, max) = MinimalJson(n, max)
      BY <2>2 DEF TruncatedJson
    <3>2. Notice(n) <= max
      OBVIOUS
    <3> QED BY <3>1, <3>2 DEF MinimalJson
  <2> QED BY <2>1, <2>2
<1> QED BY <1>1, <1>2 DEF Truncated

-----------------------------------------------------------------------------
\* The continuation store, and ids that no content of it has.

SavedSound(store) ==
  /\ IsFiniteSet(store)
  /\ \A c \in store : c.id \in Nat
  /\ \A c, d \in store : c.id = d.id => c = d

LEMMA FreshIs ==
  ASSUME NEW store, IsFiniteSet(store), \A c \in store : c.id \in Nat
  PROVE  FreshId(store) \in Nat /\ \A c \in store : c.id # FreshId(store)
<1> DEFINE k == Cardinality(store)
           ids == {c.id : c \in store}
           free == {n \in 1 .. k + 1 : \A c \in store : c.id # n}
           f == [c \in store |-> c.id]
<1>1. k \in Nat
  BY FS_CardinalityType
<1>2. IsFiniteSet(ids) /\ Cardinality(ids) <= k
  <2>1. f \in Surjection(store, ids)
    BY DEF Surjection
  <2> HIDE DEF f, ids
  <2> QED BY <2>1, FS_Surjection
<1> HIDE DEF k
<1>3. free # {}
  <2> SUFFICES ASSUME free = {} PROVE FALSE
    OBVIOUS
  <2>1. 1 .. k + 1 \subseteq ids
    OBVIOUS
  <2>2. Cardinality(1 .. k + 1) = k + 1
    <3>1. 1 \in Int /\ k + 1 \in Int /\ 1 <= k + 1 /\ (k + 1) - 1 + 1 = k + 1
      BY <1>1
    <3>2. Cardinality(1 .. k + 1) = IF 1 > k + 1 THEN 0 ELSE (k + 1) - 1 + 1
      BY ONLY <3>1, FS_Interval
    <3> QED BY <1>1, <3>2
  <2> HIDE DEF ids
  <2>3. Cardinality(1 .. k + 1) <= Cardinality(ids) /\ Cardinality(ids) \in Nat
    BY <1>2, <2>1, FS_Subset, FS_CardinalityType
  <2> QED BY <1>1, <1>2, <2>2, <2>3
<1>4. FreshId(store) = Min(free)
  BY DEF FreshId, k
<1>5. Min(free) \in free
  <2>1. free \in SUBSET Nat
    BY <1>1
  <2> HIDE DEF free
  <2> QED BY <1>3, <2>1, MinIsMember
<1> QED BY <1>1, <1>4, <1>5

LEMMA SavedGrows ==
  ASSUME NEW store, SavedSound(store), NEW content
  PROVE  SavedSound(store \cup {[id |-> FreshId(store), content |-> content]})
<1> DEFINE e == [id |-> FreshId(store), content |-> content]
<1>1. e.id = FreshId(store)
  OBVIOUS
<1>2. FreshId(store) \in Nat /\ \A c \in store : c.id # FreshId(store)
  BY FreshIs DEF SavedSound
<1> HIDE DEF e
<1>3. IsFiniteSet(store \cup {e})
  BY FS_AddElement DEF SavedSound
<1> QED BY <1>1, <1>2, <1>3 DEF SavedSound, e

-----------------------------------------------------------------------------
\* What the tool-result stage makes of a message.

IsContent(c) == c = [kind |-> c.kind, tokens |-> c.tokens, form |-> c.form, id |-> c.id]

IsMessage(m) ==
  /\ m = [role |-> m.role, calls |-> m.calls, args |-> m.args, type |-> m.type,
          content |-> m.content]
  /\ m.calls \in BOOLEAN
  /\ IsContent(m.content)

LEMMA DidIs ==
  ASSUME NEW c, IsContent(c), NEW step, NEW tokens
  PROVE  Did(c, step, tokens) =
           [kind |-> c.kind, tokens |-> tokens, form |-> Append(c.form, step), id |-> c.id]
<1> DEFINE kd == c.kind
           tk == c.tokens
           fm == c.form
           ident == c.id
<1>1. c = [kind |-> kd, tokens |-> tk, form |-> fm, id |-> ident]
  BY DEF IsContent
<1> HIDE DEF kd, tk, fm, ident
<1>2. Did(c, step, tokens) = [kind |-> kd, tokens |-> tokens, form |-> Append(fm, step), id |-> ident]
  <2> DEFINE new == Append(fm, step)
             a == [c EXCEPT !.form = new]
  <2>1. c.form = fm
    BY <1>1
  <2>2. Did(c, step, tokens) = [a EXCEPT !.tokens = tokens]
    BY <2>1 DEF Did
  <2> HIDE DEF new
  <2>3. a = [kind |-> kd, tokens |-> tk, form |-> new, id |-> ident]
    BY <1>1
  <2> HIDE DEF a
  <2>4. [a EXCEPT !.tokens = tokens] =
          [kind |-> kd, tokens |-> tokens, form |-> new, id |-> ident]
    BY ONLY <2>3
  <2> QED BY <2>2, <2>4 DEF new
<1> QED BY <1>2 DEF kd, fm, ident

LEMMA WithContent ==
  ASSUME NEW m, IsMessage(m), NEW c, IsContent(c)
  PROVE  LET n == [m EXCEPT !.content = c] IN
         /\ n.role = m.role /\ n.calls = m.calls /\ n.content = c
         /\ IsMessage(n)
<1> DEFINE n == [m EXCEPT !.content = c]
           rl == m.role
           cl == m.calls
           ar == m.args
           ty == m.type
           ct == m.content
<1>1. m = [role |-> rl, calls |-> cl, args |-> ar, type |-> ty, content |-> ct] /\ cl \in BOOLEAN
  BY DEF IsMessage
<1> HIDE DEF rl, cl, ar, ty, ct
<1>2. n = [role |-> rl, calls |-> cl, args |-> ar, type |-> ty, content |-> c]
  BY <1>1
<1> HIDE DEF n
<1>3. IsMessage(n)
  BY <1>1, <1>2 DEF IsMessage
<1> QED BY <1>1, <1>2, <1>3 DEF n

LEMMA SaidIs ==
  ASSUME NEW m \in Messages
  PROVE  /\ IsMessage(m)
         /\ m.content.form = <<>> /\ m.content.tokens \in Nat /\ m.content.id = 0
         /\ m.type \in STRING /\ m.type # "continued"
<1>1. m \in Message /\ m.type # "continued"
  BY MessagesAreSaid
<1>2. m.content \in Text
  BY <1>1 DEF Message
<1>3. IsContent(m.content)
  BY <1>2 DEF Text, IsContent
<1> QED BY <1>1, <1>2, <1>3 DEF Message, Text, IsMessage

Sequence(s) == \E S : s \in Seq(S)

\* A content within the limit that is not a preview.
Within(c) ==
  /\ IsContent(c)
  /\ Sequence(c.form) /\ ~Contains(c.form, "continued")
  /\ c.tokens <= MaxTokens
  /\ c.form = <<>> => c.tokens \in Int

LEMMA NotPreview ==
  ASSUME NEW form, Sequence(form), ~Contains(form, "continued"), NEW step, step # "continued"
  PROVE  /\ Sequence(Append(form, step)) /\ Append(form, step) # <<>>
         /\ ~Contains(Append(form, step), "continued")
<1> PICK S : form \in Seq(S)
  BY DEF Sequence
<1> DEFINE T == S \cup {step}
<1>a. form \in Seq(T) /\ step \in T
  BY SeqMonotonic
<1> HIDE DEF T
<1>1. /\ Append(form, step) \in Seq(T) /\ Append(form, step) # <<>>
      /\ Len(Append(form, step)) = Len(form) + 1
      /\ \A i \in 1 .. Len(form) : Append(form, step)[i] = form[i]
      /\ Append(form, step)[Len(form) + 1] = step
      /\ Len(form) \in Nat
  BY <1>a, AppendProperties, LenProperties
<1>2. \A i \in 1 .. Len(form) + 1 : i \in 1 .. Len(form) \/ i = Len(form) + 1
  BY <1>1
<1>3. Sequence(Append(form, step))
  BY <1>1 DEF Sequence
<1> QED BY <1>1, <1>2, <1>3 DEF Contains

\* truncate_large_result keeps a tool result within the limit.
LEMMA ValueWithin ==
  ASSUME NEW m \in Messages
  PROVE  Within(Value(ResultKey(m)))
<1> DEFINE t == m.content
           c == FilterByType(t, m.type)
           v == Limited(c)
<1>1. /\ IsContent(t) /\ t.form = <<>> /\ t.tokens \in Nat
      /\ m.type \in STRING /\ m.type # "continued"
  BY SaidIs DEF IsMessage
<1>2. Value(ResultKey(m)) = v
  BY ResultKeyTyped DEF Value
<1>3. \A n \in 0 .. t.tokens : Notice(n) \in 0 .. MaxTokens
  BY NoticesFit
<1>4. MaxTokens \in Nat
  BY LimitsArePositive
<1> HIDE DEF t
<1>5. Sequence(<<>>) /\ ~Contains(<<>>, "continued")
  <2>1. Len(<<>>) = 0 /\ <<>> \in Seq({})
    OBVIOUS
  <2> QED BY <2>1 DEF Contains, Sequence
<1>6. /\ IsContent(c) /\ Sequence(c.form) /\ ~Contains(c.form, "continued")
      /\ c.tokens \in Int /\ c.tokens <= t.tokens
  <2>1. CASE c = t
    <3> HIDE DEF c
    <3>1. t.tokens \in Int /\ t.tokens <= t.tokens
      BY <1>1
    <3> QED BY <1>1, <1>5, <2>1, <3>1
  <2>2. CASE c # t
    <3>1. c = Did(t, m.type, t.tokens - 1)
      BY <2>2 DEF FilterByType
    <3>2. c = [kind |-> t.kind, tokens |-> t.tokens - 1, form |-> Append(<<>>, m.type), id |-> t.id]
      BY <1>1, <3>1, DidIs
    <3>3. Sequence(Append(<<>>, m.type)) /\ ~Contains(Append(<<>>, m.type), "continued")
      BY <1>1, <1>5, NotPreview
    <3> HIDE DEF c
    <3>4. c.tokens = t.tokens - 1 /\ c.form = Append(<<>>, m.type) /\ IsContent(c)
      BY <3>2 DEF IsContent
    <3> QED BY <1>1, <3>3, <3>4
  <2> QED BY <2>1, <2>2
<1> HIDE DEF c
<1>7. CASE c.tokens <= MaxTokens
  <2>1. v = c
    BY <1>7 DEF Limited
  <2> HIDE DEF v
  <2> QED BY <1>2, <1>6, <1>7, <2>1 DEF Within
<1>8. CASE ~(c.tokens <= MaxTokens)
  <2> DEFINE n == Truncated(c.tokens, MaxTokens, c.kind \in JsonKinds)
  <2>1. c.tokens \in Nat /\ \A j \in 0 .. c.tokens : Notice(j) \in 0 .. MaxTokens
    BY <1>1, <1>3, <1>4, <1>6, <1>8
  <2>2. n <= MaxTokens
    BY <1>4, <2>1, TruncatedWithin
  <2>3. v = Did(c, "cut", n)
    BY <1>8 DEF Limited
  <2> HIDE DEF n, v
  <2>4. v = [kind |-> c.kind, tokens |-> n, form |-> Append(c.form, "cut"), id |-> c.id]
    BY <1>6, <2>3, DidIs
  <2>5. /\ Sequence(Append(c.form, "cut")) /\ Append(c.form, "cut") # <<>>
        /\ ~Contains(Append(c.form, "cut"), "continued")
    <3>1. "cut" # "continued"
      OBVIOUS
    <3> QED BY ONLY <1>6, <3>1, NotPreview
  <2>6. v.form = Append(c.form, "cut") /\ v.tokens = n /\ IsContent(v)
    BY <2>4 DEF IsContent
  <2>7. Within(v)
    BY <2>2, <2>5, <2>6 DEF Within
  <2> QED BY <1>2, <2>7 DEF v
<1> QED BY <1>7, <1>8

OutMessage ==
  {Treat(m) : m \in Messages} \cup {Continued(m, id) : m \in Messages, id \in Nat}

Becomes(m, o, store) ==
  \/ o = Treat(m)
  \/ /\ m.role = "tool"
     /\ \E id \in Nat : o = Continued(m, id) /\ [id |-> id, content |-> m.content] \in store

\* Every message becomes its filtered and limited form, or a preview whose
\* content is in the store when the stage ends.
LEMMA StageOut ==
  ASSUME NEW messages \in Seq(Messages), NEW full, NEW cached, Sound(cached), SavedSound(saved)
  PROVE  LET r == OptimizeWith(messages, full, cached) IN
         /\ r.out \in Seq(OutMessage) /\ Len(r.out) = Len(messages)
         /\ SavedSound(r.saved)
         /\ \A i \in 1 .. Len(messages) : Becomes(messages[i], r.out[i], r.saved)
<1> DEFINE k == Len(messages)
<1>1. k \in Nat /\ \A n \in 1 .. k : messages[n] \in Messages
  BY LenProperties
<1>2. PICK f : /\ OptimizeWith(messages, full, cached) = f[k]
               /\ f[0] = [out |-> <<>>, results |-> cached, saved |-> saved]
               /\ \A n \in 1 .. k : f[n] = OptimizeMessage(f[n - 1], messages[n], full)
  BY <1>1, StageUnfolds
<1> HIDE DEF k
<1> DEFINE Good(a, n) == /\ Sound(a.results) /\ SavedSound(a.saved)
                         /\ a.out \in Seq(OutMessage) /\ Len(a.out) = n
                         /\ \A i \in 1 .. n : Becomes(messages[i], a.out[i], a.saved)
           S == {n \in Nat : Good(f[n], n)}
<1>3. 0 \in S
  <2>1. f[0].results = cached /\ f[0].out = <<>> /\ f[0].saved = saved
    BY <1>2
  <2>2. <<>> \in Seq(OutMessage) /\ Len(<<>>) = 0 /\ 1 .. 0 = {}
    OBVIOUS
  <2> QED BY <2>1, <2>2
<1>4. ASSUME NEW n \in S, n + 1 <= k PROVE n + 1 \in S
  <2> DEFINE m == messages[n + 1]
             a == f[n]
             b == f[n + 1]
  <2>1. n \in Nat /\ n + 1 \in Nat /\ n + 1 \in 1 .. k /\ (n + 1) - 1 = n /\ m \in Messages
    BY <1>1, <1>4
  <2>2. Good(a, n)
    OBVIOUS
  <2>3. b = OptimizeMessage(a, m, full)
    BY <1>2, <2>1
  <2>a. m = messages[n + 1] /\ b = f[n + 1]
    OBVIOUS
  <2> HIDE DEF a, b, m, S
  <2>4. /\ Sound(b.results)
        /\ StringResult(m) /\ Continues(a, m, full) =>
             /\ b.out = Append(a.out, Continued(m, FreshId(a.saved)))
             /\ b.saved = a.saved \cup {[id |-> FreshId(a.saved), content |-> m.content]}
        /\ ~(StringResult(m) /\ Continues(a, m, full)) =>
             b.out = Append(a.out, Treat(m)) /\ b.saved = a.saved
    BY <2>1, <2>2, <2>3, StageStep
  <2>5. \E o \in OutMessage :
          /\ b.out = Append(a.out, o)
          /\ Becomes(m, o, b.saved)
          /\ a.saved \subseteq b.saved
          /\ SavedSound(b.saved)
    <3>1. CASE StringResult(m) /\ Continues(a, m, full)
      <4> DEFINE id == FreshId(a.saved)
      <4>1. id \in Nat
        BY <2>2, FreshIs DEF SavedSound
      <4>2. SavedSound(b.saved)
        BY <2>2, <2>4, <3>1, SavedGrows
      <4> HIDE DEF id
      <4>3. /\ b.out = Append(a.out, Continued(m, id))
            /\ b.saved = a.saved \cup {[id |-> id, content |-> m.content]}
        BY <2>4, <3>1 DEF id
      <4>4. Continued(m, id) \in OutMessage
        BY <2>1, <4>1 DEF OutMessage
      <4>5. Becomes(m, Continued(m, id), b.saved)
        BY <3>1, <4>1, <4>3 DEF Becomes, StringResult
      <4>6. a.saved \subseteq b.saved
        BY <4>3
      <4> QED BY <4>2, <4>3, <4>4, <4>5, <4>6
    <3>2. CASE ~(StringResult(m) /\ Continues(a, m, full))
      <4>1. b.out = Append(a.out, Treat(m)) /\ b.saved = a.saved
        BY <2>4, <3>2
      <4>2. Treat(m) \in OutMessage
        BY <2>1 DEF OutMessage
      <4>3. Becomes(m, Treat(m), b.saved)
        BY DEF Becomes
      <4>4. SavedSound(a.saved) /\ a.saved \subseteq b.saved
        BY <2>2, <4>1
      <4> QED BY <4>1, <4>2, <4>3, <4>4
    <3> QED BY <3>1, <3>2
  <2>6. PICK o \in OutMessage :
          /\ b.out = Append(a.out, o)
          /\ Becomes(m, o, b.saved)
          /\ a.saved \subseteq b.saved
          /\ SavedSound(b.saved)
    BY <2>5
  <2>7. /\ b.out \in Seq(OutMessage) /\ Len(b.out) = n + 1
        /\ \A i \in 1 .. n : b.out[i] = a.out[i]
        /\ b.out[n + 1] = o
    BY <2>2, <2>6, AppendProperties
  <2>8. ASSUME NEW i \in 1 .. n + 1 PROVE Becomes(messages[i], b.out[i], b.saved)
    <3>1. CASE i = n + 1
      BY <2>6, <2>7, <2>a, <3>1
    <3>2. CASE i # n + 1
      <4>1. i \in 1 .. n
        BY <2>1, <3>2
      <4>2. Becomes(messages[i], a.out[i], a.saved)
        BY <2>2, <4>1
      <4>3. Becomes(messages[i], a.out[i], b.saved)
        BY <2>6, <4>2 DEF Becomes
      <4> QED BY <2>7, <4>1, <4>3
    <3> QED BY <3>1, <3>2
  <2>9. Good(b, n + 1)
    BY <2>4, <2>6, <2>7, <2>8
  <2> HIDE DEF Good
  <2> QED BY <2>1, <2>9, <2>a DEF S
<1>5. k \in S
  <2>1. S \in SUBSET Nat /\ k \in 0 .. k
    BY <1>1
  <2> HIDE DEF S
  <2> QED BY <1>1, <1>3, <1>4, <2>1, BoundedInduction
<1>6. Good(f[k], k)
  BY <1>5
<1> HIDE DEF Good
<1>7. Good(OptimizeWith(messages, full, cached), k)
  BY <1>2, <1>6
<1> QED BY <1>7 DEF Good, k

-----------------------------------------------------------------------------
\* Sequences of anything, and prefixes of them.

LEMMA SequenceIs ==
  ASSUME NEW s, Sequence(s)
  PROVE  Len(s) \in Nat /\ DOMAIN s = 1 .. Len(s)
BY LenProperties DEF Sequence

LEMMA EmptyIs == Sequence(<<>>) /\ Len(<<>>) = 0
<1>1. <<>> \in Seq({}) /\ Len(<<>>) = 0
  OBVIOUS
<1> QED BY <1>1 DEF Sequence

LEMMA FunctionIsSequence ==
  ASSUME NEW n \in Nat, NEW f, f = [i \in 1 .. n |-> f[i]]
  PROVE  Sequence(f) /\ Len(f) = n
<1> DEFINE S == {f[i] : i \in 1 .. n}
<1>1. f \in [1 .. n -> S]
  OBVIOUS
<1> HIDE DEF S
<1>2. f \in Seq(S)
  BY <1>1, SeqDef
<1>3. Sequence(f)
  BY <1>2 DEF Sequence
<1>4. DOMAIN f = 1 .. n /\ DOMAIN f = 1 .. Len(f) /\ Len(f) \in Nat
  BY <1>1, <1>2, LenProperties
<1>5. Len(f) = n
  BY <1>4
<1> QED BY <1>3, <1>5

LEMMA AppendIs ==
  ASSUME NEW s, Sequence(s), NEW e
  PROVE  /\ Sequence(Append(s, e)) /\ Len(Append(s, e)) = Len(s) + 1
         /\ \A i \in 1 .. Len(s) : Append(s, e)[i] = s[i]
         /\ Append(s, e)[Len(s) + 1] = e
<1> PICK S : s \in Seq(S)
  BY DEF Sequence
<1> DEFINE T == S \cup {e}
<1>1. s \in Seq(T) /\ e \in T
  BY SeqMonotonic
<1> HIDE DEF T
<1>2. /\ Append(s, e) \in Seq(T) /\ Len(Append(s, e)) = Len(s) + 1
      /\ \A i \in 1 .. Len(s) : Append(s, e)[i] = s[i]
      /\ Append(s, e)[Len(s) + 1] = e
  BY <1>1, AppendProperties
<1> QED BY <1>2 DEF Sequence

Pre(s, t) ==
  /\ Sequence(s) /\ Sequence(t)
  /\ Len(s) <= Len(t)
  /\ \A i \in 1 .. Len(s) : s[i] = t[i]

LEMMA PreIsPrefix ==
  ASSUME NEW s, NEW t, Pre(s, t)
  PROVE  IsPrefix(s, t)
<1> PICK S : s \in Seq(S)
  BY DEF Pre, Sequence
<1> PICK T : t \in Seq(T)
  BY DEF Pre, Sequence
<1> DEFINE D == S \cup T
           n == Len(s)
<1>1. s \in Seq(D) /\ t \in Seq(D)
  BY SeqMonotonic
<1> HIDE DEF D
<1>2. n \in Nat /\ n \in 0 .. Len(s) /\ n \in 0 .. Len(t)
  BY <1>1, LenProperties DEF Pre
<1> HIDE DEF n
<1>3. SubSeq(s, 1, n) \in Seq(D) /\ Len(SubSeq(s, 1, n)) = n /\ \A j \in 1 .. n : SubSeq(s, 1, n)[j] = s[j]
  BY <1>1, <1>2, Prefix
<1>4. SubSeq(t, 1, n) \in Seq(D) /\ Len(SubSeq(t, 1, n)) = n /\ \A j \in 1 .. n : SubSeq(t, 1, n)[j] = t[j]
  BY <1>1, <1>2, Prefix
<1>5. \A j \in 1 .. n : s[j] = t[j]
  BY DEF Pre, n
<1> DEFINE a == SubSeq(s, 1, n)
           b == SubSeq(t, 1, n)
<1> HIDE DEF a, b
<1>6. a \in Seq(D) /\ b \in Seq(D) /\ Len(a) = Len(b) /\ \A j \in 1 .. Len(a) : a[j] = b[j]
  BY <1>3, <1>4, <1>5 DEF a, b
<1>7. a = b
  BY ONLY <1>6, SeqEqual
<1> QED BY <1>7 DEF IsPrefix, Pre, a, b, n

LEMMA PreTransitive ==
  ASSUME NEW s, NEW t, NEW u, Pre(s, t), Pre(t, u)
  PROVE  Pre(s, u)
<1>1. Len(s) \in Nat /\ Len(t) \in Nat /\ Len(u) \in Nat
  BY SequenceIs DEF Pre
<1> QED BY <1>1 DEF Pre

LEMMA PreAppend ==
  ASSUME NEW s, Sequence(s), NEW e
  PROVE  Pre(s, s) /\ Pre(s, Append(s, e))
<1>1. /\ Len(s) \in Nat /\ Sequence(Append(s, e)) /\ Len(Append(s, e)) = Len(s) + 1
      /\ \A i \in 1 .. Len(s) : Append(s, e)[i] = s[i]
  BY AppendIs, SequenceIs
<1> QED BY <1>1 DEF Pre

-----------------------------------------------------------------------------
\* Cleaning.

\* The recursive function behind CleanMessages.
LEMMA CleanUnfolds ==
  ASSUME NEW messages, Len(messages) \in Nat, NEW calling, NEW on
  PROVE  \E f : /\ CleanMessages(messages, calling, on) = f[Len(messages)]
                /\ f[0] = <<>>
                /\ \A n \in 1 .. Len(messages) :
                     f[n] = CleanOne(f[n - 1], messages[n], calling, on)
<1> DEFINE k == Len(messages)
           start == <<>>
           Stage(f, m) == f = [n \in 0 .. m |-> IF n = 0 THEN start
                                                ELSE CleanOne(f[n - 1], messages[n], calling, on)]
           N == {m \in Nat : \E f : Stage(f, m)}
<1>4. CleanMessages(messages, calling, on) = (CHOOSE f : Stage(f, k))[k]
  BY DEF CleanMessages
<1> HIDE DEF start
<1>1. 0 \in N
  <2> DEFINE z == [n \in 0 .. 0 |-> start]
  <2>1. Stage(z, 0)
    <3>1. \A n \in 0 .. 0 : n = 0
      OBVIOUS
    <3>2. [n \in 0 .. 0 |-> IF n = 0 THEN start ELSE CleanOne(z[n - 1], messages[n], calling, on)]
            = [n \in 0 .. 0 |-> start]
      BY <3>1
    <3> QED BY <3>2
  <2> QED BY <2>1
<1>2. ASSUME NEW m \in N PROVE m + 1 \in N
  <2>1. PICK f : Stage(f, m)
    OBVIOUS
  <2> DEFINE last == CleanOne(f[m], messages[m + 1], calling, on)
             g == [n \in 0 .. m + 1 |-> IF n = m + 1 THEN last ELSE f[n]]
  <2>2. m \in Nat
    OBVIOUS
  <2> HIDE DEF N
  <2>3. ASSUME NEW n \in 0 .. m + 1
        PROVE  g[n] = IF n = 0 THEN start ELSE CleanOne(g[n - 1], messages[n], calling, on)
    <3>1. CASE n = m + 1
      <4>1. n # 0 /\ n - 1 = m /\ m \in 0 .. m + 1 /\ m # m + 1
        BY <2>2, <3>1
      <4>2. g[n] = last /\ g[n - 1] = f[m]
        BY <3>1, <4>1
      <4> QED BY <3>1, <4>1, <4>2
    <3>2. CASE n # m + 1
      <4>1. n \in 0 .. m
        BY <2>2, <3>2
      <4>2. n # 0 => n - 1 \in 0 .. m + 1 /\ n - 1 # m + 1
        BY <2>2, <4>1
      <4>3. f[n] = IF n = 0 THEN start ELSE CleanOne(f[n - 1], messages[n], calling, on)
        BY <2>1, <4>1
      <4>4. g[n] = f[n] /\ (n # 0 => g[n - 1] = f[n - 1])
        BY <3>2, <4>2
      <4> HIDE DEF g
      <4> QED BY <4>3, <4>4
    <3> QED BY <3>1, <3>2
  <2>4. Stage(g, m + 1)
    <3>1. g = [n \in 0 .. m + 1 |-> g[n]]
      OBVIOUS
    <3> HIDE DEF g
    <3> QED BY <2>3, <3>1
  <2> HIDE DEF Stage
  <2> QED BY <2>2, <2>4 DEF N
<1>3. k \in N
  <2>1. N \in SUBSET Nat
    OBVIOUS
  <2> HIDE DEF N
  <2> QED BY <1>1, <1>2, <2>1, NatSetInduction
<1> DEFINE s == CHOOSE f : Stage(f, k)
<1>5. Stage(s, k)
  <2>1. \E f : Stage(f, k)
    BY <1>3
  <2> HIDE DEF Stage
  <2> QED BY <2>1
<1>6. CleanMessages(messages, calling, on) = s[k]
  BY <1>4
<1> HIDE DEF s
<1>7. s[0] = start /\ \A n \in 1 .. k : s[n] = CleanOne(s[n - 1], messages[n], calling, on)
  <2>1. 0 \in 0 .. k /\ \A n \in 1 .. k : n \in 0 .. k /\ n # 0
    OBVIOUS
  <2> QED BY <1>5, <2>1
<1> QED BY <1>6, <1>7 DEF start

LEMMA CleanOneIs ==
  ASSUME NEW out, NEW m, NEW calling, NEW on
  PROVE  CleanOne(out, m, calling, on) \in {out, Append(out, m), Append(out, Compacted(m))}
<1> DEFINE one == CleanOne(out, m, calling, on)
           a == Append(out, m)
           b == Append(out, Compacted(m))
<1>1. one = out \/ one = a \/ one = b
  <2>1. CASE m.role = "tool" /\ ~m.calls
    BY <2>1 DEF CleanOne
  <2>2. CASE ~(m.role = "tool" /\ ~m.calls) /\ m.calls
    BY <2>2 DEF CleanOne
  <2>3. CASE ~(m.role = "tool" /\ ~m.calls) /\ ~m.calls /\ calling
    BY <2>3 DEF CleanOne
  <2>4. CASE ~(m.role = "tool" /\ ~m.calls) /\ ~m.calls /\ ~calling
    BY <2>4 DEF CleanOne
  <2> QED BY <2>1, <2>2, <2>3, <2>4
<1> QED BY <1>1

\* f[n] is what is left of the first n messages.
CleanRun(f, messages, calling, on) ==
  /\ CleanMessages(messages, calling, on) = f[Len(messages)]
  /\ f[0] = <<>>
  /\ \A n \in 1 .. Len(messages) : f[n] = CleanOne(f[n - 1], messages[n], calling, on)
  /\ \A n \in 0 .. Len(messages) : Sequence(f[n]) /\ Len(f[n]) <= n

LEMMA CleanSteps ==
  ASSUME NEW messages, Sequence(messages), NEW calling, NEW on
  PROVE  \E f : CleanRun(f, messages, calling, on)
<1> DEFINE k == Len(messages)
<1>1. k \in Nat
  BY SequenceIs
<1>2. PICK f : /\ CleanMessages(messages, calling, on) = f[k]
               /\ f[0] = <<>>
               /\ \A n \in 1 .. k : f[n] = CleanOne(f[n - 1], messages[n], calling, on)
  BY <1>1, CleanUnfolds
<1> HIDE DEF k
<1> DEFINE S == {n \in Nat : Sequence(f[n]) /\ Len(f[n]) <= n}
<1>3. 0 \in S
  <2>1. Sequence(f[0]) /\ Len(f[0]) = 0
    BY <1>2, EmptyIs
  <2> QED BY <2>1
<1>4. ASSUME NEW n \in S, n + 1 <= k PROVE n + 1 \in S
  <2> DEFINE m == messages[n + 1]
             a == f[n]
  <2>1. n \in Nat /\ n + 1 \in Nat /\ n + 1 \in 1 .. k /\ (n + 1) - 1 = n
    BY <1>1, <1>4
  <2>2. f[n + 1] = CleanOne(a, m, calling, on)
    BY <1>2, <2>1
  <2>3. Sequence(a) /\ Len(a) <= n
    OBVIOUS
  <2> HIDE DEF a, m
  <2>4. f[n + 1] \in {a, Append(a, m), Append(a, Compacted(m))}
    BY <2>2, CleanOneIs
  <2>5. Sequence(f[n + 1]) /\ Len(f[n + 1]) <= Len(a) + 1
    <3>1. Len(a) \in Nat
      BY <2>3, SequenceIs
    <3>2. CASE f[n + 1] = a
      BY <2>3, <3>1, <3>2
    <3>3. CASE f[n + 1] = Append(a, m)
      <4>1. Sequence(Append(a, m)) /\ Len(Append(a, m)) = Len(a) + 1
        BY <2>3, AppendIs
      <4> QED BY <3>1, <3>3, <4>1
    <3>4. CASE f[n + 1] = Append(a, Compacted(m))
      <4>1. Sequence(Append(a, Compacted(m))) /\ Len(Append(a, Compacted(m))) = Len(a) + 1
        BY <2>3, AppendIs
      <4> QED BY <3>1, <3>4, <4>1
    <3> QED BY <2>4, <3>2, <3>3, <3>4
  <2>6. Len(a) \in Nat /\ Len(f[n + 1]) \in Nat
    BY <2>3, <2>5, SequenceIs
  <2> QED BY <2>1, <2>3, <2>5, <2>6
<1>5. \A n \in 0 .. k : n \in S
  <2>1. S \in SUBSET Nat
    OBVIOUS
  <2> HIDE DEF S
  <2> QED BY <1>1, <1>3, <1>4, <2>1, BoundedInduction
<1>6. CleanRun(f, messages, calling, on)
  BY <1>2, <1>5 DEF k, CleanRun
<1> QED BY <1>6

\* With tools, cleaning changes single messages and drops none.
CleanPlain(m, on) ==
  IF m.role = "tool" /\ ~m.calls THEN (IF "tool_clean" \in on THEN Compacted(m) ELSE m)
  ELSE IF ~m.calls /\ m.role = "system" THEN Compacted(m)
  ELSE m

LEMMA CleanCalling ==
  ASSUME NEW messages, Sequence(messages), NEW on
  PROVE  LET clean == CleanMessages(messages, TRUE, on) IN
         /\ Sequence(clean) /\ Len(clean) = Len(messages)
         /\ \A i \in 1 .. Len(messages) : clean[i] = CleanPlain(messages[i], on)
<1> DEFINE k == Len(messages)
<1>1. k \in Nat
  BY SequenceIs
<1> PICK f : CleanRun(f, messages, TRUE, on)
  BY CleanSteps
<1>2. /\ CleanMessages(messages, TRUE, on) = f[k]
      /\ f[0] = <<>>
      /\ \A n \in 1 .. k : f[n] = CleanOne(f[n - 1], messages[n], TRUE, on)
      /\ \A n \in 0 .. k : Sequence(f[n]) /\ Len(f[n]) <= n
  BY DEF CleanRun
<1> HIDE DEF k
<1>3. ASSUME NEW out, NEW m
      PROVE  CleanOne(out, m, TRUE, on) = Append(out, CleanPlain(m, on))
  <2>1. CASE m.role = "tool" /\ ~m.calls
    BY <2>1 DEF CleanOne, CleanPlain
  <2>2. CASE ~(m.role = "tool" /\ ~m.calls) /\ m.calls
    BY <2>2 DEF CleanOne, CleanPlain
  <2>3. CASE ~(m.role = "tool" /\ ~m.calls) /\ ~m.calls
    BY <2>3 DEF CleanOne, CleanPlain
  <2> QED BY <2>1, <2>2, <2>3
<1> DEFINE Good(a, n) == Sequence(a) /\ Len(a) = n /\ \A i \in 1 .. n : a[i] = CleanPlain(messages[i], on)
           S == {n \in Nat : Good(f[n], n)}
<1>4. 0 \in S
  <2>1. <<>> \in Seq({}) /\ Len(<<>>) = 0 /\ 1 .. 0 = {}
    OBVIOUS
  <2> QED BY <1>2, <2>1 DEF Sequence
<1>5. ASSUME NEW n \in S, n + 1 <= k PROVE n + 1 \in S
  <2> DEFINE x == CleanPlain(messages[n + 1], on)
             a == f[n]
             b == f[n + 1]
  <2>1. n \in Nat /\ n + 1 \in Nat /\ n + 1 \in 1 .. k /\ (n + 1) - 1 = n
    BY <1>1, <1>5
  <2>2. b = Append(a, x)
    BY <1>2, <1>3, <2>1
  <2>3. Good(a, n)
    OBVIOUS
  <2>a. b = f[n + 1] /\ x = CleanPlain(messages[n + 1], on)
    OBVIOUS
  <2> HIDE DEF a, b, x, S
  <2>4. /\ Sequence(b) /\ Len(b) = n + 1
        /\ \A i \in 1 .. n : b[i] = a[i]
        /\ b[n + 1] = x
    BY <2>2, <2>3, AppendIs
  <2>5. ASSUME NEW i \in 1 .. n + 1 PROVE b[i] = CleanPlain(messages[i], on)
    <3>1. CASE i = n + 1
      BY <2>4, <2>a, <3>1
    <3>2. CASE i # n + 1
      <4>1. i \in 1 .. n
        BY <2>1, <3>2
      <4> QED BY <2>3, <2>4, <4>1
    <3> QED BY <3>1, <3>2
  <2>6. Good(b, n + 1)
    BY <2>4, <2>5
  <2> HIDE DEF Good
  <2> QED BY <2>1, <2>6, <2>a DEF S
<1>6. k \in S
  <2>1. S \in SUBSET Nat /\ k \in 0 .. k
    BY <1>1
  <2> HIDE DEF S
  <2> QED BY <1>1, <1>4, <1>5, <2>1, BoundedInduction
<1>7. Good(f[k], k)
  BY <1>6
<1> HIDE DEF Good
<1>8. Good(CleanMessages(messages, TRUE, on), k)
  BY <1>2, <1>7
<1> QED BY <1>8 DEF Good, k

\* Cleaning the beginning of a conversation is the beginning of cleaning it.
LEMMA CleanPre ==
  ASSUME NEW p, NEW q, Pre(p, q), NEW calling, NEW on
  PROVE  Pre(CleanMessages(p, calling, on), CleanMessages(q, calling, on))
<1> DEFINE k == Len(p)
           n == Len(q)
<1>1. /\ k \in Nat /\ n \in Nat /\ k <= n /\ \A i \in 1 .. k : p[i] = q[i]
      /\ Sequence(p) /\ Sequence(q)
  BY SequenceIs DEF Pre
<1> PICK f : CleanRun(f, p, calling, on)
  BY <1>1, CleanSteps
<1>2. /\ CleanMessages(p, calling, on) = f[k]
      /\ f[0] = <<>>
      /\ \A i \in 1 .. k : f[i] = CleanOne(f[i - 1], p[i], calling, on)
      /\ \A i \in 0 .. k : Sequence(f[i]) /\ Len(f[i]) <= i
  BY DEF CleanRun
<1> PICK g : CleanRun(g, q, calling, on)
  BY <1>1, CleanSteps
<1>3. /\ CleanMessages(q, calling, on) = g[n]
      /\ g[0] = <<>>
      /\ \A i \in 1 .. n : g[i] = CleanOne(g[i - 1], q[i], calling, on)
      /\ \A i \in 0 .. n : Sequence(g[i]) /\ Len(g[i]) <= i
  BY DEF CleanRun
<1> HIDE DEF k, n
<1> DEFINE S == {i \in Nat : f[i] = g[i]}
<1>4. 0 .. k \subseteq S
  <2>1. 0 \in S
    BY <1>2, <1>3
  <2>2. ASSUME NEW i \in S, i + 1 <= k PROVE i + 1 \in S
    <3>1. i + 1 \in 1 .. k /\ i + 1 \in 1 .. n /\ (i + 1) - 1 = i /\ i + 1 \in Nat
      BY <1>1, <2>2
    <3>2. f[i + 1] = CleanOne(f[i], p[i + 1], calling, on)
      BY ONLY <1>2, <3>1
    <3>3. g[i + 1] = CleanOne(g[i], q[i + 1], calling, on)
      BY ONLY <1>3, <3>1
    <3>4. f[i] = g[i] /\ p[i + 1] = q[i + 1]
      BY <1>1, <3>1
    <3> QED BY <3>1, <3>2, <3>3, <3>4
  <2>3. S \in SUBSET Nat
    OBVIOUS
  <2> HIDE DEF S
  <2> QED BY <1>1, <2>1, <2>2, <2>3, BoundedInduction
<1> DEFINE T == {j \in Nat : k + j <= n => Pre(g[k], g[k + j])}
           d == n - k
<1>5. d \in Nat /\ k + d = n
  BY <1>1
<1>6. 0 .. d \subseteq T
  <2>1. 0 \in T
    <3>1. k + 0 = k /\ k \in 0 .. n
      BY <1>1
    <3>2. Pre(g[k], g[k])
      BY <1>3, <3>1, PreAppend
    <3> QED BY <3>1, <3>2
  <2>2. ASSUME NEW j \in T, j + 1 <= d PROVE j + 1 \in T
    <3> DEFINE i == k + j
    <3>1. /\ i \in 0 .. n /\ i + 1 \in 1 .. n /\ (i + 1) - 1 = i
          /\ k + (j + 1) = i + 1 /\ j + 1 \in Nat /\ k + j <= n
      BY <1>1, <1>5, <2>2
    <3>2. Pre(g[k], g[i])
      BY <3>1
    <3> HIDE DEF i
    <3>3. g[i + 1] = CleanOne(g[i], q[i + 1], calling, on) /\ Sequence(g[i])
      BY <1>3, <3>1
    <3>4. g[i + 1] \in {g[i], Append(g[i], q[i + 1]), Append(g[i], Compacted(q[i + 1]))}
      BY <3>3, CleanOneIs
    <3>5. Pre(g[i], g[i + 1])
      BY <3>3, <3>4, PreAppend
    <3>6. Pre(g[k], g[i + 1])
      BY <3>2, <3>5, PreTransitive
    <3> QED BY <3>1, <3>6
  <2>3. T \in SUBSET Nat
    OBVIOUS
  <2> HIDE DEF T, d
  <2> QED BY <1>5, <2>1, <2>2, <2>3, BoundedInduction
<1>7. f[k] = g[k]
  <2>1. k \in 0 .. k
    BY <1>1
  <2> QED BY <1>4, <2>1
<1>8. Pre(g[k], g[n])
  <2>1. d \in 0 .. d /\ n <= n
    BY <1>1, <1>5
  <2>2. d \in T
    BY <1>6, <2>1
  <2> QED BY <1>5, <2>1, <2>2
<1> QED BY <1>2, <1>3, <1>7, <1>8

-----------------------------------------------------------------------------
\* What the stages keep of a message.

LEMMA DidContent ==
  ASSUME NEW c, IsContent(c), NEW step, NEW tokens
  PROVE  /\ IsContent(Did(c, step, tokens))
         /\ Did(c, step, tokens).kind = c.kind
         /\ Did(c, step, tokens).form = Append(c.form, step)
         /\ Did(c, step, tokens).tokens = tokens
         /\ Did(c, step, tokens).id = c.id
<1> DEFINE d == Did(c, step, tokens)
           fm == Append(c.form, step)
<1>1. d = [kind |-> c.kind, tokens |-> tokens, form |-> fm, id |-> c.id]
  BY DidIs
<1> HIDE DEF d, fm
<1>2. d.kind = c.kind /\ d.form = fm /\ d.tokens = tokens /\ d.id = c.id
  BY <1>1
<1>3. IsContent(d)
  BY <1>1, <1>2 DEF IsContent
<1> QED BY <1>2, <1>3 DEF d, fm

LEMMA ContinuedIs ==
  ASSUME NEW m \in Messages, NEW id
  PROVE  LET o == Continued(m, id) IN
         /\ IsMessage(o) /\ o.role = m.role /\ o.calls = m.calls
         /\ o.content.id = id /\ o.content.form = Append(<<>>, "continued")
<1> DEFINE d == Did(m.content, "continued", 0)
           kd == d.kind
           fm == d.form
           old == d.id
           c == [d EXCEPT !.id = id]
           o == Continued(m, id)
<1>1. IsMessage(m) /\ IsContent(m.content) /\ m.content.form = <<>>
  BY SaidIs DEF IsMessage
<1>2. IsContent(d) /\ d.form = Append(<<>>, "continued") /\ d.tokens = 0
  BY <1>1, DidContent
<1>3. d = [kind |-> kd, tokens |-> 0, form |-> fm, id |-> old]
  BY <1>2 DEF IsContent
<1>4. o = [m EXCEPT !.content = c]
  BY DEF Continued
<1> HIDE DEF kd, old
<1>5. fm = Append(<<>>, "continued")
  BY <1>2
<1> HIDE DEF d, fm, o
<1>6. c = [kind |-> kd, tokens |-> 0, form |-> fm, id |-> id]
  BY <1>3
<1> HIDE DEF c
<1>7. c.form = fm /\ c.id = id /\ IsContent(c)
  BY <1>6 DEF IsContent
<1>8. o.role = m.role /\ o.calls = m.calls /\ o.content = c /\ IsMessage(o)
  BY <1>1, <1>4, <1>7, WithContent
<1> QED BY <1>5, <1>7, <1>8 DEF o

LEMMA TreatIs ==
  ASSUME NEW m \in Messages
  PROVE  /\ IsMessage(Treat(m)) /\ Treat(m).role = m.role /\ Treat(m).calls = m.calls
         /\ StringResult(m) => Within(Treat(m).content)
         /\ ~StringResult(m) => Treat(m) = m
<1> DEFINE v == Value(ResultKey(m))
           t == Treat(m)
<1>1. IsMessage(m)
  BY SaidIs
<1>2. CASE ~StringResult(m)
  <2>1. t = m
    BY <1>2 DEF Treat
  <2> QED BY <1>1, <1>2, <2>1
<1>3. CASE StringResult(m)
  <2>1. t = [m EXCEPT !.content = v]
    BY <1>3 DEF Treat
  <2>2. Within(v) /\ IsContent(v)
    BY ValueWithin DEF Within
  <2> HIDE DEF v, t
  <2>3. t.role = m.role /\ t.calls = m.calls /\ t.content = v /\ IsMessage(t)
    BY <1>1, <2>1, <2>2, WithContent
  <2> QED BY <1>3, <2>2, <2>3 DEF t
<1> QED BY <1>2, <1>3

LEMMA BecomesIs ==
  ASSUME NEW m \in Messages, NEW o, NEW store, Becomes(m, o, store)
  PROVE  IsMessage(o) /\ o.role = m.role /\ o.calls = m.calls
<1>1. CASE o = Treat(m)
  BY <1>1, TreatIs
<1>2. CASE \E id \in Nat : o = Continued(m, id)
  BY <1>2, ContinuedIs
<1> QED BY <1>1, <1>2 DEF Becomes

LEMMA CompactedIs ==
  ASSUME NEW m, IsMessage(m)
  PROVE  LET n == Compacted(m) IN
         /\ IsMessage(n) /\ n.role = m.role /\ n.calls = m.calls
         /\ n = m \/ /\ m.content.form = <<>>
                     /\ n.content = Did(m.content, "compact", m.content.tokens - 1)
<1> DEFINE c == Did(m.content, "compact", m.content.tokens - 1)
           n == Compacted(m)
<1>1. CASE m.content.kind \in JsonKinds /\ m.content.form = <<>>
  <2>1. n = [m EXCEPT !.content = c]
    BY <1>1 DEF Compacted
  <2>2. IsContent(c)
    BY DidContent DEF IsMessage
  <2> HIDE DEF c, n
  <2>3. n.role = m.role /\ n.calls = m.calls /\ n.content = c /\ IsMessage(n)
    BY <2>1, <2>2, WithContent
  <2> QED BY <1>1, <2>3 DEF c, n
<1>2. CASE ~(m.content.kind \in JsonKinds /\ m.content.form = <<>>)
  <2>1. n = m
    BY <1>2 DEF Compacted
  <2> QED BY <2>1
<1> QED BY <1>1, <1>2

\* Messages none of which is a tool result.
Plain(s) ==
  /\ Sequence(s)
  /\ \A i \in 1 .. Len(s) : IsMessage(s[i]) /\ s[i].role # "tool"

LEMMA PlainAppend ==
  ASSUME NEW s, Plain(s), NEW e, IsMessage(e), e.role # "tool"
  PROVE  Plain(Append(s, e))
<1>1. /\ Sequence(Append(s, e)) /\ Len(Append(s, e)) = Len(s) + 1 /\ Len(s) \in Nat
      /\ \A i \in 1 .. Len(s) : Append(s, e)[i] = s[i]
      /\ Append(s, e)[Len(s) + 1] = e
  BY AppendIs, SequenceIs DEF Plain
<1>2. \A i \in 1 .. Len(s) + 1 : i \in 1 .. Len(s) \/ i = Len(s) + 1
  BY <1>1
<1> QED BY <1>1, <1>2 DEF Plain

LEMMA CleanKeepsPlain ==
  ASSUME NEW messages, Plain(messages), NEW calling, NEW on
  PROVE  Plain(CleanMessages(messages, calling, on))
<1> DEFINE k == Len(messages)
<1>1. Sequence(messages) /\ k \in Nat
  BY SequenceIs DEF Plain
<1> PICK f : CleanRun(f, messages, calling, on)
  BY <1>1, CleanSteps
<1>2. /\ CleanMessages(messages, calling, on) = f[k]
      /\ f[0] = <<>>
      /\ \A n \in 1 .. k : f[n] = CleanOne(f[n - 1], messages[n], calling, on)
  BY DEF CleanRun
<1>3. \A n \in 1 .. k : IsMessage(messages[n]) /\ messages[n].role # "tool"
  BY DEF Plain
<1> HIDE DEF k
<1> DEFINE S == {n \in Nat : Plain(f[n])}
<1>4. 0 \in S
  <2>1. Sequence(f[0]) /\ Len(f[0]) = 0
    BY <1>2, EmptyIs
  <2> QED BY <2>1 DEF Plain
<1>5. ASSUME NEW n \in S, n + 1 <= k PROVE n + 1 \in S
  <2> DEFINE m == messages[n + 1]
             a == f[n]
  <2>1. n \in Nat /\ n + 1 \in Nat /\ n + 1 \in 1 .. k /\ (n + 1) - 1 = n
    BY <1>1, <1>5
  <2>2. f[n + 1] = CleanOne(a, m, calling, on)
    BY <1>2, <2>1
  <2>3. Plain(a)
    OBVIOUS
  <2>4. IsMessage(m) /\ m.role # "tool"
    BY <1>3, <2>1
  <2> HIDE DEF a, m
  <2>5. f[n + 1] \in {a, Append(a, m), Append(a, Compacted(m))}
    BY <2>2, CleanOneIs
  <2>6. Plain(Append(a, m))
    BY <2>3, <2>4, PlainAppend
  <2>7. Plain(Append(a, Compacted(m)))
    <3>1. IsMessage(Compacted(m)) /\ Compacted(m).role # "tool"
      BY <2>4, CompactedIs
    <3> QED BY <2>3, <3>1, PlainAppend
  <2>8. Plain(f[n + 1])
    BY <2>3, <2>5, <2>6, <2>7
  <2> QED BY <2>1, <2>8
<1>6. k \in S
  <2>1. S \in SUBSET Nat /\ k \in 0 .. k
    BY <1>1
  <2> HIDE DEF S
  <2> QED BY <1>1, <1>4, <1>5, <2>1, BoundedInduction
<1> QED BY <1>2, <1>6

LEMMA CodebaseIs ==
  ASSUME NEW s, Sequence(s), NEW calling
  PROVE  LET t == OptimizeCodebase(s, calling) IN
         /\ Sequence(t) /\ Len(t) = Len(s)
         /\ calling => t = s
         /\ ~calling => \A i \in 1 .. Len(s) :
              t[i] = [s[i] EXCEPT !.content = Trimmed(Deduplicated(s, i))]
<1> DEFINE n == Len(s)
           e(i) == [s[i] EXCEPT !.content = Trimmed(Deduplicated(s, i))]
           t == [i \in 1 .. n |-> e(i)]
<1>1. n \in Nat /\ DOMAIN s = 1 .. n
  BY SequenceIs
<1>2. CASE calling
  <2>1. OptimizeCodebase(s, calling) = s
    BY <1>2 DEF OptimizeCodebase
  <2> QED BY <1>2, <2>1
<1>3. CASE ~calling
  <2>1. OptimizeCodebase(s, calling) = t
    BY <1>1, <1>3 DEF OptimizeCodebase
  <2>2. \A i \in 1 .. n : t[i] = e(i)
    OBVIOUS
  <2>3. t = [i \in 1 .. n |-> t[i]]
    OBVIOUS
  <2> HIDE DEF t
  <2>4. Sequence(t) /\ Len(t) = n
    <3> HIDE DEF n, e
    <3> QED BY <1>1, <2>3, FunctionIsSequence
  <2> QED BY <1>3, <2>1, <2>2, <2>4
<1> QED BY <1>2, <1>3

LEMMA CompressedIs ==
  ASSUME NEW s, Sequence(s), NEW working
  PROVE  LET t == Compressed(s, working) IN
         /\ Sequence(t) /\ Len(t) = Len(s)
         /\ \A i \in 1 .. Len(s) : t[i] =
              IF s[i].role # "system" /\ s[i].content.kind \in ProseKinds /\ working
              THEN [s[i] EXCEPT !.content = Did(@, "lossy", @.tokens - 1)] ELSE s[i]
<1> DEFINE n == Len(s)
           e(i) == IF s[i].role # "system" /\ s[i].content.kind \in ProseKinds /\ working
                   THEN [s[i] EXCEPT !.content = Did(@, "lossy", @.tokens - 1)] ELSE s[i]
           t == [i \in 1 .. n |-> e(i)]
<1>1. n \in Nat /\ DOMAIN s = 1 .. n
  BY SequenceIs
<1>2. Compressed(s, working) = t
  BY <1>1 DEF Compressed
<1>3. \A i \in 1 .. n : t[i] = e(i)
  OBVIOUS
<1>4. t = [i \in 1 .. n |-> t[i]]
  OBVIOUS
<1> HIDE DEF t
<1>5. Sequence(t) /\ Len(t) = n
  <2> HIDE DEF n, e
  <2> QED BY <1>1, <1>4, FunctionIsSequence
<1> QED BY <1>2, <1>3, <1>5

LEMMA InFront ==
  ASSUME NEW s, Sequence(s), NEW e
  PROVE  /\ Sequence(<<e>> \o s) /\ Len(<<e>> \o s) = Len(s) + 1
         /\ (<<e>> \o s)[1] = e
         /\ \A i \in 1 .. Len(s) : (<<e>> \o s)[i + 1] = s[i]
<1> PICK S : s \in Seq(S)
  BY DEF Sequence
<1> DEFINE T == S \cup {e}
           h == <<e>>
<1>1. s \in Seq(T) /\ h \in Seq(T) /\ Len(h) = 1 /\ h[1] = e /\ Len(s) \in Nat
  BY SeqMonotonic, LenProperties
<1> HIDE DEF T, h
<1>2. /\ h \o s \in Seq(T) /\ Len(h \o s) = Len(h) + Len(s)
      /\ \A i \in 1 .. Len(h) + Len(s) : (h \o s)[i] = IF i <= Len(h) THEN h[i] ELSE s[i - Len(h)]
  BY <1>1, ConcatProperties
<1>3. Sequence(h \o s) /\ Len(h \o s) = Len(s) + 1
  BY <1>1, <1>2 DEF Sequence
<1>4. (h \o s)[1] = e
  <2>1. 1 \in 1 .. Len(h) + Len(s) /\ 1 <= Len(h)
    BY <1>1
  <2> QED BY <1>1, <1>2, <2>1
<1>5. ASSUME NEW i \in 1 .. Len(s) PROVE (h \o s)[i + 1] = s[i]
  <2>1. i + 1 \in 1 .. Len(h) + Len(s) /\ ~(i + 1 <= Len(h)) /\ (i + 1) - Len(h) = i
    BY <1>1
  <2> QED BY <1>2, <2>1
<1> QED BY <1>3, <1>4, <1>5 DEF h

\* The message that inject_conciseness puts before all others.
InstructionOf(tier) ==
  [role |-> "system", calls |-> FALSE, args |-> "", type |-> "unknown",
   content |-> [kind |-> "instruction", tokens |-> 1, form |-> <<tier>>, id |-> 0]]

InjectedInto(m, tier) == [m EXCEPT !.content = Did(m.content, tier, m.content.tokens + 1)]

LEMMA InjectedIs ==
  ASSUME NEW s, Sequence(s), NEW tier
  PROVE  LET t == Injected(s, tier) IN
         /\ Sequence(t)
         /\ tier = "none" => t = s
         /\ tier # "none" /\ s # <<>> /\ s[1].role = "system" =>
              /\ Len(t) = Len(s)
              /\ \A i \in 1 .. Len(s) : t[i] = IF i = 1 THEN InjectedInto(s[1], tier) ELSE s[i]
         /\ tier # "none" /\ ~(s # <<>> /\ s[1].role = "system") =>
              /\ Len(t) = Len(s) + 1
              /\ t[1] = InstructionOf(tier)
              /\ \A i \in 1 .. Len(s) : t[i + 1] = s[i]
<1> DEFINE t == Injected(s, tier)
           n == Len(s)
<1>1. n \in Nat /\ DOMAIN s = 1 .. n
  BY SequenceIs
<1>2. CASE tier = "none"
  <2>1. t = s
    BY <1>2 DEF Injected
  <2> HIDE DEF t
  <2>2. Sequence(t)
    BY <2>1
  <2> QED BY <1>2, <2>1, <2>2 DEF t
<1>3. CASE tier # "none" /\ s # <<>> /\ s[1].role = "system"
  <2> DEFINE e == InjectedInto(s[1], tier)
             u == [i \in 1 .. n |-> IF i = 1 THEN e ELSE s[i]]
  <2>1. t = [s EXCEPT ![1] = e]
    BY <1>3 DEF Injected, InjectedInto
  <2> HIDE DEF e, t
  <2>2. t = u
    <3>1. s = [i \in 1 .. n |-> s[i]]
      <4> PICK S : s \in Seq(S)
        BY DEF Sequence
      <4>1. s \in [1 .. n -> S]
        BY LenProperties
      <4> QED BY <4>1
    <3>2. [s EXCEPT ![1] = e] = [i \in DOMAIN s |-> IF i = 1 THEN e ELSE s[i]]
      BY <3>1
    <3> QED BY <1>1, <2>1, <3>2
  <2>3. u = [i \in 1 .. n |-> u[i]] /\ \A i \in 1 .. n : u[i] = IF i = 1 THEN e ELSE s[i]
    OBVIOUS
  <2> HIDE DEF u
  <2>4. Sequence(u) /\ Len(u) = n
    <3> HIDE DEF n
    <3> QED BY <1>1, <2>3, FunctionIsSequence
  <2>5. Sequence(t) /\ Len(t) = n /\ \A i \in 1 .. n : t[i] = IF i = 1 THEN e ELSE s[i]
    BY <2>2, <2>3, <2>4
  <2> QED BY <1>3, <2>5 DEF e, t
<1>4. CASE tier # "none" /\ ~(s # <<>> /\ s[1].role = "system")
  <2> DEFINE e == InstructionOf(tier)
  <2>1. t = <<e>> \o s
    BY <1>4 DEF Injected, InstructionOf
  <2> HIDE DEF e, t
  <2>2. /\ Sequence(t) /\ Len(t) = n + 1
        /\ t[1] = e
        /\ \A i \in 1 .. n : t[i + 1] = s[i]
    BY <2>1, InFront
  <2> QED BY <1>4, <2>2 DEF e, t
<1> QED BY <1>2, <1>3, <1>4

LEMMA CodebaseKeepsPlain ==
  ASSUME NEW s, Plain(s), NEW calling
  PROVE  Plain(OptimizeCodebase(s, calling))
<1> DEFINE t == OptimizeCodebase(s, calling)
<1>1. /\ Sequence(t) /\ Len(t) = Len(s)
      /\ calling => t = s
      /\ ~calling => \A i \in 1 .. Len(s) :
           t[i] = [s[i] EXCEPT !.content = Trimmed(Deduplicated(s, i))]
  BY CodebaseIs DEF Plain
<1> HIDE DEF t
<1>2. ASSUME NEW i \in 1 .. Len(s), ~calling
      PROVE  IsMessage(t[i]) /\ t[i].role # "tool"
  <2> DEFINE c == s[i].content
             d == Deduplicated(s, i)
             v == Trimmed(d)
  <2>1. IsMessage(s[i]) /\ s[i].role # "tool" /\ IsContent(c)
    BY DEF Plain, IsMessage
  <2>2. IsContent(d)
    <3>1. \/ d = c
          \/ \E step : d = Did(c, step, c.tokens - 1)
      BY DEF Deduplicated
    <3> HIDE DEF d, c
    <3> QED BY <2>1, <3>1, DidContent
  <2> HIDE DEF d
  <2>3. IsContent(v)
    <3>1. v = d \/ v = Did(d, "trimmed", d.tokens - 1)
      BY DEF Trimmed
    <3> HIDE DEF v
    <3> QED BY <2>2, <3>1, DidContent
  <2>4. t[i] = [s[i] EXCEPT !.content = v]
    BY <1>1, <1>2 DEF d
  <2> HIDE DEF v
  <2>5. IsMessage(t[i]) /\ t[i].role = s[i].role
    BY <2>1, <2>3, <2>4, WithContent
  <2> QED BY <2>1, <2>5
<1>3. CASE calling
  BY <1>1, <1>3 DEF t
<1>4. CASE ~calling
  <2>1. Plain(t)
    BY <1>1, <1>2, <1>4 DEF Plain
  <2> QED BY <2>1 DEF t
<1> QED BY <1>3, <1>4

LEMMA CompressedKeepsPlain ==
  ASSUME NEW s, Plain(s), NEW working
  PROVE  Plain(Compressed(s, working))
<1> DEFINE t == Compressed(s, working)
<1>1. /\ Sequence(t) /\ Len(t) = Len(s)
      /\ \A i \in 1 .. Len(s) : t[i] =
           IF s[i].role # "system" /\ s[i].content.kind \in ProseKinds /\ working
           THEN [s[i] EXCEPT !.content = Did(@, "lossy", @.tokens - 1)] ELSE s[i]
  BY CompressedIs DEF Plain
<1> HIDE DEF t
<1>2. ASSUME NEW i \in 1 .. Len(s)
      PROVE  IsMessage(t[i]) /\ t[i].role # "tool"
  <2> DEFINE v == Did(s[i].content, "lossy", s[i].content.tokens - 1)
  <2>1. IsMessage(s[i]) /\ s[i].role # "tool" /\ IsContent(s[i].content)
    BY DEF Plain, IsMessage
  <2>2. IsContent(v)
    BY <2>1, DidContent
  <2>3. t[i] = s[i] \/ t[i] = [s[i] EXCEPT !.content = v]
    BY <1>1
  <2> HIDE DEF v
  <2>4. IsMessage([s[i] EXCEPT !.content = v]) /\ [s[i] EXCEPT !.content = v].role = s[i].role
    BY <2>1, <2>2, WithContent
  <2> QED BY <2>1, <2>3, <2>4
<1>3. Plain(t)
  BY <1>1, <1>2 DEF Plain
<1> QED BY <1>3 DEF t

LEMMA InjectedKeepsPlain ==
  ASSUME NEW s, Plain(s), NEW tier
  PROVE  Plain(Injected(s, tier))
<1> DEFINE t == Injected(s, tier)
           n == Len(s)
<1>1. /\ Sequence(t)
      /\ tier = "none" => t = s
      /\ tier # "none" /\ s # <<>> /\ s[1].role = "system" =>
           /\ Len(t) = n
           /\ \A i \in 1 .. n : t[i] = IF i = 1 THEN InjectedInto(s[1], tier) ELSE s[i]
      /\ tier # "none" /\ ~(s # <<>> /\ s[1].role = "system") =>
           /\ Len(t) = n + 1
           /\ t[1] = InstructionOf(tier)
           /\ \A i \in 1 .. n : t[i + 1] = s[i]
  BY InjectedIs DEF Plain
<1>2. n \in Nat /\ \A i \in 1 .. n : IsMessage(s[i]) /\ s[i].role # "tool"
  BY SequenceIs DEF Plain
<1>t. t = Injected(s, tier)
  OBVIOUS
<1> HIDE DEF t, n
<1>3. CASE tier = "none"
  BY <1>1, <1>3, <1>t
<1>4. CASE tier # "none" /\ s # <<>> /\ s[1].role = "system"
  <2>1. ASSUME NEW i \in 1 .. n PROVE IsMessage(t[i]) /\ t[i].role # "tool"
    <3>1. CASE i = 1
      <4> DEFINE v == Did(s[1].content, tier, s[1].content.tokens + 1)
      <4>1. IsMessage(s[1]) /\ IsContent(s[1].content) /\ s[1].role # "tool"
        BY <1>2, <3>1 DEF IsMessage
      <4>2. IsContent(v)
        BY <4>1, DidContent
      <4>3. t[i] = [s[1] EXCEPT !.content = v]
        BY <1>1, <1>4, <3>1 DEF InjectedInto
      <4> HIDE DEF v
      <4>4. IsMessage([s[1] EXCEPT !.content = v]) /\ [s[1] EXCEPT !.content = v].role = s[1].role
        BY <4>1, <4>2, WithContent
      <4> QED BY <4>1, <4>3, <4>4
    <3>2. CASE i # 1
      BY <1>1, <1>2, <1>4, <3>2
    <3> QED BY <3>1, <3>2
  <2>2. Plain(t)
    BY <1>1, <1>4, <2>1 DEF Plain
  <2> QED BY <1>t, <2>2
<1>5. CASE tier # "none" /\ ~(s # <<>> /\ s[1].role = "system")
  <2> DEFINE e == InstructionOf(tier)
  <2>1. IsMessage(e) /\ e.role # "tool"
    <3>1. e.role = "system" /\ "system" # "tool"
      BY DEF InstructionOf
    <3>2. IsMessage(e)
      BY DEF InstructionOf, IsMessage, IsContent
    <3> QED BY <3>1, <3>2
  <2>2. ASSUME NEW i \in 1 .. n + 1 PROVE IsMessage(t[i]) /\ t[i].role # "tool"
    <3>1. CASE i = 1
      BY <1>1, <1>5, <2>1, <3>1
    <3>2. CASE i # 1
      <4>1. i - 1 \in 1 .. n /\ (i - 1) + 1 = i
        BY <1>2, <3>2
      <4>2. t[i] = s[i - 1]
        BY <1>1, <1>5, <4>1
      <4> QED BY <1>2, <4>1, <4>2
    <3> QED BY <3>1, <3>2
  <2>3. Plain(t)
    BY <1>1, <1>5, <2>2 DEF Plain
  <2> QED BY <1>t, <2>3
<1> QED BY <1>3, <1>4, <1>5

-----------------------------------------------------------------------------
\* The body that is forwarded.

\* The messages, given the outcome of the tool-result stage and the treatment.
Final(o, t) ==
  LET clean == Cleaned(OptimizeCodebase(o, t.calling), t.calling, t.flags)
  IN IF t.route = "compress" THEN Injected(Compressed(clean, t.working), t.tier) ELSE clean

LEMMA BodyIs ==
  ASSUME NEW o, NEW cached, NEW request
  PROVE  LET body == Body(o, cached, request)
             t == body.treated
             clean == Cleaned(OptimizeCodebase(o, t.calling), t.calling, t.flags) IN
         /\ body.messages = Final(o, t)
         /\ t.flags = flags
         /\ t.calling = Calling(o, request)
         /\ t.route = RouteOf(o, t.calling)
         /\ t.tier = Instruction(clean, t.route, request.header)
         /\ t.repeated = IF t.calling THEN {} ELSE Repeated(o)
<1> DEFINE calling == Calling(o, request)
           route == RouteOf(o, calling)
           clean == Cleaned(OptimizeCodebase(o, calling), calling, flags)
           tier == Instruction(clean, route, request.header)
           t == [flags |-> flags, calling |-> calling, route |-> route, tier |-> tier,
                 working |-> request.working, repeated |-> IF calling THEN {} ELSE Repeated(o)]
           messages == IF route = "compress"
                       THEN Injected(Compressed(clean, request.working), tier) ELSE clean
           body == Body(o, cached, request)
<1>1. body = [messages |-> messages, tools |-> ToolsSent(request.tools, cached),
              request |-> request, treated |-> t]
  BY DEF Body
<1> HIDE DEF body
<1>2. body.messages = messages /\ body.treated = t
  <2> HIDE DEF messages, t
  <2> QED BY <1>1
<1>3. /\ t.flags = flags /\ t.calling = calling /\ t.route = route /\ t.tier = tier
      /\ t.working = request.working /\ t.repeated = IF calling THEN {} ELSE Repeated(o)
  <2> HIDE DEF calling, route, tier
  <2> QED OBVIOUS
<1> HIDE DEF t
<1>4. messages = Final(o, t)
  BY <1>3 DEF Final
<1> QED BY <1>2, <1>3, <1>4 DEF body

LEMMA CallingIs ==
  ASSUME NEW o, Sequence(o), NEW request, NEW i \in 1 .. Len(o), o[i].role = "tool"
  PROVE  Calling(o, request) = TRUE
<1>1. i \in DOMAIN o /\ IsProtocol(o[i])
  BY SequenceIs DEF IsProtocol
<1> QED BY <1>1 DEF Calling

LEMMA CleanedSequence ==
  ASSUME NEW s, Sequence(s), NEW calling, NEW on
  PROVE  Sequence(Cleaned(s, calling, on))
<1>1. Pre(s, s)
  BY PreAppend
<1>2. Pre(CleanMessages(s, calling, on), CleanMessages(s, calling, on))
  BY <1>1, CleanPre
<1> QED BY <1>2 DEF Cleaned, Pre

\* With tools every message is forwarded at its place.
LEMMA FinalCalling ==
  ASSUME NEW o, Sequence(o), NEW t, t.calling = TRUE, t.route = "passthrough"
  PROVE  LET f == Final(o, t) IN
         /\ Sequence(f) /\ Len(f) = Len(o)
         /\ \A i \in 1 .. Len(o) :
              f[i] = IF "l1" \in t.flags THEN CleanPlain(o[i], t.flags) ELSE o[i]
<1>1. OptimizeCodebase(o, TRUE) = o
  BY DEF OptimizeCodebase
<1>2. Final(o, t) = Cleaned(o, TRUE, t.flags)
  <2>1. "passthrough" # "compress"
    OBVIOUS
  <2> QED BY <1>1, <2>1 DEF Final
<1>3. CASE "l1" \in t.flags
  <2>1. Final(o, t) = CleanMessages(o, TRUE, t.flags)
    BY <1>2, <1>3 DEF Cleaned
  <2> DEFINE c == CleanMessages(o, TRUE, t.flags)
  <2>2. /\ Sequence(c) /\ Len(c) = Len(o)
        /\ \A i \in 1 .. Len(o) : c[i] = CleanPlain(o[i], t.flags)
    BY CleanCalling
  <2> HIDE DEF c
  <2>3. Final(o, t) = c
    BY <2>1 DEF c
  <2> QED BY <1>3, <2>2, <2>3
<1>4. CASE "l1" \notin t.flags
  <2>1. Final(o, t) = o
    BY <1>2, <1>4 DEF Cleaned
  <2> QED BY <1>4, <2>1
<1> QED BY <1>3, <1>4

LEMMA FinalKeepsPlain ==
  ASSUME NEW o, Plain(o), NEW t
  PROVE  Plain(Final(o, t))
<1> DEFINE a == OptimizeCodebase(o, t.calling)
           clean == Cleaned(a, t.calling, t.flags)
<1>1. Plain(a)
  BY CodebaseKeepsPlain
<1> HIDE DEF a
<1>2. Plain(clean)
  BY <1>1, CleanKeepsPlain DEF Cleaned
<1>3. Final(o, t) = IF t.route = "compress" THEN Injected(Compressed(clean, t.working), t.tier)
                    ELSE clean
  BY DEF Final, a
<1> HIDE DEF clean
<1>4. Plain(Injected(Compressed(clean, t.working), t.tier))
  BY <1>2, CompressedKeepsPlain, InjectedKeepsPlain
<1> QED BY <1>2, <1>3, <1>4

LEMMA CleanPlainIs ==
  ASSUME NEW m, IsMessage(m), NEW on
  PROVE  LET n == CleanPlain(m, on) IN
         /\ n.role = m.role
         /\ n = m \/ /\ m.content.form = <<>>
                     /\ n.content = Did(m.content, "compact", m.content.tokens - 1)
<1>1. CleanPlain(m, on) \in {m, Compacted(m)}
  BY DEF CleanPlain
<1> QED BY <1>1, CompactedIs

\* What cleaning does to a tool result that fits or is a preview.
LEMMA CleanWithin ==
  ASSUME NEW c, Within(c), c.form = <<>>
  PROVE  LET d == Did(c, "compact", c.tokens - 1) IN
         d.tokens <= MaxTokens /\ ~Contains(d.form, "continued")
<1>1. /\ IsContent(c) /\ c.tokens \in Int /\ c.tokens <= MaxTokens
      /\ Sequence(c.form) /\ ~Contains(c.form, "continued")
  BY DEF Within
<1>2. c.tokens - 1 <= MaxTokens
  BY <1>1, LimitsArePositive
<1>3. ~Contains(Append(c.form, "compact"), "continued")
  <2>1. "compact" # "continued"
    OBVIOUS
  <2> QED BY ONLY <1>1, <2>1, NotPreview
<1> QED BY <1>1, <1>2, <1>3, DidContent

-----------------------------------------------------------------------------
\* Tool results as they are forwarded.

StageInv == CacheInv /\ SavedSound(saved)

LEMMA EmptySaved == SavedSound({})
BY FS_EmptySet DEF SavedSound

LEMMA StageInvInit == Init => StageInv
<1> SUFFICES ASSUME Init PROVE StageInv
  OBVIOUS
<1>1. CacheInv
  BY CacheInvInit
<1>2. saved = {}
  BY DEF Init
<1> QED BY <1>1, <1>2, EmptySaved DEF StageInv

LEMMA StageInvStep == StageInv /\ [Next]_vars => StageInv'
<1> SUFFICES ASSUME StageInv, [Next]_vars PROVE StageInv'
  OBVIOUS
<1>1. CacheInv'
  BY CacheInvStep DEF StageInv
<1>2. SavedSound(saved')
  <2>0. SavedSound(saved)
    BY DEF StageInv
  <2>1. ASSUME NEW request \in Requests, Sends(request) PROVE SavedSound(saved')
    <3> DEFINE r == OptimizeWith(chat, request.full, results)
               stage == Optimized(chat, request.full, results)
    <3>1. chat \in Seq(Messages) /\ Sound(results)
      BY DEF StageInv, CacheInv
    <3>2. SavedSound(r.saved)
      BY <2>0, <3>1, StageOut
    <3>3. stage.saved = r.saved \/ stage.saved = saved
      BY DEF Optimized
    <3>4. saved' = stage.saved
      BY <2>1 DEF Sends
    <3> HIDE DEF r, stage
    <3> QED BY <2>0, <3>2, <3>3, <3>4
  <2>2. CASE saved' = {}
    BY <2>2, EmptySaved
  <2>3. CASE saved' = saved
    BY <2>0, <2>3
  <2> QED BY <2>1, <2>2, <2>3 DEF Next, vars, Says, Starts, Flips, Restarts, Expires
<1> QED BY <1>1, <1>2 DEF StageInv, SavedSound

\* A tool result in the list of messages that is forwarded.
BoundedOrSaved(m, said, store) ==
  \/ m.content.tokens <= MaxTokens /\ ~Contains(m.content.form, "continued")
  \/ \E c \in store :
       /\ {d \in store : d.id = m.content.id} = {c}
       /\ said.role = "tool" /\ said.content = c.content
  \/ /\ said.role = "tool" /\ said.content.kind \in ListKinds
     /\ m.content.tokens <= said.content.tokens
     /\ ~Contains(m.content.form, "continued")

LEMMA ResultForwarded ==
  ASSUME NEW said \in Messages, NEW o, NEW store, SavedSound(store), Becomes(said, o, store),
         NEW m, NEW on, m = o \/ m = CleanPlain(o, on), m.role = "tool"
  PROVE  BoundedOrSaved(m, said, store)
<1>1. IsMessage(o) /\ o.role = said.role
  BY BecomesIs
<1>2. /\ m.role = o.role
      /\ \/ m = o
         \/ /\ o.content.form = <<>>
            /\ m.content = Did(o.content, "compact", o.content.tokens - 1)
  BY <1>1, CleanPlainIs
<1>3. CASE o = Treat(said) /\ StringResult(said)
  <2>1. Within(o.content)
    BY <1>3, TreatIs
  <2>2. CASE m = o
    BY <2>1, <2>2 DEF Within, BoundedOrSaved
  <2>3. CASE o.content.form = <<>> /\ m.content = Did(o.content, "compact", o.content.tokens - 1)
    BY <2>1, <2>3, CleanWithin DEF BoundedOrSaved
  <2> QED BY <1>2, <2>2, <2>3
<1>4. CASE \E id \in Nat : o = Continued(said, id) /\ [id |-> id, content |-> said.content] \in store
  <2>1. PICK id \in Nat : o = Continued(said, id) /\ [id |-> id, content |-> said.content] \in store
    BY <1>4
  <2> DEFINE c == [id |-> id, content |-> said.content]
  <2>2. o.content.id = id /\ o.content.form = Append(<<>>, "continued")
    BY <2>1, ContinuedIs
  <2>3. m = o
    <3>1. Append(<<>>, "continued") # <<>>
      BY AppendIs, EmptyIs
    <3> QED BY <1>2, <2>2, <3>1
  <2>4. c \in store /\ c.id = id /\ c.content = said.content
    BY <2>1
  <2> HIDE DEF c
  <2>5. {d \in store : d.id = m.content.id} = {c}
    BY <2>2, <2>3, <2>4 DEF SavedSound
  <2>6. said.role = "tool"
    BY <1>1, <1>2
  <2> QED BY <2>4, <2>5, <2>6 DEF BoundedOrSaved
<1>5. CASE o = Treat(said) /\ ~StringResult(said)
  <2>1. o = said /\ said.role = "tool" /\ said.content.kind \in ListKinds
    BY <1>1, <1>2, <1>5, TreatIs DEF StringResult
  <2>2. IsContent(o.content) /\ o.content.form = <<>> /\ o.content.tokens \in Nat
    BY <2>1, SaidIs, MessagesAreSaid DEF IsMessage, Message, Text
  <2>3. ~Contains(<<>>, "continued") /\ ~Contains(Append(<<>>, "compact"), "continued")
    <3>1. ~Contains(<<>>, "continued")
      BY EmptyIs DEF Contains
    <3>2. "compact" # "continued"
      OBVIOUS
    <3> QED BY ONLY <3>1, <3>2, EmptyIs, NotPreview
  <2>4. CASE m = o
    BY <2>1, <2>2, <2>3, <2>4 DEF BoundedOrSaved
  <2>5. CASE m.content = Did(o.content, "compact", o.content.tokens - 1)
    <3>1. m.content.tokens = o.content.tokens - 1 /\ m.content.form = Append(<<>>, "compact")
      BY <2>2, <2>5, DidContent
    <3> QED BY <2>1, <2>2, <2>3, <3>1 DEF BoundedOrSaved
  <2> QED BY <1>2, <2>4, <2>5
<1> QED BY <1>3, <1>4, <1>5 DEF Becomes

LEMMA BoundedStep ==
  ASSUME StageInv, [Next]_vars, sent' \notin {sent, NotSent},
         NEW i \in DOMAIN sent'.messages, "tool_results" \in flags,
         sent'.messages[i].role = "tool"
  PROVE  BoundedOrSaved(sent'.messages[i], chat[i], saved')
<1>1. PICK request \in Requests : Sends(request)
  BY DEF Next, vars, Says, Starts, Flips, Restarts, Expires
<1> DEFINE r == OptimizeWith(chat, request.full, results)
           o == r.out
           body == Body(o, schemas, request)
           t == body.treated
           f == Final(o, t)
<1>2. chat \in Seq(Messages) /\ Sound(results) /\ SavedSound(saved)
  BY DEF StageInv, CacheInv
<1>3. /\ o \in Seq(OutMessage) /\ Len(o) = Len(chat) /\ SavedSound(r.saved)
      /\ \A j \in 1 .. Len(chat) : Becomes(chat[j], o[j], r.saved)
  BY <1>2, StageOut
<1>4. saved' = r.saved /\ sent' = body
  BY <1>1 DEF Sends, Optimized
<1>5. /\ body.messages = f
      /\ t.calling = Calling(o, request)
      /\ t.route = RouteOf(o, t.calling)
  BY BodyIs
<1> HIDE DEF r, body, t, f
<1>6. i \in DOMAIN f /\ f[i].role = "tool"
  BY <1>4, <1>5
<1> DEFINE n == Len(chat)
<1>7. Sequence(o) /\ n \in Nat /\ \A j \in 1 .. n : chat[j] \in Messages
  BY <1>2, <1>3, LenProperties DEF Sequence
<1> HIDE DEF o, n
<1>8. \A j \in 1 .. n : IsMessage(o[j])
  BY <1>3, <1>7, BecomesIs DEF n
<1>9. CASE \E j \in 1 .. n : o[j].role = "tool"
  <2>1. t.calling = TRUE
    <3>1. Len(o) = n
      BY <1>3 DEF n, o
    <3>2. Calling(o, request) = TRUE
      BY <1>7, <1>9, <3>1, CallingIs
    <3> QED BY <1>5, <3>2
  <2>2. t.route = "passthrough"
    BY <1>5, <2>1 DEF RouteOf
  <2>3. /\ Sequence(f) /\ Len(f) = Len(o)
        /\ \A j \in 1 .. Len(o) :
             f[j] = IF "l1" \in t.flags THEN CleanPlain(o[j], t.flags) ELSE o[j]
    <3> USE DEF f
    <3> QED BY <1>7, <2>1, <2>2, FinalCalling
  <2>4. Len(o) = n /\ i \in 1 .. n
    <3>1. DOMAIN f = 1 .. Len(f)
      BY <2>3, SequenceIs
    <3>2. Len(o) = n
      BY <1>3 DEF n, o
    <3> QED BY <1>6, <2>3, <3>1, <3>2
  <2>5. chat[i] \in Messages /\ Becomes(chat[i], o[i], r.saved)
    BY <1>3, <1>7, <2>4 DEF n, o
  <2>6. f[i] = o[i] \/ f[i] = CleanPlain(o[i], t.flags)
    BY <2>3, <2>4
  <2>7. BoundedOrSaved(f[i], chat[i], r.saved)
    BY <1>3, <1>6, <2>5, <2>6, ResultForwarded
  <2> QED BY <1>4, <1>5, <2>7
<1>10. CASE \A j \in 1 .. n : o[j].role # "tool"
  <2>1. Len(o) = n
    BY <1>3 DEF n, o
  <2>2. Plain(o)
    BY <1>7, <1>8, <1>10, <2>1 DEF Plain
  <2>3. Plain(f)
    BY <2>2, FinalKeepsPlain DEF f
  <2>4. DOMAIN f = 1 .. Len(f)
    BY <2>3, SequenceIs DEF Plain
  <2> QED BY <1>6, <2>3, <2>4 DEF Plain
<1> QED BY <1>9, <1>10

\* With tool-result optimization on, every tool result that is a string is
\* forwarded within the token limit, or as a preview whose id leads to the whole content of
\* that very result and to nothing else: no notice, filter or cleaning adds to a
\* truncated result, and a fresh id is never one that is in the store.
THEOREM ForwardedResults == Spec => ResultsBoundedOrRetrievable
<1> DEFINE A == sent' \notin {sent, NotSent} => \A i \in DOMAIN sent'.messages :
                  LET m == sent'.messages[i] IN
                  "tool_results" \in flags /\ m.role = "tool" =>
                    \/ m.content.tokens <= MaxTokens /\ ~Contains(m.content.form, "continued")
                    \/ \E c \in saved' :
                         /\ {d \in saved' : d.id = m.content.id} = {c}
                         /\ chat[i].role = "tool" /\ chat[i].content = c.content
                    \/ /\ chat[i].role = "tool" /\ chat[i].content.kind \in ListKinds
                       /\ m.content.tokens <= chat[i].content.tokens
                       /\ ~Contains(m.content.form, "continued")
<1>1. Spec => []StageInv
  BY StageInvInit, StageInvStep, PTL DEF Spec
<1>2. StageInv /\ [Next]_vars => [A]_sent
  <2> SUFFICES ASSUME StageInv, [Next]_vars, sent' \notin {sent, NotSent},
                      NEW i \in DOMAIN sent'.messages, "tool_results" \in flags,
                      sent'.messages[i].role = "tool"
               PROVE  BoundedOrSaved(sent'.messages[i], chat[i], saved')
    BY DEF BoundedOrSaved
  <2> QED BY BoundedStep
<1>3. ResultsBoundedOrRetrievable <=> [][A]_sent
  BY DEF ResultsBoundedOrRetrievable
<1> HIDE DEF A
<1> QED BY <1>1, <1>2, <1>3, PTL DEF Spec

-----------------------------------------------------------------------------
\* Prefixes through the stages.

LEMMA EmptyIffLen ==
  ASSUME NEW s, Sequence(s)
  PROVE  s = <<>> <=> Len(s) = 0
<1> PICK S : s \in Seq(S)
  BY DEF Sequence
<1>1. <<>> \in Seq(S) /\ Len(<<>>) = 0
  BY EmptySeq
<1>2. Len(s) = 0 => s = <<>>
  <2> SUFFICES ASSUME Len(s) = 0 PROVE s = <<>>
    OBVIOUS
  <2>1. Len(s) = Len(<<>>) /\ \A i \in 1 .. Len(s) : s[i] = <<>>[i]
    BY <1>1
  <2> QED BY ONLY <1>1, <2>1, s \in Seq(S), SeqEqual
<1> QED BY <1>1, <1>2

\* Which text holds an import line first is the same in the longer conversation,
\* and so is what becomes of every text, given that the same lines are repeated.
LEMMA DeduplicatedPre ==
  ASSUME NEW o, NEW p, Pre(o, p), Repeated(o) = Repeated(p), NEW i \in 1 .. Len(o)
  PROVE  Deduplicated(o, i) = Deduplicated(p, i)
<1> DEFINE kind == o[i].content.kind
           A == Importing(o, kind)
           B == Importing(p, kind)
<1>1. /\ Len(o) \in Nat /\ Len(p) \in Nat /\ Len(o) <= Len(p)
      /\ DOMAIN o = 1 .. Len(o) /\ DOMAIN p = 1 .. Len(p)
      /\ \A j \in 1 .. Len(o) : o[j] = p[j]
  BY SequenceIs DEF Pre
<1>2. A = {j \in 1 .. Len(o) : o[j].content.kind = kind}
  BY <1>1 DEF Importing
<1>3. B = {j \in 1 .. Len(p) : p[j].content.kind = kind}
  BY <1>1 DEF Importing
<1>4. o[i] = p[i] /\ o[i].content.kind = kind /\ p[i].content.kind = kind
  BY <1>1
<1>5. Deduplicated(o, i) = IF kind \in Repeated(o)
        THEN Did(o[i].content, IF i = Min(A) THEN "first" ELSE "dup", o[i].content.tokens - 1)
        ELSE o[i].content
  BY DEF Deduplicated
<1>6. Deduplicated(p, i) = IF kind \in Repeated(p)
        THEN Did(p[i].content, IF i = Min(B) THEN "first" ELSE "dup", p[i].content.tokens - 1)
        ELSE p[i].content
  BY <1>4 DEF Deduplicated
<1> HIDE DEF kind, A, B
<1>7. \A j \in 1 .. Len(o) : j \in 1 .. Len(p) /\ (j \in A <=> j \in B)
  BY <1>1, <1>2, <1>3
<1>8. A \in SUBSET Nat /\ B \in SUBSET Nat /\ A \subseteq 1 .. Len(o) /\ B \subseteq 1 .. Len(p)
  BY <1>2, <1>3
<1>9. i \in A /\ i \in B
  BY <1>2, <1>4, <1>7
<1> DEFINE a == Min(A)
           b == Min(B)
<1>10. a \in A /\ \A n \in A : a <= n
  BY <1>8, <1>9, MinIsMember
<1>11. b \in B /\ \A n \in B : b <= n
  BY <1>8, <1>9, MinIsMember
<1> HIDE DEF a, b
<1>12. a \in 1 .. Len(o) /\ a \in B /\ b <= a /\ b \in Nat /\ a \in Nat
  BY <1>7, <1>8, <1>10, <1>11
<1>13. b \in 1 .. Len(o)
  <2>1. b \in 1 .. Len(p)
    BY <1>8, <1>11
  <2> QED BY <1>1, <1>12, <2>1
<1>14. b \in A
  BY <1>7, <1>11, <1>13
<1>15. a = b
  BY <1>10, <1>12, <1>14
<1> QED BY <1>4, <1>5, <1>6, <1>15 DEF a, b

LEMMA CodebasePre ==
  ASSUME NEW o, NEW p, Pre(o, p), NEW calling, ~calling => Repeated(o) = Repeated(p)
  PROVE  Pre(OptimizeCodebase(o, calling), OptimizeCodebase(p, calling))
<1> DEFINE a == OptimizeCodebase(o, calling)
           b == OptimizeCodebase(p, calling)
<1>0. Sequence(o) /\ Sequence(p) /\ Len(o) \in Nat /\ Len(p) \in Nat /\ Len(o) <= Len(p)
  BY SequenceIs DEF Pre
<1>1. /\ Sequence(a) /\ Len(a) = Len(o)
      /\ calling => a = o
      /\ ~calling => \A i \in 1 .. Len(o) :
           a[i] = [o[i] EXCEPT !.content = Trimmed(Deduplicated(o, i))]
  BY <1>0, CodebaseIs
<1>2. /\ Sequence(b) /\ Len(b) = Len(p)
      /\ calling => b = p
      /\ ~calling => \A i \in 1 .. Len(p) :
           b[i] = [p[i] EXCEPT !.content = Trimmed(Deduplicated(p, i))]
  BY <1>0, CodebaseIs
<1> HIDE DEF a, b
<1>3. CASE calling
  <2>1. Pre(a, b)
    BY <1>1, <1>2, <1>3
  <2> QED BY <2>1 DEF a, b
<1>4. CASE ~calling
  <2>1. ASSUME NEW i \in 1 .. Len(o) PROVE a[i] = b[i]
    <3>1. i \in 1 .. Len(p) /\ o[i] = p[i]
      BY <1>0 DEF Pre
    <3>2. Deduplicated(o, i) = Deduplicated(p, i)
      BY <1>4, DeduplicatedPre
    <3> QED BY <1>1, <1>2, <1>4, <3>1, <3>2
  <2>2. Pre(a, b)
    BY <1>0, <1>1, <1>2, <2>1 DEF Pre
  <2> QED BY <2>2 DEF a, b
<1> QED BY <1>3, <1>4

LEMMA CompressedPre ==
  ASSUME NEW o, NEW p, Pre(o, p), NEW working
  PROVE  Pre(Compressed(o, working), Compressed(p, working))
<1> DEFINE a == Compressed(o, working)
           b == Compressed(p, working)
           e(m) == IF m.role # "system" /\ m.content.kind \in ProseKinds /\ working
                   THEN [m EXCEPT !.content = Did(@, "lossy", @.tokens - 1)] ELSE m
<1>0. /\ Sequence(o) /\ Sequence(p) /\ Len(o) \in Nat /\ Len(p) \in Nat /\ Len(o) <= Len(p)
      /\ \A i \in 1 .. Len(o) : o[i] = p[i]
  BY SequenceIs DEF Pre
<1>1. Sequence(a) /\ Len(a) = Len(o) /\ \A i \in 1 .. Len(o) : a[i] = e(o[i])
  BY <1>0, CompressedIs
<1>2. Sequence(b) /\ Len(b) = Len(p) /\ \A i \in 1 .. Len(p) : b[i] = e(p[i])
  BY <1>0, CompressedIs
<1> HIDE DEF a, b, e
<1>3. \A i \in 1 .. Len(o) : i \in 1 .. Len(p)
  BY <1>0
<1>4. Pre(a, b)
  BY <1>0, <1>1, <1>2, <1>3 DEF Pre
<1> QED BY <1>4 DEF a, b

LEMMA InjectedPre ==
  ASSUME NEW o, NEW p, Pre(o, p), NEW tier, tier # "none" => o # <<>>
  PROVE  Pre(Injected(o, tier), Injected(p, tier))
<1> DEFINE a == Injected(o, tier)
           b == Injected(p, tier)
           n == Len(o)
           k == Len(p)
<1>0. /\ Sequence(o) /\ Sequence(p) /\ n \in Nat /\ k \in Nat /\ n <= k
      /\ \A i \in 1 .. n : o[i] = p[i] /\ i \in 1 .. k
  BY SequenceIs DEF Pre
<1>1. /\ Sequence(a)
      /\ tier = "none" => a = o
      /\ tier # "none" /\ o # <<>> /\ o[1].role = "system" =>
           /\ Len(a) = n
           /\ \A i \in 1 .. n : a[i] = IF i = 1 THEN InjectedInto(o[1], tier) ELSE o[i]
      /\ tier # "none" /\ ~(o # <<>> /\ o[1].role = "system") =>
           /\ Len(a) = n + 1
           /\ a[1] = InstructionOf(tier)
           /\ \A i \in 1 .. n : a[i + 1] = o[i]
  BY <1>0, InjectedIs
<1>2. /\ Sequence(b)
      /\ tier = "none" => b = p
      /\ tier # "none" /\ p # <<>> /\ p[1].role = "system" =>
           /\ Len(b) = k
           /\ \A i \in 1 .. k : b[i] = IF i = 1 THEN InjectedInto(p[1], tier) ELSE p[i]
      /\ tier # "none" /\ ~(p # <<>> /\ p[1].role = "system") =>
           /\ Len(b) = k + 1
           /\ b[1] = InstructionOf(tier)
           /\ \A i \in 1 .. k : b[i + 1] = p[i]
  BY <1>0, InjectedIs
<1>3. tier # "none" => /\ p # <<>> /\ 1 \in 1 .. n
                       /\ o[1].role = "system" <=> p[1].role = "system"
  <2> SUFFICES ASSUME tier # "none"
               PROVE  p # <<>> /\ 1 \in 1 .. n /\ (o[1].role = "system" <=> p[1].role = "system")
    OBVIOUS
  <2>1. n # 0
    BY <1>0, EmptyIffLen
  <2>2. 1 \in 1 .. n /\ k # 0
    BY <1>0, <2>1
  <2>3. p # <<>>
    BY <1>0, <2>2, EmptyIffLen
  <2> QED BY <1>0, <2>2, <2>3
<1>p. Pre(o, p) /\ (tier # "none" => o # <<>>)
  OBVIOUS
<1>t. a = Injected(o, tier) /\ b = Injected(p, tier)
  OBVIOUS
<1> HIDE DEF a, b, n, k
<1>4. CASE tier = "none"
  BY <1>1, <1>2, <1>4, <1>p, <1>t
<1>5. CASE tier # "none" /\ o[1].role = "system"
  <2>1. Len(a) = n /\ \A i \in 1 .. n : a[i] = IF i = 1 THEN InjectedInto(o[1], tier) ELSE o[i]
    BY <1>1, <1>5, <1>p
  <2>2. Len(b) = k /\ \A i \in 1 .. k : b[i] = IF i = 1 THEN InjectedInto(p[1], tier) ELSE p[i]
    BY <1>2, <1>3, <1>5
  <2>3. o[1] = p[1]
    BY <1>0, <1>3, <1>5
  <2>4. \A i \in 1 .. n : a[i] = b[i]
    BY <1>0, <2>1, <2>2, <2>3
  <2>5. Pre(a, b)
    BY <1>0, <1>1, <1>2, <2>1, <2>2, <2>4 DEF Pre
  <2> QED BY <1>t, <2>5
<1>6. CASE tier # "none" /\ o[1].role # "system"
  <2>1. Len(a) = n + 1 /\ a[1] = InstructionOf(tier) /\ \A i \in 1 .. n : a[i + 1] = o[i]
    BY <1>1, <1>6
  <2>2. Len(b) = k + 1 /\ b[1] = InstructionOf(tier) /\ \A i \in 1 .. k : b[i + 1] = p[i]
    BY <1>2, <1>3, <1>6
  <2>3. ASSUME NEW i \in 1 .. n + 1 PROVE a[i] = b[i]
    <3>1. CASE i = 1
      BY <2>1, <2>2, <3>1
    <3>2. CASE i # 1
      <4>1. i - 1 \in 1 .. n /\ i - 1 \in 1 .. k /\ (i - 1) + 1 = i
        BY <1>0, <3>2
      <4>2. a[i] = o[i - 1] /\ b[i] = p[i - 1]
        BY <2>1, <2>2, <4>1
      <4> QED BY <1>0, <4>1, <4>2
    <3> QED BY <3>1, <3>2
  <2>4. n + 1 <= k + 1
    BY <1>0
  <2>5. Pre(a, b)
    BY <1>1, <1>2, <2>1, <2>2, <2>3, <2>4 DEF Pre
  <2> QED BY <1>t, <2>5
<1> QED BY <1>4, <1>5, <1>6

-----------------------------------------------------------------------------
\* How a request was treated, and what that says of its messages.

Treatment(o, t) ==
  /\ t.calling \in BOOLEAN
  /\ t.calling => t.route = "passthrough"
  /\ ~t.calling => \A i \in 1 .. Len(o) : o[i].role # "tool"
  /\ t.repeated = IF t.calling THEN {} ELSE Repeated(o)
  /\ t.tier # "none" =>
       Cleaned(OptimizeCodebase(o, t.calling), t.calling, t.flags) # <<>>

LEMMA BodyTreatment ==
  ASSUME NEW o, Sequence(o), NEW cached, NEW request
  PROVE  Treatment(o, Body(o, cached, request).treated)
<1> DEFINE t == Body(o, cached, request).treated
           clean == Cleaned(OptimizeCodebase(o, t.calling), t.calling, t.flags)
<1>1. /\ t.calling = Calling(o, request)
      /\ t.route = RouteOf(o, t.calling)
      /\ t.tier = Instruction(clean, t.route, request.header)
      /\ t.repeated = IF t.calling THEN {} ELSE Repeated(o)
  BY BodyIs
<1> HIDE DEF t
<1>2. t.calling \in BOOLEAN
  <2>1. Calling(o, request) \in BOOLEAN
    BY DEF Calling
  <2> QED BY <1>1, <2>1
<1>3. t.calling => t.route = "passthrough"
  BY <1>1 DEF RouteOf
<1>4. ASSUME ~t.calling, NEW i \in 1 .. Len(o) PROVE o[i].role # "tool"
  <2>1. o[i].role = "tool" => Calling(o, request) = TRUE
    BY CallingIs
  <2> QED BY <1>1, <1>4, <2>1
<1>5. ASSUME t.tier # "none" PROVE clean # <<>>
  <2> SUFFICES ASSUME clean = <<>> PROVE FALSE
    OBVIOUS
  <2>1. LastUser(clean) # 0
    BY <1>1, <1>5 DEF Instruction, ShouldInject
  <2>2. 1 .. Len(clean) = {}
    BY EmptyIs
  <2>3. LastUser(clean) = 0
    BY <2>2 DEF LastUser, SelectLastInSeq
  <2> QED BY <2>1, <2>3
<1>6. Treatment(o, t)
  BY <1>1, <1>2, <1>3, <1>4, <1>5 DEF Treatment
<1> QED BY <1>6 DEF t

\* The same treatment forwards the beginning of a conversation as the beginning
\* of what it forwards for the conversation.
LEMMA FinalPre ==
  ASSUME NEW o, NEW p, Pre(o, p), NEW t, Treatment(o, t), Treatment(p, t)
  PROVE  Pre(Final(o, t), Final(p, t))
<1> DEFINE a == OptimizeCodebase(o, t.calling)
           b == OptimizeCodebase(p, t.calling)
           c == Cleaned(a, t.calling, t.flags)
           d == Cleaned(b, t.calling, t.flags)
<1>1. ~t.calling => Repeated(o) = Repeated(p)
  BY DEF Treatment
<1>2. Pre(a, b)
  BY <1>1, CodebasePre
<1>3. t.tier # "none" => c # <<>>
  BY DEF Treatment
<1>4. Final(o, t) = IF t.route = "compress" THEN Injected(Compressed(c, t.working), t.tier) ELSE c
  BY DEF Final
<1>5. Final(p, t) = IF t.route = "compress" THEN Injected(Compressed(d, t.working), t.tier) ELSE d
  BY DEF Final
<1> HIDE DEF a, b
<1>6. Pre(c, d)
  BY <1>2, CleanPre DEF Cleaned
<1> HIDE DEF c, d
<1> DEFINE x == Compressed(c, t.working)
           y == Compressed(d, t.working)
<1>7. Pre(x, y)
  BY <1>6, CompressedPre
<1>8. t.tier # "none" => x # <<>>
  <2>1. Sequence(c) /\ Sequence(x) /\ Len(x) = Len(c)
    BY <1>6, CompressedIs DEF Pre
  <2> HIDE DEF x
  <2> QED BY <1>3, <2>1, EmptyIffLen
<1> HIDE DEF x, y
<1>9. Pre(Injected(x, t.tier), Injected(y, t.tier))
  BY <1>7, <1>8, InjectedPre
<1>10. CASE t.route = "compress"
  BY <1>4, <1>5, <1>9, <1>10 DEF x, y
<1>11. CASE t.route # "compress"
  BY <1>4, <1>5, <1>6, <1>11
<1> QED BY <1>10, <1>11

\* The message as the tool-result stage leaves it without the store.
Stated(m, on) == IF "tool_results" \in on THEN Treat(m) ELSE m

\* What was forwarded is made of the first messages of the conversation.
Remains(o, n) ==
  /\ n \in 0 .. Len(chat)
  /\ Sequence(o) /\ Len(o) = n
  /\ \A i \in 1 .. n : \/ o[i] = Stated(chat[i], sent.treated.flags)
                       \/ chat[i].role = "tool" /\ \E id \in Nat : o[i] = Continued(chat[i], id)
  /\ Treatment(o, sent.treated)
  /\ sent.messages = Final(o, sent.treated)

SentInv == sent # NotSent => \E o, n : Remains(o, n)

\* A preview in the result of the stage is a preview in what is forwarded.
LEMMA PreviewShows ==
  ASSUME NEW o, Sequence(o), NEW t, Treatment(o, t), NEW i \in 1 .. Len(o),
         NEW m \in Messages, m.role = "tool", NEW id, o[i] = Continued(m, id)
  PROVE  i \in DOMAIN Final(o, t) /\ Contains(Final(o, t)[i].content.form, "continued")
<1> DEFINE f == Final(o, t)
           form == Append(<<>>, "continued")
<1>1. IsMessage(o[i]) /\ o[i].role = "tool" /\ o[i].content.form = form
  BY ContinuedIs
<1>2. /\ Len(form) = 1 /\ form[1] = "continued" /\ form # <<>>
  <2>1. Len(form) = Len(<<>>) + 1 /\ form[Len(<<>>) + 1] = "continued" /\ Len(<<>>) = 0
    BY EmptyIs, AppendIs
  <2> HIDE DEF form
  <2>2. Len(form) = 1 /\ form[1] = "continued"
    BY <2>1
  <2>3. ASSUME form = <<>> PROVE FALSE
    <3>1. Len(form) = 0
      BY <2>3, EmptyIs
    <3> QED BY <2>2, <3>1
  <2> QED BY <2>2, <2>3
<1> HIDE DEF form
<1>3. t.calling = TRUE /\ t.route = "passthrough"
  BY <1>1 DEF Treatment
<1>4. /\ Sequence(f) /\ Len(f) = Len(o)
      /\ \A j \in 1 .. Len(o) :
           f[j] = IF "l1" \in t.flags THEN CleanPlain(o[j], t.flags) ELSE o[j]
  BY <1>3, FinalCalling
<1> HIDE DEF f
<1>5. f[i] = o[i]
  <2>1. CleanPlain(o[i], t.flags) = o[i]
    BY <1>1, <1>2 DEF CleanPlain, Compacted
  <2> QED BY <1>4, <2>1
<1>6. i \in DOMAIN f
  BY <1>4, SequenceIs
<1>7. Contains(form, "continued")
  BY <1>2 DEF Contains
<1>8. i \in DOMAIN f /\ Contains(f[i].content.form, "continued")
  BY <1>1, <1>5, <1>6, <1>7
<1> QED BY <1>8 DEF f

\* A request forwards what remains of the whole conversation.
LEMMA SendRemains ==
  ASSUME CacheInv, SavedSound(saved), NEW request \in Requests, Sends(request)
  PROVE  \E o :
           /\ Sequence(o) /\ Len(o) = Len(chat)
           /\ \A i \in 1 .. Len(chat) :
                \/ o[i] = Stated(chat[i], sent'.treated.flags)
                \/ chat[i].role = "tool" /\ \E id \in Nat : o[i] = Continued(chat[i], id)
           /\ Treatment(o, sent'.treated)
           /\ sent'.messages = Final(o, sent'.treated)
<1> DEFINE r == OptimizeWith(chat, request.full, results)
           o == Optimized(chat, request.full, results).out
           body == Body(o, schemas, request)
           n == Len(chat)
<1>1. chat \in Seq(Messages) /\ Sound(results) /\ n \in Nat
  BY LenProperties DEF CacheInv
<1>2. sent' = body
  BY DEF Sends
<1>3. /\ r.out \in Seq(OutMessage) /\ Len(r.out) = n
      /\ \A j \in 1 .. n : Becomes(chat[j], r.out[j], r.saved)
  BY <1>1, StageOut
<1>4. body.messages = Final(o, body.treated) /\ body.treated.flags = flags
  BY BodyIs
<1>5. /\ Sequence(o) /\ Len(o) = n
      /\ \A i \in 1 .. n :
           \/ o[i] = Stated(chat[i], flags)
           \/ chat[i].role = "tool" /\ \E id \in Nat : o[i] = Continued(chat[i], id)
  <2>1. CASE "tool_results" \in flags
    <3>1. o = r.out
      BY <2>1 DEF Optimized
    <3> HIDE DEF r, o
    <3>2. Sequence(o) /\ Len(o) = n
      BY <1>3, <3>1 DEF Sequence
    <3> QED BY <1>3, <2>1, <3>1, <3>2 DEF Becomes, Stated
  <2>2. CASE "tool_results" \notin flags
    <3>1. o = chat
      BY <2>2 DEF Optimized
    <3> HIDE DEF r, o
    <3>2. Sequence(o) /\ Len(o) = n
      BY <1>1, <3>1 DEF Sequence
    <3> QED BY <2>2, <3>1, <3>2 DEF Stated
  <2> QED BY <2>1, <2>2
<1>6. Treatment(o, body.treated)
  BY <1>5, BodyTreatment
<1> HIDE DEF o, body
<1> QED BY <1>2, <1>4, <1>5, <1>6

LEMMA SentInvStep == StageInv /\ SentInv /\ [Next]_vars => SentInv'
<1> SUFFICES ASSUME StageInv, SentInv, [Next]_vars, sent' # NotSent
             PROVE  (\E o, n : Remains(o, n))'
  BY DEF SentInv
<1>0. chat \in Seq(Messages) /\ Len(chat) \in Nat
  BY LenProperties DEF StageInv, CacheInv
<1>1. ASSUME NEW m \in Messages, Says(m) PROVE (\E o, n : Remains(o, n))'
  <2>1. sent' = sent /\ chat' = Append(chat, m)
    BY <1>1 DEF Says
  <2>2. PICK o, n : Remains(o, n)
    BY <2>1 DEF SentInv
  <2>3. Len(chat') = Len(chat) + 1 /\ \A i \in 1 .. Len(chat) : chat'[i] = chat[i]
    BY <1>0, <1>1, <2>1, AppendProperties
  <2>4. n \in 0 .. Len(chat) /\ n \in 0 .. Len(chat') /\ \A i \in 1 .. n : chat'[i] = chat[i]
    BY <1>0, <2>2, <2>3 DEF Remains
  <2>5. Remains(o, n)'
    BY <2>1, <2>2, <2>4 DEF Remains
  <2> QED BY <2>5
<1>2. ASSUME NEW request \in Requests, Sends(request) PROVE (\E o, n : Remains(o, n))'
  <2>1. PICK o :
          /\ Sequence(o) /\ Len(o) = Len(chat)
          /\ \A i \in 1 .. Len(chat) :
               \/ o[i] = Stated(chat[i], sent'.treated.flags)
               \/ chat[i].role = "tool" /\ \E id \in Nat : o[i] = Continued(chat[i], id)
          /\ Treatment(o, sent'.treated)
          /\ sent'.messages = Final(o, sent'.treated)
    BY <1>2, SendRemains DEF StageInv
  <2>2. chat' = chat /\ Len(chat) \in 0 .. Len(chat)
    BY <1>0, <1>2 DEF Sends
  <2>3. Remains(o, Len(chat))'
    BY <2>1, <2>2 DEF Remains
  <2> QED BY <2>3
<1>3. CASE Starts
  BY <1>3 DEF Starts
<1>4. CASE UNCHANGED <<chat, sent>>
  <2>1. PICK o, n : Remains(o, n)
    BY <1>4 DEF SentInv
  <2>2. Remains(o, n)'
    BY <1>4, <2>1 DEF Remains
  <2> QED BY <2>2
<1>5. Flips \/ Restarts \/ Expires \/ UNCHANGED vars => UNCHANGED <<chat, sent>>
  BY DEF Flips, Restarts, Expires, vars
<1> QED BY <1>1, <1>2, <1>3, <1>4, <1>5 DEF Next

\* A message of the stage's result that is no preview is the message as stated.
LEMMA NoPreview ==
  ASSUME NEW body, NEW o, Sequence(o), Treatment(o, body.treated),
         body.messages = Final(o, body.treated),
         \A j \in DOMAIN body.messages : ~Contains(body.messages[j].content.form, "continued"),
         NEW i \in 1 .. Len(o), NEW m \in Messages,
         o[i] = Stated(m, body.treated.flags) \/
           (m.role = "tool" /\ \E id \in Nat : o[i] = Continued(m, id))
  PROVE  o[i] = Stated(m, body.treated.flags)
<1> SUFFICES ASSUME NEW id \in Nat, m.role = "tool", o[i] = Continued(m, id) PROVE FALSE
  OBVIOUS
<1>1. i \in DOMAIN body.messages /\ Contains(body.messages[i].content.form, "continued")
  BY PreviewShows
<1> QED BY <1>1

LEMMA PrefixStep ==
  ASSUME StageInv, SentInv, [Next]_vars, sent' # sent,
         NotSent \notin {sent, sent'}, SameTreatment(sent, sent')
  PROVE  IsPrefix(sent.messages, sent'.messages)
<1>1. PICK request \in Requests : Sends(request)
  BY DEF Next, vars, Says, Starts, Flips, Restarts, Expires
<1> DEFINE t == sent.treated
<1>2. PICK o, n : Remains(o, n)
  BY DEF SentInv
<1>3. PICK p :
        /\ Sequence(p) /\ Len(p) = Len(chat)
        /\ \A i \in 1 .. Len(chat) :
             \/ p[i] = Stated(chat[i], sent'.treated.flags)
             \/ chat[i].role = "tool" /\ \E id \in Nat : p[i] = Continued(chat[i], id)
        /\ Treatment(p, sent'.treated)
        /\ sent'.messages = Final(p, sent'.treated)
  BY <1>1, SendRemains DEF StageInv
<1>4. /\ sent'.treated = t
      /\ \A i \in DOMAIN sent.messages : ~Contains(sent.messages[i].content.form, "continued")
      /\ \A i \in DOMAIN sent'.messages : ~Contains(sent'.messages[i].content.form, "continued")
  BY DEF SameTreatment
<1>5. Len(chat) \in Nat /\ \A i \in 1 .. Len(chat) : chat[i] \in Messages
  BY LenProperties DEF StageInv, CacheInv
<1>6. /\ n \in 0 .. Len(chat) /\ Sequence(o) /\ Len(o) = n
      /\ Treatment(o, t) /\ sent.messages = Final(o, t)
      /\ \A i \in 1 .. n : \/ o[i] = Stated(chat[i], t.flags)
                           \/ chat[i].role = "tool" /\ \E id \in Nat : o[i] = Continued(chat[i], id)
  BY <1>2 DEF Remains
<1>7. \A i \in 1 .. n : i \in 1 .. Len(chat)
  BY <1>5, <1>6
<1> HIDE DEF t
<1>8. ASSUME NEW i \in 1 .. n PROVE o[i] = p[i]
  <2>1. chat[i] \in Messages /\ i \in 1 .. Len(o) /\ i \in 1 .. Len(p)
    BY <1>3, <1>5, <1>6, <1>7
  <2>2. o[i] = Stated(chat[i], t.flags)
    <3>1. o[i] = Stated(chat[i], sent.treated.flags)
      BY <1>4, <1>6, <2>1, NoPreview DEF t
    <3> QED BY <3>1 DEF t
  <2>3. p[i] = Stated(chat[i], t.flags)
    <3>1. /\ Sequence(p) /\ Treatment(p, sent'.treated) /\ sent'.messages = Final(p, sent'.treated)
          /\ \/ p[i] = Stated(chat[i], sent'.treated.flags)
             \/ chat[i].role = "tool" /\ \E id \in Nat : p[i] = Continued(chat[i], id)
      BY <1>3, <1>7
    <3>2. p[i] = Stated(chat[i], sent'.treated.flags)
      BY ONLY <1>4, <2>1, <3>1, NoPreview
    <3> QED BY <1>4, <3>2
  <2> QED BY <2>2, <2>3
<1>9. Pre(o, p)
  BY <1>3, <1>5, <1>6, <1>8 DEF Pre
<1>10. Pre(Final(o, t), Final(p, t))
  BY <1>3, <1>4, <1>6, <1>9, FinalPre
<1>11. Pre(sent.messages, sent'.messages)
  BY <1>3, <1>4, <1>6, <1>10
<1> QED BY <1>11, PreIsPrefix

\* What was forwarded for a conversation is, to the last transform, the
\* beginning of what is forwarded when it has grown and gets the same treatment:
\* deduplication, cleaning, compression and the instruction rewrite no message
\* because of a later one.
THEOREM ForwardedPrefixes == Spec => PrefixSurvives
<1> DEFINE A == NotSent \notin {sent, sent'} /\ SameTreatment(sent, sent')
                  => IsPrefix(sent.messages, sent'.messages)
<1>1. Init => SentInv
  BY DEF Init, SentInv
<1>2. Spec => [](StageInv /\ SentInv)
  BY <1>1, StageInvInit, StageInvStep, SentInvStep, PTL DEF Spec
<1>3. StageInv /\ SentInv /\ [Next]_vars => [A]_sent
  BY PrefixStep
<1>4. PrefixSurvives <=> [][A]_sent
  BY DEF PrefixSurvives
<1> HIDE DEF A
<1> QED BY <1>2, <1>3, <1>4, PTL DEF Spec
=============================================================================
