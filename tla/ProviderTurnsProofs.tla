------------------------- MODULE ProviderTurnsProofs -------------------------
(***************************************************************************)
(* What holds of the turns with an Anthropic provider for any number of    *)
(* blocks, pieces and turns.                                               *)
(***************************************************************************)
EXTENDS ProviderTurns, FiniteSetTheorems, SequenceTheorems, WellFoundedInduction, TLAPS

-----------------------------------------------------------------------------
\* Induction over numbers and sequences, with a set for the predicate.

LEMMA NatSetInduction ==
  ASSUME NEW S \in SUBSET Nat, 0 \in S, \A n \in S : n + 1 \in S
  PROVE  S = Nat
<1> DEFINE Bad == Nat \ S
<1>1. Bad = {}
  <2> SUFFICES ASSUME Bad # {} PROVE FALSE
    OBVIOUS
  <2> HIDE DEF Bad
  <2>1. Bad \subseteq Nat
    BY DEF Bad
  <2>2. PICK m \in Bad : \A k \in Bad : ~(<<k, m>> \in OpToRel(<, Nat))
    BY <2>1, NatLessThanWellFounded, WFMin
  <2>3. m # 0
    BY DEF Bad
  <2>4. m - 1 \in Nat /\ m - 1 < m
    BY <2>1, <2>3
  <2>5. m - 1 \notin Bad
    BY <2>1, <2>2, <2>4 DEF OpToRel
  <2>6. (m - 1) + 1 \in S
    BY <2>4, <2>5 DEF Bad
  <2>7. (m - 1) + 1 = m
    BY <2>1
  <2> QED BY <2>6, <2>7 DEF Bad
<1> QED BY <1>1

LEMMA SeqSetInduction ==
  ASSUME NEW T, NEW S \in SUBSET Seq(T), <<>> \in S,
         \A s \in S, e \in T : Append(s, e) \in S
  PROVE  S = Seq(T)
<1> DEFINE N == {n \in Nat : \A s \in Seq(T) : Len(s) = n => s \in S}
<1>1. 0 \in N
  BY EmptySeq
<1>2. ASSUME NEW n \in N PROVE n + 1 \in N
  <2> SUFFICES ASSUME NEW s \in Seq(T), Len(s) = n + 1 PROVE s \in S
    OBVIOUS
  <2>1. s # <<>>
    BY EmptySeq
  <2>2. PICK f \in Seq(T), e \in T : s = Append(f, e)
    BY <2>1, SequenceEmptyOrAppend
  <2>3. Len(f) = n
    BY <2>2, AppendProperties, LenProperties
  <2> QED BY <2>2, <2>3
<1> HIDE DEF N
<1>3. N \in SUBSET Nat
  BY DEF N
<1>4. N = Nat
  BY <1>1, <1>2, <1>3, NatSetInduction
<1> QED BY <1>4, LenProperties DEF N

-----------------------------------------------------------------------------
\* FlattenSeq: the function it is defined by exists, is typed and is unique.

Flattens(f, ss, n) ==
  f = [i \in 1 .. n |-> IF i = 1 THEN ss[i] ELSE f[i - 1] \o ss[i]]

LEMMA FlattensExists ==
  ASSUME NEW ss
  PROVE  \A n \in Nat : \E f : Flattens(f, ss, n)
<1> DEFINE S == {n \in Nat : \E f : Flattens(f, ss, n)}
<1>1. 0 \in S
  <2> DEFINE z == [i \in 1 .. 0 |-> ss[i]]
  <2>1. Flattens(z, ss, 0)
    BY DEF Flattens
  <2> QED BY <2>1
<1>2. ASSUME NEW n \in S PROVE n + 1 \in S
  <2>1. PICK f : Flattens(f, ss, n)
    OBVIOUS
  <2> DEFINE g == [i \in 1 .. n + 1 |-> IF i = 1 THEN ss[i] ELSE f[i - 1] \o ss[i]]
  <2>2. ASSUME NEW i \in 1 .. n PROVE f[i] = g[i]
    <3>1. f[i] = IF i = 1 THEN ss[i] ELSE f[i - 1] \o ss[i]
      BY <2>1, Zenon DEF Flattens
    <3>2. i \in 1 .. n + 1
      OBVIOUS
    <3>3. g[i] = IF i = 1 THEN ss[i] ELSE f[i - 1] \o ss[i]
      BY <3>2, Zenon
    <3> QED BY <3>1, <3>3
  <2>3. ASSUME NEW i \in 1 .. n + 1, i # 1 PROVE g[i - 1] = f[i - 1]
    <3>1. i - 1 \in 1 .. n
      BY <2>3
    <3> HIDE DEF g
    <3> QED BY <2>2, <3>1
  <2>4. g = [i \in 1 .. n + 1 |-> IF i = 1 THEN ss[i] ELSE g[i - 1] \o ss[i]]
    <3>1. ASSUME NEW i \in 1 .. n + 1
          PROVE  (IF i = 1 THEN ss[i] ELSE f[i - 1] \o ss[i])
                   = IF i = 1 THEN ss[i] ELSE g[i - 1] \o ss[i]
      <4> HIDE DEF g
      <4> QED BY <2>3
    <3>2. g = [i \in 1 .. n + 1 |-> IF i = 1 THEN ss[i] ELSE f[i - 1] \o ss[i]]
      OBVIOUS
    <3> HIDE DEF g
    <3> QED BY <3>1, <3>2, Zenon
  <2> HIDE DEF g
  <2>5. Flattens(g, ss, n + 1)
    BY <2>4 DEF Flattens
  <2> QED BY <2>5
<1> HIDE DEF S
<1>3. S \in SUBSET Nat
  BY DEF S
<1>4. S = Nat
  BY <1>1, <1>2, <1>3, NatSetInduction
<1> QED BY <1>4 DEF S

\* Two of them agree as long as their sequences do.
LEMMA FlattensAgree ==
  ASSUME NEW ss, NEW tt, NEW f, NEW g, NEW m \in Nat, NEW n \in Nat, m <= n,
         Flattens(f, ss, m), Flattens(g, tt, n), \A i \in 1 .. m : ss[i] = tt[i]
  PROVE  \A i \in 1 .. m : f[i] = g[i]
<1> DEFINE S == {k \in Nat : k \in 1 .. m => f[k] = g[k]}
<1>1. 0 \in S
  OBVIOUS
<1>2. ASSUME NEW k \in S PROVE k + 1 \in S
  <2> SUFFICES ASSUME k + 1 \in 1 .. m PROVE f[k + 1] = g[k + 1]
    OBVIOUS
  <2>1. k + 1 \in 1 .. n /\ (k + 1) - 1 = k
    OBVIOUS
  <2>2. /\ f[k + 1] = IF k + 1 = 1 THEN ss[k + 1] ELSE f[(k + 1) - 1] \o ss[k + 1]
        /\ g[k + 1] = IF k + 1 = 1 THEN tt[k + 1] ELSE g[(k + 1) - 1] \o tt[k + 1]
    BY <2>1 DEF Flattens
  <2>3. k + 1 # 1 => f[k] = g[k]
    OBVIOUS
  <2> QED BY <2>1, <2>2, <2>3
<1> HIDE DEF S
<1>3. S \in SUBSET Nat
  BY DEF S
<1>4. S = Nat
  BY <1>1, <1>2, <1>3, NatSetInduction
<1> QED BY <1>4 DEF S

LEMMA FlattensTyped ==
  ASSUME NEW T, NEW n \in Nat, NEW ss \in [1 .. n -> Seq(T)], NEW f, Flattens(f, ss, n)
  PROVE  f \in [1 .. n -> Seq(T)]
<1> DEFINE S == {k \in Nat : k \in 1 .. n => f[k] \in Seq(T)}
<1>1. 0 \in S
  OBVIOUS
<1>2. ASSUME NEW k \in S PROVE k + 1 \in S
  <2> SUFFICES ASSUME k + 1 \in 1 .. n PROVE f[k + 1] \in Seq(T)
    OBVIOUS
  <2>1. f[k + 1] = IF k + 1 = 1 THEN ss[k + 1] ELSE f[(k + 1) - 1] \o ss[k + 1]
    BY DEF Flattens
  <2>2. (k + 1) - 1 = k /\ ss[k + 1] \in Seq(T)
    OBVIOUS
  <2>3. k + 1 # 1 => f[k] \in Seq(T)
    OBVIOUS
  <2> QED BY <2>1, <2>2, <2>3, ConcatProperties
<1> HIDE DEF S
<1>3. S \in SUBSET Nat
  BY DEF S
<1>4. S = Nat
  BY <1>1, <1>2, <1>3, NatSetInduction
<1>5. \A k \in 1 .. n : f[k] \in Seq(T)
  BY <1>4 DEF S
<1> QED BY <1>5 DEF Flattens

\* The last value of the function is what FlattenSeq returns.
LEMMA FlattenIs ==
  ASSUME NEW T, NEW ss \in Seq(Seq(T))
  PROVE  /\ ss = <<>> => FlattenSeq(ss) = <<>>
         /\ ss # <<>> => \E f : Flattens(f, ss, Len(ss)) /\ FlattenSeq(ss) = f[Len(ss)]
<1>1. ASSUME ss = <<>> PROVE FlattenSeq(ss) = <<>>
  BY <1>1, EmptySeq DEF FlattenSeq
<1>2. ASSUME ss # <<>>
      PROVE \E f : Flattens(f, ss, Len(ss)) /\ FlattenSeq(ss) = f[Len(ss)]
  <2>1. Len(ss) \in Nat /\ Len(ss) # 0
    BY <1>2, EmptySeq, LenProperties
  <2> DEFINE f == CHOOSE f : Flattens(f, ss, Len(ss))
  <2>2. Flattens(f, ss, Len(ss))
    BY <2>1, FlattensExists
  <2>3. FlattenSeq(ss) = f[Len(ss)]
    BY <2>1 DEF FlattenSeq, Flattens
  <2> QED BY <2>2, <2>3
<1> QED BY <1>1, <1>2

LEMMA FlattenTyped ==
  ASSUME NEW T, NEW ss \in Seq(Seq(T))
  PROVE  FlattenSeq(ss) \in Seq(T)
<1>1. CASE ss = <<>>
  BY <1>1, FlattenIs, EmptySeq
<1>2. CASE ss # <<>>
  <2>1. Len(ss) \in Nat \ {0} /\ ss \in [1 .. Len(ss) -> Seq(T)]
    BY <1>2, EmptySeq, LenProperties
  <2>2. PICK f : Flattens(f, ss, Len(ss)) /\ FlattenSeq(ss) = f[Len(ss)]
    BY <1>2, FlattenIs
  <2>3. f \in [1 .. Len(ss) -> Seq(T)]
    BY <2>1, <2>2, FlattensTyped
  <2> QED BY <2>1, <2>2, <2>3
<1> QED BY <1>1, <1>2

LEMMA FlattenAppend ==
  ASSUME NEW T, NEW ss \in Seq(Seq(T)), NEW s \in Seq(T)
  PROVE  FlattenSeq(Append(ss, s)) = FlattenSeq(ss) \o s
<1> DEFINE tt == Append(ss, s)
           n == Len(ss)
<1>1. /\ n \in Nat /\ tt \in Seq(Seq(T)) /\ tt # <<>> /\ Len(tt) = n + 1
      /\ \A i \in 1 .. n : tt[i] = ss[i]
      /\ tt[n + 1] = s
  BY AppendProperties, LenProperties
<1> HIDE DEF tt
<1>2. PICK g : Flattens(g, tt, n + 1) /\ FlattenSeq(tt) = g[n + 1]
  BY <1>1, FlattenIs
<1>3. g[n + 1] = IF n + 1 = 1 THEN tt[n + 1] ELSE g[(n + 1) - 1] \o tt[n + 1]
  <2>1. n + 1 \in 1 .. n + 1
    BY <1>1
  <2> QED BY <1>2, <2>1, Zenon DEF Flattens
<1>4. CASE ss = <<>>
  <2>1. n = 0
    BY <1>4, EmptySeq
  <2>2. FlattenSeq(tt) = s
    BY <1>1, <1>2, <1>3, <2>1
  <2>3. FlattenSeq(ss) = <<>>
    BY <1>4, FlattenIs
  <2>4. <<>> \o s = s
    BY ConcatEmptySeq
  <2> QED BY <2>2, <2>3, <2>4 DEF tt
<1>5. CASE ss # <<>>
  <2>1. n # 0
    BY <1>5, EmptySeq
  <2>2. PICK f : Flattens(f, ss, n) /\ FlattenSeq(ss) = f[n]
    BY <1>5, FlattenIs
  <2>3. n \in 1 .. n /\ n + 1 # 1 /\ (n + 1) - 1 = n /\ n + 1 \in Nat /\ n <= n + 1
    BY <1>1, <2>1
  <2>4. \A i \in 1 .. n : f[i] = g[i]
    <3>1. \A i \in 1 .. n : ss[i] = tt[i]
      BY <1>1
    <3>2. n \in Nat /\ n + 1 \in Nat /\ n <= n + 1
      BY <1>1
    <3>3. Flattens(f, ss, n) /\ Flattens(g, tt, n + 1)
      BY <1>2, <2>2
    <3> HIDE DEF n
    <3> QED BY ONLY <3>1, <3>2, <3>3, FlattensAgree
  <2> QED BY <1>1, <1>2, <1>3, <2>2, <2>3, <2>4 DEF tt
<1> QED BY <1>4, <1>5

LEMMA FlattenConcat ==
  ASSUME NEW T, NEW ss \in Seq(Seq(T)), NEW tt \in Seq(Seq(T))
  PROVE  FlattenSeq(ss \o tt) = FlattenSeq(ss) \o FlattenSeq(tt)
<1> DEFINE S == {uu \in Seq(Seq(T)) :
                   FlattenSeq(ss \o uu) = FlattenSeq(ss) \o FlattenSeq(uu)}
<1>1. <<>> \in S
  <2>1. ss \o <<>> = ss /\ <<>> \in Seq(Seq(T))
    BY ConcatEmptySeq, EmptySeq
  <2>2. FlattenSeq(ss) \in Seq(T) /\ FlattenSeq(<<>>) = <<>>
    BY FlattenTyped, FlattenIs, EmptySeq
  <2>3. FlattenSeq(ss) \o <<>> = FlattenSeq(ss)
    BY <2>2, ConcatEmptySeq
  <2> QED BY <2>1, <2>2, <2>3
<1>2. ASSUME NEW uu \in S, NEW s \in Seq(T) PROVE Append(uu, s) \in S
  <2>1. uu \in Seq(Seq(T)) /\ FlattenSeq(ss \o uu) = FlattenSeq(ss) \o FlattenSeq(uu)
    OBVIOUS
  <2> HIDE DEF S
  <2>2. ss \o Append(uu, s) = Append(ss \o uu, s)
    BY <2>1, AppendProperties, ConcatProperties
  <2>3. ss \o uu \in Seq(Seq(T)) /\ Append(uu, s) \in Seq(Seq(T))
    BY <2>1, AppendProperties, ConcatProperties
  <2>4. /\ FlattenSeq(Append(ss \o uu, s)) = FlattenSeq(ss \o uu) \o s
        /\ FlattenSeq(Append(uu, s)) = FlattenSeq(uu) \o s
    BY <2>1, <2>3, FlattenAppend
  <2>5. (FlattenSeq(ss) \o FlattenSeq(uu)) \o s = FlattenSeq(ss) \o (FlattenSeq(uu) \o s)
    BY <2>1, FlattenTyped, ConcatAssociative
  <2> QED BY <2>1, <2>2, <2>3, <2>4, <2>5 DEF S
<1> HIDE DEF S
<1>3. S \in SUBSET Seq(Seq(T))
  BY DEF S
<1>4. S = Seq(Seq(T))
  BY <1>1, <1>2, <1>3, SeqSetInduction
<1> QED BY <1>4 DEF S

-----------------------------------------------------------------------------
\* What a function from elements to sequences gathers along a sequence.

Gathered(s, f) == FlattenSeq([i \in DOMAIN s |-> f[s[i]]])

LEMMA GatheredTyped ==
  ASSUME NEW T, NEW U, NEW s \in Seq(T), NEW f \in [T -> Seq(U)]
  PROVE  /\ [i \in DOMAIN s |-> f[s[i]]] \in Seq(Seq(U))
         /\ Gathered(s, f) \in Seq(U)
<1>1. [i \in DOMAIN s |-> f[s[i]]] \in Seq(Seq(U))
  <2>1. DOMAIN s = 1 .. Len(s) /\ Len(s) \in Nat /\ \A i \in DOMAIN s : s[i] \in T
    BY LenProperties
  <2>2. [i \in 1 .. Len(s) |-> f[s[i]]] \in [1 .. Len(s) -> Seq(U)]
    BY <2>1
  <2> QED BY <2>1, <2>2, SeqDef
<1> QED BY <1>1, FlattenTyped DEF Gathered

LEMMA GatheredEmpty ==
  ASSUME NEW f
  PROVE  Gathered(<<>>, f) = <<>>
<1>1. [i \in DOMAIN <<>> |-> f[<<>>[i]]] = <<>>
  OBVIOUS
<1> QED BY <1>1, EmptySeq DEF Gathered, FlattenSeq

LEMMA GatheredAppend ==
  ASSUME NEW T, NEW U, NEW s \in Seq(T), NEW e \in T, NEW f \in [T -> Seq(U)]
  PROVE  Gathered(Append(s, e), f) = Gathered(s, f) \o f[e]
<1> DEFINE along(t) == [i \in DOMAIN t |-> f[t[i]]]
<1>1. /\ along(s) \in Seq(Seq(U)) /\ along(Append(s, e)) \in Seq(Seq(U))
      /\ Append(s, e) \in Seq(T)
  <2>1. Append(s, e) \in Seq(T)
    BY AppendProperties
  <2>2. \A t \in Seq(T) : along(t) \in Seq(Seq(U))
    BY GatheredTyped
  <2> HIDE DEF along
  <2> QED BY <2>1, <2>2
<1>2. along(Append(s, e)) = Append(along(s), f[e])
  <2>1. /\ DOMAIN s = 1 .. Len(s) /\ Len(s) \in Nat
        /\ DOMAIN Append(s, e) = 1 .. Len(s) + 1
        /\ \A i \in 1 .. Len(s) : Append(s, e)[i] = s[i]
        /\ Append(s, e)[Len(s) + 1] = e
    BY AppendProperties, LenProperties
  <2>2. Len(along(s)) = Len(s) /\ Len(along(Append(s, e))) = Len(s) + 1
    BY <1>1, <2>1
  <2>3. /\ Append(along(s), f[e]) \in Seq(Seq(U))
        /\ Len(Append(along(s), f[e])) = Len(s) + 1
        /\ \A i \in 1 .. Len(s) : Append(along(s), f[e])[i] = along(s)[i]
        /\ Append(along(s), f[e])[Len(s) + 1] = f[e]
    <3> HIDE DEF along
    <3> QED BY <1>1, <2>2, AppendProperties
  <2>4. \A i \in 1 .. Len(s) + 1 : along(Append(s, e))[i] = Append(along(s), f[e])[i]
    BY <2>1, <2>3
  <2> HIDE DEF along
  <2> QED BY <1>1, <2>2, <2>3, <2>4, SeqEqual
<1>3. FlattenSeq(Append(along(s), f[e])) = FlattenSeq(along(s)) \o f[e]
  <2> HIDE DEF along
  <2> QED BY <1>1, FlattenAppend
<1> QED BY <1>2, <1>3 DEF Gathered

LEMMA GatheredConcat ==
  ASSUME NEW T, NEW U, NEW s \in Seq(T), NEW t \in Seq(T), NEW f \in [T -> Seq(U)]
  PROVE  Gathered(s \o t, f) = Gathered(s, f) \o Gathered(t, f)
<1> DEFINE S == {u \in Seq(T) : Gathered(s \o u, f) = Gathered(s, f) \o Gathered(u, f)}
<1>1. <<>> \in S
  <2>1. s \o <<>> = s /\ Gathered(s, f) \o <<>> = Gathered(s, f)
    BY ConcatEmptySeq, GatheredTyped
  <2> QED BY <2>1, GatheredEmpty, EmptySeq
<1>2. ASSUME NEW u \in S, NEW e \in T PROVE Append(u, e) \in S
  <2>1. u \in Seq(T) /\ Gathered(s \o u, f) = Gathered(s, f) \o Gathered(u, f)
    OBVIOUS
  <2> HIDE DEF S
  <2>2. s \o Append(u, e) = Append(s \o u, e) /\ Append(u, e) \in Seq(T) /\ s \o u \in Seq(T)
    BY <2>1, AppendProperties, ConcatProperties
  <2>3. /\ Gathered(Append(s \o u, e), f) = Gathered(s \o u, f) \o f[e]
        /\ Gathered(Append(u, e), f) = Gathered(u, f) \o f[e]
    <3>1. \A v \in Seq(T) : Gathered(Append(v, e), f) = Gathered(v, f) \o f[e]
      BY GatheredAppend
    <3> QED BY <2>1, <2>2, <3>1
  <2>4. (Gathered(s, f) \o Gathered(u, f)) \o f[e] = Gathered(s, f) \o (Gathered(u, f) \o f[e])
    BY <2>1, GatheredTyped, ConcatAssociative
  <2> QED BY <2>1, <2>2, <2>3, <2>4 DEF S
<1> HIDE DEF S
<1>3. S \in SUBSET Seq(T)
  BY DEF S
<1>4. S = Seq(T)
  BY <1>1, <1>2, <1>3, SeqSetInduction
<1> QED BY <1>4 DEF S

\* Where every element gives one, they are gathered in order.
LEMMA GatheredSingles ==
  ASSUME NEW T, NEW U, NEW f \in [T -> Seq(U)], NEW g \in [T -> U], NEW s \in Seq(T),
         \A i \in DOMAIN s : f[s[i]] = <<g[s[i]]>>
  PROVE  Gathered(s, f) = [i \in DOMAIN s |-> g[s[i]]]
<1> DEFINE along(t) == [i \in DOMAIN t |-> g[t[i]]]
           S == {t \in Seq(T) : (\A i \in DOMAIN t : f[t[i]] = <<g[t[i]]>>)
                                  => Gathered(t, f) = along(t)}
<1>1. <<>> \in S
  <2>1. along(<<>>) = <<>>
    OBVIOUS
  <2>2. Gathered(<<>>, f) = <<>> /\ <<>> \in Seq(T)
    BY GatheredEmpty, EmptySeq
  <2> QED BY <2>1, <2>2
<1>2. ASSUME NEW t \in S, NEW e \in T PROVE Append(t, e) \in S
  <2>1. /\ t \in Seq(T) /\ Append(t, e) \in Seq(T)
        /\ DOMAIN t = 1 .. Len(t) /\ Len(t) \in Nat
        /\ DOMAIN Append(t, e) = 1 .. Len(t) + 1
        /\ \A i \in 1 .. Len(t) : Append(t, e)[i] = t[i]
        /\ Append(t, e)[Len(t) + 1] = e
    BY AppendProperties, LenProperties
  <2> SUFFICES ASSUME \A i \in DOMAIN Append(t, e) : f[Append(t, e)[i]] = <<g[Append(t, e)[i]]>>
               PROVE  Gathered(Append(t, e), f) = along(Append(t, e))
    BY <2>1
  <2>2. f[e] = <<g[e]>>
    <3>1. Len(t) + 1 \in DOMAIN Append(t, e)
      BY <2>1
    <3> QED BY <2>1, <3>1
  <2>3. \A i \in DOMAIN t : f[t[i]] = <<g[t[i]]>>
    BY <2>1
  <2>4. Gathered(t, f) = along(t)
    BY <2>3
  <2>5. Gathered(Append(t, e), f) = along(t) \o <<g[e]>>
    <3>1. Gathered(Append(t, e), f) = Gathered(t, f) \o f[e]
      BY <2>1, GatheredAppend
    <3> QED BY <2>2, <2>4, <3>1
  <2>6. along(t) \in Seq(U) /\ Len(along(t)) = Len(t)
    <3>1. \A i \in 1 .. Len(t) : g[t[i]] \in U
      BY <2>1
    <3> QED BY <2>1, <3>1, SeqDef
  <2>7. along(Append(t, e)) \in Seq(U) /\ Len(along(Append(t, e))) = Len(t) + 1
    <3>1. \A i \in 1 .. Len(t) + 1 : g[Append(t, e)[i]] \in U
      BY <2>1
    <3> QED BY <2>1, <3>1, SeqDef
  <2>8. /\ Append(along(t), g[e]) \in Seq(U)
        /\ Len(Append(along(t), g[e])) = Len(t) + 1
        /\ \A i \in 1 .. Len(t) : Append(along(t), g[e])[i] = along(t)[i]
        /\ Append(along(t), g[e])[Len(t) + 1] = g[e]
        /\ Append(along(t), g[e]) = along(t) \o <<g[e]>>
    <3> HIDE DEF along
    <3> QED BY <2>6, AppendProperties, AppendIsConcat
  <2>9. \A i \in 1 .. Len(t) + 1 : along(Append(t, e))[i] = Append(along(t), g[e])[i]
    BY <2>1, <2>8
  <2> HIDE DEF along
  <2>10. along(Append(t, e)) = Append(along(t), g[e])
    BY <2>7, <2>8, <2>9, SeqEqual
  <2> QED BY <2>5, <2>8, <2>10
<1> HIDE DEF S
<1>3. S \in SUBSET Seq(T)
  BY DEF S
<1>4. S = Seq(T)
  BY <1>1, <1>2, <1>3, SeqSetInduction
<1> QED BY <1>4 DEF S

\* Where no element gives any, nothing is gathered.
LEMMA GatheredNothing ==
  ASSUME NEW T, NEW U, NEW f \in [T -> Seq(U)], NEW s \in Seq(T),
         \A i \in DOMAIN s : f[s[i]] = <<>>
  PROVE  Gathered(s, f) = <<>>
<1> DEFINE S == {t \in Seq(T) : (\A i \in DOMAIN t : f[t[i]] = <<>>) => Gathered(t, f) = <<>>}
<1>1. <<>> \in S
  BY GatheredEmpty, EmptySeq
<1>2. ASSUME NEW t \in S, NEW e \in T PROVE Append(t, e) \in S
  <2>1. /\ t \in Seq(T) /\ Append(t, e) \in Seq(T)
        /\ DOMAIN t = 1 .. Len(t) /\ Len(t) \in Nat
        /\ DOMAIN Append(t, e) = 1 .. Len(t) + 1
        /\ \A i \in 1 .. Len(t) : Append(t, e)[i] = t[i]
        /\ Append(t, e)[Len(t) + 1] = e
    BY AppendProperties, LenProperties
  <2> SUFFICES ASSUME \A i \in DOMAIN Append(t, e) : f[Append(t, e)[i]] = <<>>
               PROVE  Gathered(Append(t, e), f) = <<>>
    BY <2>1
  <2>2. f[e] = <<>> /\ Gathered(t, f) = <<>>
    <3>1. Len(t) + 1 \in DOMAIN Append(t, e)
      BY <2>1
    <3>2. \A i \in DOMAIN t : f[t[i]] = <<>>
      BY <2>1
    <3> QED BY <2>1, <3>1, <3>2
  <2>3. Gathered(Append(t, e), f) = <<>> \o <<>>
    BY <2>1, <2>2, GatheredAppend
  <2> QED BY <2>3, ConcatEmptySeq, EmptySeq
<1> HIDE DEF S
<1>3. S \in SUBSET Seq(T)
  BY DEF S
<1>4. S = Seq(T)
  BY <1>1, <1>2, <1>3, SeqSetInduction
<1> QED BY <1>4 DEF S

-----------------------------------------------------------------------------
\* The types.

Id     == Nat \X Nat
Piece  == [id : Id, n : Nat]
Count  == Nat \cup {None}
Call   == [id : Id, args : Seq(Piece)]
Msg    == [role : {"system", "user", "assistant", "tool"}, text : Seq(Piece),
           calls : Seq(Call), answers : Id \cup {None}]
Use    == [id : Id, input : Id \cup {None}]
Part   == [role : {"system", "user", "assistant", "tool"}, text : Seq(Piece),
           uses : Seq(Use), result : Id \cup {None}]
Block  == [id : Id, type : {"text", "tool_use"}, n : 0 .. Pieces]
Spoken == [id : Id, whole : BOOLEAN]
Report == [input : Nat, output : Nat, read : Count, write : Count]
Tally  == [prompt : Nat, completion : Nat, cached : Count, written : Count]
Row    == [text : Seq(Piece), read : Count, write : Count]
Chunk  == [kind : {"header"}, index : Nat, id : Id]
          \cup [kind : {"arguments"}, index : Nat, piece : Piece]
          \cup [kind : {"text"}, piece : Piece]
          \cup [kind : {"final"}, prompt : Nat, completion : Nat, cached : Count]
          \cup [kind : {"done", "error", "comment"}]

TypeOK ==
  /\ conv \in Seq(Msg) /\ spoken \in Seq(Spoken)
  /\ phase \in {"asked", "open", "block", "closing", "stopped"}
  /\ gen \in {"none", "created", "running", "over", "broken", "dropped"}
  /\ blocks \in Seq(Block) /\ reported \in Report \cup {None}
  /\ tools \in Nat /\ usage \in Tally
  /\ out \in Seq(Chunk) /\ collected \in Seq(Piece)
  /\ ledger \in Seq(Row) /\ closed \in BOOLEAN

-----------------------------------------------------------------------------
\* The inductive invariant.

\* The pieces a block has streamed, and the calls blocks amount to.
Parts(b) == [n \in 1 .. b.n |-> [id |-> b.id, n |-> n]]
CallsOf(bs) ==
  [k \in DOMAIN Used(bs) |-> [id |-> Used(bs)[k].id, args |-> Parts(Used(bs)[k])]]

\* Before its first line a stream is as Fresh left it.
Beginning ==
  /\ gen \notin {"running", "over", "broken"} =>
       /\ phase = "asked" /\ out = <<>> /\ ledger = <<>> /\ collected = <<>>
  /\ phase = "asked" =>
       blocks = <<>> /\ reported = None /\ usage = NoUsage /\ tools = 0
  /\ phase = "block" => blocks # <<>>

\* What the client puts together of the chunks s is what the provider streamed
\* in the blocks bs, n of which are calls.
TextsOf(s) == FlattenSeq([i \in DOMAIN s |->
  IF s[i].kind = "text" THEN <<s[i].piece>> ELSE <<>>])
HeadersOf(s) == {i \in DOMAIN s : s[i].kind = "header"}
NamesOf(s, k) == FlattenSeq([i \in DOMAIN s |->
  IF s[i].kind = "header" /\ s[i].index = k THEN <<s[i].id>> ELSE <<>>])
ArgumentsOf(s, k) == FlattenSeq([i \in DOMAIN s |->
  IF s[i].kind = "arguments" /\ s[i].index = k THEN <<s[i].piece>> ELSE <<>>])
Assembled(bs, n, s) ==
  /\ n = Len(Used(bs))
  /\ Cardinality(HeadersOf(s)) = n
  /\ \A k \in Nat :
       /\ NamesOf(s, k) = IF k < n THEN <<Used(bs)[k + 1].id>> ELSE <<>>
       /\ ArgumentsOf(s, k) = IF k < n THEN Parts(Used(bs)[k + 1]) ELSE <<>>

\* What may come behind [DONE]: x is the provider's own text.
MayTrail(c, x) == c.kind \in {"comment", "error"} \/ c = x
TrailOf(s, x) ==
  \A i \in DOMAIN s : s[i] = Done => \A j \in i + 1 .. Len(s) : MayTrail(s[j], x)
DoneIsLast(s) == \A i \in DOMAIN s : s[i] = Done => i = Len(s)
Ending ==
  /\ gen = "over" => DoneSent
  /\ gen = "running" /\ DoneSent => phase = "stopped"
  /\ TrailOf(out, Stray)
  /\ phase # "stopped" => DoneIsLast(out)

\* The usage is what was reported, and is final once the final chunk is out.
Reported ==
  /\ reported \in Report
  /\ usage = [prompt |-> reported.input, completion |-> reported.output,
              cached |-> reported.read, written |-> reported.write]
Accounting ==
  /\ collected = TextsOf(out)
  /\ reported # None => Reported
  /\ phase \in {"open", "block", "closing", "stopped"} => Reported
  /\ \A i \in DOMAIN out : out[i].kind = "final" =>
       /\ phase = "stopped"
       /\ out[i].prompt = usage.prompt
       /\ out[i].completion = usage.completion
       /\ out[i].cached = usage.cached
  /\ gen = "running" => ledger = <<>>
  /\ gen \in {"over", "broken"} =>
       /\ closed
       /\ ledger = <<[text |-> collected, read |-> usage.cached, write |-> usage.written]>>

\* The translation of a conversation has the calls the provider made in it.
Expected(sp) ==
  [i \in DOMAIN sp |-> [id |-> sp[i].id, input |-> IF sp[i].whole THEN sp[i].id ELSE None]]
Answered(ms) ==
  \A i \in DOMAIN ms : ms[i].result # None =>
    \E j \in 1 .. i - 1 : \E k \in DOMAIN ms[j].uses : ms[j].uses[k].id = ms[i].result
CallsKept(c, sp) ==
  LET ms == Translated(c).messages IN
  /\ FlattenSeq([i \in DOMAIN ms |-> ms[i].uses]) = Expected(sp)
  /\ Answered(ms)
Conversation ==
  /\ CallsKept(conv, spoken)
  /\ gen # "none" => body = Translated(conv)

IInv ==
  TypeOK /\ Beginning /\ Assembled(blocks, tools, out) /\ Ending /\ Accounting /\ Conversation

-----------------------------------------------------------------------------
\* The client's and the translation's selections, gathered chunk by chunk.

TextOf == [c \in Chunk |-> IF c.kind = "text" THEN <<c.piece>> ELSE <<>>]
NameOf(k) ==
  [c \in Chunk |-> IF c.kind = "header" /\ c.index = k THEN <<c.id>> ELSE <<>>]
ArgumentOf(k) ==
  [c \in Chunk |-> IF c.kind = "arguments" /\ c.index = k THEN <<c.piece>> ELSE <<>>]
UsedOf == [b \in Block |-> IF b.type = "tool_use" THEN <<b>> ELSE <<>>]

LEMMA Single ==
  ASSUME NEW T, NEW e \in T
  PROVE  <<e>> \in Seq(T) /\ Len(<<e>>) = 1 /\ <<e>>[1] = e
OBVIOUS

LEMMA SelectorsTyped ==
  /\ TextOf \in [Chunk -> Seq(Piece)]
  /\ \A k : NameOf(k) \in [Chunk -> Seq(Id)] /\ ArgumentOf(k) \in [Chunk -> Seq(Piece)]
  /\ UsedOf \in [Block -> Seq(Block)]
<1>1. ASSUME NEW c \in Chunk
      PROVE  /\ c.kind = "text" => c.piece \in Piece
             /\ c.kind = "arguments" => c.piece \in Piece
             /\ c.kind = "header" => c.id \in Id
  BY DEF Chunk
<1>2. TextOf \in [Chunk -> Seq(Piece)]
  BY <1>1, EmptySeq, Single DEF TextOf
<1>3. \A k : NameOf(k) \in [Chunk -> Seq(Id)]
  BY <1>1, EmptySeq, Single DEF NameOf
<1>4. \A k : ArgumentOf(k) \in [Chunk -> Seq(Piece)]
  BY <1>1, EmptySeq, Single DEF ArgumentOf
<1>5. UsedOf \in [Block -> Seq(Block)]
  BY EmptySeq, Single DEF UsedOf
<1> QED BY <1>2, <1>3, <1>4, <1>5

LEMMA ChunksGathered ==
  ASSUME NEW s \in Seq(Chunk)
  PROVE  /\ TextsOf(s) = Gathered(s, TextOf)
         /\ \A k : NamesOf(s, k) = Gathered(s, NameOf(k))
         /\ \A k : ArgumentsOf(s, k) = Gathered(s, ArgumentOf(k))
<1>1. \A i \in DOMAIN s : s[i] \in Chunk
  BY LenProperties
<1>2. TextsOf(s) = Gathered(s, TextOf)
  <2>1. [i \in DOMAIN s |-> IF s[i].kind = "text" THEN <<s[i].piece>> ELSE <<>>]
          = [i \in DOMAIN s |-> TextOf[s[i]]]
    BY <1>1 DEF TextOf
  <2> QED BY <2>1 DEF TextsOf, Gathered
<1>3. ASSUME NEW k PROVE NamesOf(s, k) = Gathered(s, NameOf(k))
  <2>1. [i \in DOMAIN s |->
           IF s[i].kind = "header" /\ s[i].index = k THEN <<s[i].id>> ELSE <<>>]
          = [i \in DOMAIN s |-> NameOf(k)[s[i]]]
    BY <1>1 DEF NameOf
  <2> QED BY <2>1 DEF NamesOf, Gathered
<1>4. ASSUME NEW k PROVE ArgumentsOf(s, k) = Gathered(s, ArgumentOf(k))
  <2>1. [i \in DOMAIN s |->
           IF s[i].kind = "arguments" /\ s[i].index = k THEN <<s[i].piece>> ELSE <<>>]
          = [i \in DOMAIN s |-> ArgumentOf(k)[s[i]]]
    BY <1>1 DEF ArgumentOf
  <2> QED BY <2>1 DEF ArgumentsOf, Gathered
<1> QED BY <1>2, <1>3, <1>4

LEMMA BlocksGathered ==
  ASSUME NEW bs \in Seq(Block)
  PROVE  Used(bs) = Gathered(bs, UsedOf)
<1>1. \A i \in DOMAIN bs : bs[i] \in Block
  BY LenProperties
<1>2. [i \in DOMAIN bs |-> IF bs[i].type = "tool_use" THEN <<bs[i]>> ELSE <<>>]
        = [i \in DOMAIN bs |-> UsedOf[bs[i]]]
  BY <1>1 DEF UsedOf
<1> QED BY <1>2 DEF Used, Gathered

LEMMA ChunksTyped ==
  ASSUME NEW s \in Seq(Chunk)
  PROVE  /\ TextsOf(s) \in Seq(Piece)
         /\ \A k : NamesOf(s, k) \in Seq(Id) /\ ArgumentsOf(s, k) \in Seq(Piece)
<1>1. /\ Gathered(s, TextOf) \in Seq(Piece)
      /\ \A k : Gathered(s, NameOf(k)) \in Seq(Id)
      /\ \A k : Gathered(s, ArgumentOf(k)) \in Seq(Piece)
  <2>1. \A T, U : \A t \in Seq(T), f \in [T -> Seq(U)] : Gathered(t, f) \in Seq(U)
    BY GatheredTyped
  <2> QED BY <2>1, SelectorsTyped
<1> QED BY <1>1, ChunksGathered

LEMMA BlocksTyped ==
  ASSUME NEW bs \in Seq(Block)
  PROVE  Used(bs) \in Seq(Block)
<1>1. Gathered(bs, UsedOf) \in Seq(Block)
  BY SelectorsTyped, GatheredTyped
<1> QED BY <1>1, BlocksGathered

LEMMA SelectionsOfNothing ==
  /\ TextsOf(<<>>) = <<>> /\ Used(<<>>) = <<>>
  /\ \A k : NamesOf(<<>>, k) = <<>> /\ ArgumentsOf(<<>>, k) = <<>>
<1>1. <<>> \in Seq(Chunk) /\ <<>> \in Seq(Block)
  BY EmptySeq
<1> QED BY <1>1, ChunksGathered, BlocksGathered, GatheredEmpty

LEMMA ChunkAppended ==
  ASSUME NEW s \in Seq(Chunk), NEW c \in Chunk
  PROVE  /\ TextsOf(Append(s, c)) = TextsOf(s) \o TextOf[c]
         /\ \A k : /\ NamesOf(Append(s, c), k) = NamesOf(s, k) \o NameOf(k)[c]
                   /\ ArgumentsOf(Append(s, c), k) = ArgumentsOf(s, k) \o ArgumentOf(k)[c]
<1>1. Append(s, c) \in Seq(Chunk)
  BY AppendProperties
<1>2. TextsOf(Append(s, c)) = TextsOf(s) \o TextOf[c]
  <2>1. Gathered(Append(s, c), TextOf) = Gathered(s, TextOf) \o TextOf[c]
    BY SelectorsTyped, GatheredAppend
  <2> QED BY <1>1, <2>1, ChunksGathered
<1>3. ASSUME NEW k PROVE NamesOf(Append(s, c), k) = NamesOf(s, k) \o NameOf(k)[c]
  <2>1. Gathered(Append(s, c), NameOf(k)) = Gathered(s, NameOf(k)) \o NameOf(k)[c]
    BY SelectorsTyped, GatheredAppend
  <2> QED BY <1>1, <2>1, ChunksGathered
<1>4. ASSUME NEW k PROVE ArgumentsOf(Append(s, c), k) = ArgumentsOf(s, k) \o ArgumentOf(k)[c]
  <2>1. Gathered(Append(s, c), ArgumentOf(k)) = Gathered(s, ArgumentOf(k)) \o ArgumentOf(k)[c]
    BY SelectorsTyped, GatheredAppend
  <2> QED BY <1>1, <2>1, ChunksGathered
<1> QED BY <1>2, <1>3, <1>4

LEMMA BlockAppended ==
  ASSUME NEW bs \in Seq(Block), NEW b \in Block
  PROVE  Used(Append(bs, b)) = IF b.type = "tool_use" THEN Append(Used(bs), b) ELSE Used(bs)
<1>1. Append(bs, b) \in Seq(Block) /\ Used(bs) \in Seq(Block)
  BY AppendProperties, BlocksTyped
<1>2. Used(Append(bs, b)) = Used(bs) \o UsedOf[b]
  <2>1. Gathered(Append(bs, b), UsedOf) = Gathered(bs, UsedOf) \o UsedOf[b]
    BY SelectorsTyped, GatheredAppend
  <2> QED BY <1>1, <2>1, BlocksGathered
<1>3. CASE b.type = "tool_use"
  <2>1. UsedOf[b] = <<b>> /\ Append(Used(bs), b) = Used(bs) \o <<b>>
    BY <1>1, <1>3, AppendIsConcat DEF UsedOf
  <2> QED BY <1>2, <1>3, <2>1
<1>4. CASE b.type # "tool_use"
  <2>1. UsedOf[b] = <<>> /\ Used(bs) \o <<>> = Used(bs)
    BY <1>1, <1>4, ConcatEmptySeq DEF UsedOf
  <2> QED BY <1>2, <1>4, <2>1
<1> QED BY <1>3, <1>4

LEMMA HeadersCounted ==
  ASSUME NEW s \in Seq(Chunk)
  PROVE  /\ Cardinality(HeadersOf(s)) \in Nat
         /\ \A c \in Chunk : Cardinality(HeadersOf(Append(s, c)))
              = Cardinality(HeadersOf(s)) + (IF c.kind = "header" THEN 1 ELSE 0)
<1>1. IsFiniteSet(HeadersOf(s))
  <2>1. HeadersOf(s) \subseteq 1 .. Len(s) /\ IsFiniteSet(1 .. Len(s))
    <3>1. DOMAIN s = 1 .. Len(s) /\ Len(s) \in Nat
      BY LenProperties
    <3>2. IsFiniteSet(1 .. Len(s))
      BY <3>1, FS_Interval
    <3> QED BY <3>1, <3>2 DEF HeadersOf
  <2> QED BY <2>1, FS_Subset
<1>2. Cardinality(HeadersOf(s)) \in Nat
  BY <1>1, FS_CardinalityType
<1>3. ASSUME NEW c \in Chunk
      PROVE Cardinality(HeadersOf(Append(s, c)))
              = Cardinality(HeadersOf(s)) + (IF c.kind = "header" THEN 1 ELSE 0)
  <2>1. /\ DOMAIN s = 1 .. Len(s) /\ Len(s) \in Nat
        /\ DOMAIN Append(s, c) = 1 .. Len(s) + 1
        /\ \A i \in 1 .. Len(s) : Append(s, c)[i] = s[i]
        /\ Append(s, c)[Len(s) + 1] = c
    BY AppendProperties, LenProperties
  <2>2. HeadersOf(Append(s, c))
          = HeadersOf(s) \cup (IF c.kind = "header" THEN {Len(s) + 1} ELSE {})
    BY <2>1 DEF HeadersOf
  <2>3. Len(s) + 1 \notin HeadersOf(s)
    BY <2>1 DEF HeadersOf
  <2>4. Cardinality(HeadersOf(s) \cup {Len(s) + 1}) = Cardinality(HeadersOf(s)) + 1
    BY <1>1, <2>3, FS_AddElement
  <2>5. CASE c.kind = "header"
    <3>1. HeadersOf(Append(s, c)) = HeadersOf(s) \cup {Len(s) + 1}
      BY <2>2, <2>5
    <3> QED BY <2>4, <2>5, <3>1
  <2>6. CASE c.kind # "header"
    <3>1. HeadersOf(Append(s, c)) = HeadersOf(s)
      BY <2>2, <2>6
    <3> QED BY <1>2, <2>6, <3>1
  <2> QED BY <2>5, <2>6
<1> QED BY <1>2, <1>3

-----------------------------------------------------------------------------
\* The client's reassembly, chunk by chunk.

LEMMA AssembledAtFirst == Assembled(<<>>, 0, <<>>)
<1>1. HeadersOf(<<>>) = {}
  BY DEF HeadersOf
<1>2. Cardinality({}) = 0 /\ Len(<<>>) = 0
  BY FS_EmptySet, EmptySeq
<1>3. \A k \in Nat : ~(k < 0)
  OBVIOUS
<1> QED BY <1>1, <1>2, <1>3, SelectionsOfNothing DEF Assembled

\* A chunk that is of no call.
LEMMA AssembledOther ==
  ASSUME NEW bs, NEW n \in Nat, NEW s \in Seq(Chunk), NEW c \in Chunk,
         Assembled(bs, n, s), c.kind \notin {"header", "arguments"}
  PROVE  Assembled(bs, n, Append(s, c))
<1>1. \A k \in Nat : NameOf(k)[c] = <<>> /\ ArgumentOf(k)[c] = <<>>
  BY DEF NameOf, ArgumentOf
<1>2. ASSUME NEW k \in Nat
      PROVE  /\ NamesOf(Append(s, c), k) = NamesOf(s, k)
             /\ ArgumentsOf(Append(s, c), k) = ArgumentsOf(s, k)
  <2>1. /\ NamesOf(Append(s, c), k) = NamesOf(s, k) \o <<>>
        /\ ArgumentsOf(Append(s, c), k) = ArgumentsOf(s, k) \o <<>>
    <3>1. /\ NamesOf(Append(s, c), k) = NamesOf(s, k) \o NameOf(k)[c]
          /\ ArgumentsOf(Append(s, c), k) = ArgumentsOf(s, k) \o ArgumentOf(k)[c]
      BY ChunkAppended
    <3> QED BY <1>1, <3>1
  <2>2. NamesOf(s, k) \in Seq(Id) /\ ArgumentsOf(s, k) \in Seq(Piece)
    BY ChunksTyped
  <2>3. NamesOf(s, k) \o <<>> = NamesOf(s, k) /\ ArgumentsOf(s, k) \o <<>> = ArgumentsOf(s, k)
    BY <2>2, ConcatEmptySeq
  <2> QED BY <2>1, <2>3
<1>3. Cardinality(HeadersOf(Append(s, c))) = Cardinality(HeadersOf(s))
  BY HeadersCounted
<1> QED BY <1>2, <1>3 DEF Assembled

\* A text block begins.
LEMMA AssembledTextBlock ==
  ASSUME NEW bs \in Seq(Block), NEW n, NEW s, NEW b \in Block, b.type = "text",
         Assembled(bs, n, s)
  PROVE  Assembled(Append(bs, b), n, s)
<1>1. Used(Append(bs, b)) = Used(bs)
  BY BlockAppended
<1> QED BY <1>1 DEF Assembled

\* A call begins, under the next index.
LEMMA AssembledHeader ==
  ASSUME NEW bs \in Seq(Block), NEW n \in Nat, NEW s \in Seq(Chunk), NEW id \in Id,
         Assembled(bs, n, s)
  PROVE  Assembled(Append(bs, [id |-> id, type |-> "tool_use", n |-> 0]), n + 1,
                   Append(s, [kind |-> "header", index |-> n, id |-> id]))
<1> DEFINE b == [id |-> id, type |-> "tool_use", n |-> 0]
           c == [kind |-> "header", index |-> n, id |-> id]
           u == Used(bs)
           v == Append(u, b)
<1>1. b \in Block /\ b.type = "tool_use" /\ b.id = id /\ b.n = 0
  BY BoundsAreNaturals DEF Block
<1>2. c \in Chunk /\ c.kind = "header" /\ c.index = n /\ c.id = id
  BY DEF Chunk
<1>3. Used(Append(bs, b)) = v
  BY <1>1, BlockAppended
<1>4. u \in Seq(Block) /\ Len(u) = n
  BY BlocksTyped DEF Assembled
<1>5. Len(v) = n + 1 /\ (\A k \in 1 .. n : v[k] = u[k]) /\ v[n + 1] = b
  <2> HIDE DEF u, b
  <2> QED BY <1>1, <1>4, AppendProperties
<1>6. Cardinality(HeadersOf(Append(s, c))) = n + 1
  <2>1. Cardinality(HeadersOf(Append(s, c))) = Cardinality(HeadersOf(s)) + 1
    BY <1>2, HeadersCounted
  <2> QED BY <2>1 DEF Assembled
<1>7. ASSUME NEW k \in Nat
      PROVE  /\ NamesOf(Append(s, c), k) = IF k < n + 1 THEN <<v[k + 1].id>> ELSE <<>>
             /\ ArgumentsOf(Append(s, c), k) = IF k < n + 1 THEN Parts(v[k + 1]) ELSE <<>>
  <2>1. /\ NamesOf(s, k) = IF k < n THEN <<u[k + 1].id>> ELSE <<>>
        /\ ArgumentsOf(s, k) = IF k < n THEN Parts(u[k + 1]) ELSE <<>>
    BY DEF Assembled
  <2>2. /\ NameOf(k)[c] = IF k = n THEN <<id>> ELSE <<>>
        /\ ArgumentOf(k)[c] = <<>>
    BY <1>2 DEF NameOf, ArgumentOf
  <2>3. /\ NamesOf(Append(s, c), k) = NamesOf(s, k) \o NameOf(k)[c]
        /\ ArgumentsOf(Append(s, c), k) = ArgumentsOf(s, k) \o ArgumentOf(k)[c]
    BY <1>2, ChunkAppended
  <2>4. NamesOf(s, k) \in Seq(Id) /\ ArgumentsOf(s, k) \in Seq(Piece)
    BY ChunksTyped
  <2>5. /\ NamesOf(s, k) \o <<>> = NamesOf(s, k)
        /\ ArgumentsOf(s, k) \o <<>> = ArgumentsOf(s, k)
        /\ <<>> \o <<id>> = <<id>>
    BY <2>4, Single, ConcatEmptySeq
  <2>6. CASE k < n
    <3>1. k + 1 \in 1 .. n /\ k # n /\ k < n + 1
      BY <2>6
    <3>2. v[k + 1] = u[k + 1]
      BY <1>5, <3>1
    <3> QED BY <2>1, <2>2, <2>3, <2>5, <2>6, <3>1, <3>2
  <2>7. CASE k = n
    <3>1. ~(k < n) /\ k < n + 1 /\ v[k + 1] = b
      BY <1>5, <2>7
    <3>2. Parts(b) = <<>>
      BY <1>1 DEF Parts
    <3> QED BY <1>1, <2>1, <2>2, <2>3, <2>5, <2>7, <3>1, <3>2
  <2>8. CASE k > n
    <3>1. ~(k < n) /\ ~(k < n + 1) /\ k # n
      BY <2>8
    <3> QED BY <2>1, <2>2, <2>3, <2>5, <3>1
  <2>9. k < n \/ k = n \/ k > n
    OBVIOUS
  <2> QED BY <2>6, <2>7, <2>8, <2>9
<1> QED BY <1>3, <1>5, <1>6, <1>7 DEF Assembled

\* The last block and the ones before it.
LEMMA LastBlock ==
  ASSUME NEW bs \in Seq(Block), bs # <<>>
  PROVE  /\ Last(bs) \in Block
         /\ \E f \in Seq(Block) :
              /\ bs = Append(f, Last(bs))
              /\ \A n \in 0 .. Pieces :
                   [bs EXCEPT ![Len(bs)].n = n] = Append(f, [Last(bs) EXCEPT !.n = n])
<1>1. PICK f \in Seq(Block), b \in Block : bs = Append(f, b)
  BY SequenceEmptyOrAppend
<1>2. /\ Len(f) \in Nat /\ Len(bs) = Len(f) + 1
      /\ DOMAIN bs = 1 .. Len(f) + 1
      /\ \A i \in 1 .. Len(f) : bs[i] = f[i]
      /\ bs[Len(f) + 1] = b
  BY <1>1, AppendProperties, LenProperties
<1>3. Last(bs) = b
  BY <1>2 DEF Last
<1>4. ASSUME NEW n \in 0 .. Pieces
      PROVE  [bs EXCEPT ![Len(bs)].n = n] = Append(f, [b EXCEPT !.n = n])
  <2> DEFINE c == [b EXCEPT !.n = n]
             l == [bs EXCEPT ![Len(bs)].n = n]
             r == Append(f, c)
  <2>1. c \in Block
    BY DEF Block
  <2>2. Len(bs) \in 1 .. Len(bs) /\ l = [bs EXCEPT ![Len(bs)] = c]
    BY <1>2
  <2>3. /\ l \in Seq(Block) /\ Len(l) = Len(f) + 1
        /\ \A j \in 1 .. Len(f) + 1 : l[j] = IF j = Len(f) + 1 THEN c ELSE bs[j]
    <3> HIDE DEF c
    <3>1. /\ [bs EXCEPT ![Len(bs)] = c] \in Seq(Block)
          /\ Len([bs EXCEPT ![Len(bs)] = c]) = Len(bs)
          /\ \A j \in 1 .. Len(bs) :
               [bs EXCEPT ![Len(bs)] = c][j] = IF j = Len(bs) THEN c ELSE bs[j]
      BY <2>1, <2>2, ExceptSeq
    <3> HIDE DEF l
    <3> QED BY <1>2, <2>2, <3>1
  <2>4. /\ r \in Seq(Block) /\ Len(r) = Len(f) + 1
        /\ \A j \in 1 .. Len(f) : r[j] = f[j]
        /\ r[Len(f) + 1] = c
    <3> HIDE DEF c
    <3> QED BY <2>1, AppendProperties
  <2> HIDE DEF c, l, r
  <2>5. \A j \in 1 .. Len(l) : l[j] = r[j]
    BY <1>2, <2>3, <2>4
  <2>6. l = r
    BY <2>3, <2>4, <2>5, SeqEqual
  <2> QED BY <2>6 DEF l, r, c
<1> QED BY <1>1, <1>3, <1>4

LEMMA PartsGrow ==
  ASSUME NEW b \in Block, b.n < Pieces
  PROVE  /\ Parts(b) \in Seq(Piece)
         /\ Parts([b EXCEPT !.n = b.n + 1]) = Parts(b) \o <<[id |-> b.id, n |-> b.n + 1]>>
<1> DEFINE c == [b EXCEPT !.n = b.n + 1]
           p == [id |-> b.id, n |-> b.n + 1]
<1>1. b.n \in Nat /\ b.id \in Id /\ c.n = b.n + 1 /\ c.id = b.id
  BY BoundsAreNaturals DEF Block
<1>2. p \in Piece
  BY <1>1 DEF Piece
<1>3. Parts(b) \in Seq(Piece) /\ Len(Parts(b)) = b.n
  <2>1. Parts(b) \in [1 .. b.n -> Piece]
    BY <1>1 DEF Parts, Piece
  <2> QED BY <1>1, <2>1, SeqDef
<1>4. Parts(c) \in Seq(Piece) /\ Len(Parts(c)) = b.n + 1
  <2>1. Parts(c) \in [1 .. b.n + 1 -> Piece]
    BY <1>1 DEF Parts, Piece
  <2> QED BY <1>1, <2>1, SeqDef
<1>5. /\ Append(Parts(b), p) \in Seq(Piece)
      /\ Len(Append(Parts(b), p)) = b.n + 1
      /\ \A i \in 1 .. b.n : Append(Parts(b), p)[i] = Parts(b)[i]
      /\ Append(Parts(b), p)[b.n + 1] = p
      /\ Append(Parts(b), p) = Parts(b) \o <<p>>
  <2> HIDE DEF p
  <2> QED BY <1>2, <1>3, AppendProperties, AppendIsConcat
<1>6. \A i \in 1 .. b.n + 1 : Parts(c)[i] = Append(Parts(b), p)[i]
  BY <1>1, <1>5 DEF Parts
<1> HIDE DEF c, p
<1>7. Parts(c) = Append(Parts(b), p)
  BY <1>4, <1>5, <1>6, SeqEqual
<1> QED BY <1>3, <1>5, <1>7 DEF c, p

\* A text block streams a piece.
LEMMA AssembledTextDelta ==
  ASSUME NEW bs \in Seq(Block), NEW n, NEW s, NEW m \in 0 .. Pieces,
         bs # <<>>, Last(bs).type = "text", Assembled(bs, n, s)
  PROVE  Assembled([bs EXCEPT ![Len(bs)].n = m], n, s)
<1>1. Last(bs) \in Block
  BY LastBlock
<1>2. PICK f \in Seq(Block) :
        /\ bs = Append(f, Last(bs))
        /\ [bs EXCEPT ![Len(bs)].n = m] = Append(f, [Last(bs) EXCEPT !.n = m])
  BY LastBlock
<1> DEFINE c == [Last(bs) EXCEPT !.n = m]
<1>3. c \in Block /\ c.type = "text"
  BY <1>1 DEF Block
<1> HIDE DEF c
<1>4. Used(bs) = Used(f)
  <2>1. Used(Append(f, Last(bs))) = Used(f)
    BY <1>1, BlockAppended
  <2> QED BY <1>2, <2>1
<1>5. Used(Append(f, c)) = Used(f)
  BY <1>3, BlockAppended
<1> QED BY <1>2, <1>4, <1>5 DEF Assembled, c

\* A call streams a piece, which goes to the last index.
LEMMA AssembledArgument ==
  ASSUME NEW bs \in Seq(Block), NEW n \in Nat, NEW s \in Seq(Chunk),
         bs # <<>>, Last(bs).type = "tool_use", Last(bs).n < Pieces, Assembled(bs, n, s)
  PROVE  /\ n > 0
         /\ Assembled([bs EXCEPT ![Len(bs)].n = Last(bs).n + 1], n,
                      Append(s, [kind |-> "arguments", index |-> n - 1,
                                 piece |-> [id |-> Last(bs).id, n |-> Last(bs).n + 1]]))
<1> DEFINE b == Last(bs)
           d == [b EXCEPT !.n = b.n + 1]
           p == [id |-> b.id, n |-> b.n + 1]
           c == [kind |-> "arguments", index |-> n - 1, piece |-> p]
<1>1. b \in Block
  BY LastBlock
<1>2. b.n + 1 \in 0 .. Pieces
  BY <1>1, BoundsAreNaturals DEF Block
<1>3. PICK f \in Seq(Block) :
        bs = Append(f, b) /\ [bs EXCEPT ![Len(bs)].n = b.n + 1] = Append(f, d)
  BY <1>2, LastBlock
<1>4. /\ d \in Block /\ d.type = "tool_use" /\ d.id = b.id /\ b.type = "tool_use"
      /\ Parts(b) \in Seq(Piece) /\ Parts(d) = Parts(b) \o <<p>>
  BY <1>1, <1>2, PartsGrow DEF Block
<1>5. p \in Piece
  <2>1. b.n + 1 \in Nat /\ b.id \in Id
    BY <1>1, <1>2, BoundsAreNaturals DEF Block
  <2> QED BY <2>1 DEF Piece
<1>6. Used(f) \in Seq(Block) /\ Used(bs) = Append(Used(f), b)
  <2> HIDE DEF b
  <2> QED BY <1>1, <1>3, <1>4, BlocksTyped, BlockAppended
<1>7. Used(Append(f, d)) = Append(Used(f), d)
  <2> HIDE DEF d
  <2> QED BY <1>4, BlockAppended
<1> DEFINE u == Append(Used(f), b)
           v == Append(Used(f), d)
<1>8. /\ Len(Used(f)) = n - 1 /\ n - 1 \in Nat /\ Len(u) = n /\ Len(v) = n
      /\ \A k \in 1 .. n - 1 : u[k] = v[k]
      /\ u[n] = b /\ v[n] = d
  <2> HIDE DEF b, d
  <2>1. Len(Used(f)) \in Nat
    BY <1>6, LenProperties
  <2>2. Len(u) = Len(Used(f)) + 1 /\ Len(u) = n
    BY <1>1, <1>6, AppendProperties DEF Assembled
  <2>3. Len(Used(f)) = n - 1
    BY <2>1, <2>2
  <2>4. /\ \A k \in 1 .. n - 1 : u[k] = Used(f)[k]
        /\ u[(n - 1) + 1] = b
    BY <1>1, <1>6, <2>3, AppendProperties
  <2>5. /\ Len(v) = (n - 1) + 1
        /\ \A k \in 1 .. n - 1 : v[k] = Used(f)[k]
        /\ v[(n - 1) + 1] = d
    BY <1>4, <1>6, <2>3, AppendProperties
  <2>6. (n - 1) + 1 = n
    OBVIOUS
  <2> QED BY <2>1, <2>2, <2>3, <2>4, <2>5, <2>6
<1>9. c \in Chunk /\ c.kind = "arguments" /\ c.index = n - 1 /\ c.piece = p
  BY <1>5, <1>8 DEF Chunk
<1>10. Cardinality(HeadersOf(Append(s, c))) = n
  <2> HIDE DEF c
  <2> QED BY <1>9, HeadersCounted DEF Assembled
<1>11. ASSUME NEW k \in Nat
       PROVE  /\ NamesOf(Append(s, c), k) = IF k < n THEN <<v[k + 1].id>> ELSE <<>>
              /\ ArgumentsOf(Append(s, c), k) = IF k < n THEN Parts(v[k + 1]) ELSE <<>>
  <2>1. /\ NamesOf(s, k) = IF k < n THEN <<u[k + 1].id>> ELSE <<>>
        /\ ArgumentsOf(s, k) = IF k < n THEN Parts(u[k + 1]) ELSE <<>>
    BY <1>6 DEF Assembled
  <2>2. /\ NameOf(k)[c] = <<>>
        /\ ArgumentOf(k)[c] = IF k = n - 1 THEN <<p>> ELSE <<>>
    BY <1>9 DEF NameOf, ArgumentOf
  <2>3. /\ NamesOf(Append(s, c), k) = NamesOf(s, k) \o NameOf(k)[c]
        /\ ArgumentsOf(Append(s, c), k) = ArgumentsOf(s, k) \o ArgumentOf(k)[c]
    <3> HIDE DEF c
    <3> QED BY <1>9, ChunkAppended
  <2>4. NamesOf(s, k) \in Seq(Id) /\ ArgumentsOf(s, k) \in Seq(Piece)
    BY ChunksTyped
  <2>5. /\ NamesOf(s, k) \o <<>> = NamesOf(s, k)
        /\ ArgumentsOf(s, k) \o <<>> = ArgumentsOf(s, k)
    BY <2>4, ConcatEmptySeq
  <2> HIDE DEF u, v, c, b, d, p
  <2>6. CASE k < n - 1
    <3>1. k + 1 \in 1 .. n - 1 /\ k # n - 1 /\ k < n
      BY <1>8, <2>6
    <3>2. v[k + 1] = u[k + 1]
      BY <1>8, <3>1
    <3> QED BY <2>1, <2>2, <2>3, <2>5, <3>1, <3>2
  <2>7. CASE k = n - 1
    <3>1. k < n /\ k + 1 = n
      BY <1>8, <2>7
    <3> QED BY <1>4, <1>8, <2>1, <2>2, <2>3, <2>5, <2>7, <3>1
  <2>8. CASE k > n - 1
    <3>1. ~(k < n) /\ k # n - 1
      BY <1>8, <2>8
    <3> QED BY <2>1, <2>2, <2>3, <2>5, <3>1
  <2>9. k < n - 1 \/ k = n - 1 \/ k > n - 1
    OBVIOUS
  <2> QED BY <2>6, <2>7, <2>8, <2>9
<1>12. Assembled(Append(f, d), n, Append(s, c))
  <2> HIDE DEF d, c, b
  <2> QED BY <1>7, <1>8, <1>10, <1>11 DEF Assembled
<1>13. Assembled([bs EXCEPT ![Len(bs)].n = b.n + 1], n, Append(s, c))
  <2> HIDE DEF d, c, b
  <2> QED BY <1>3, <1>12
<1>14. n > 0
  BY <1>8
<1> QED BY <1>13, <1>14, Zenon

\* The calls the client has in the end.
LEMMA CallsAssembled ==
  ASSUME NEW bs, NEW n \in Nat, NEW s, Assembled(bs, n, s), Used(bs) \in Seq(Block)
  PROVE  [k \in 1 .. Cardinality(HeadersOf(s)) |->
           [id |-> NamesOf(s, k - 1)[1], args |-> ArgumentsOf(s, k - 1)]] = CallsOf(bs)
<1>1. Cardinality(HeadersOf(s)) = n /\ DOMAIN Used(bs) = 1 .. n
  BY LenProperties DEF Assembled
<1>2. ASSUME NEW k \in 1 .. n
      PROVE  /\ NamesOf(s, k - 1)[1] = Used(bs)[k].id
             /\ ArgumentsOf(s, k - 1) = Parts(Used(bs)[k])
  <2>1. k - 1 \in Nat /\ k - 1 < n /\ (k - 1) + 1 = k
    OBVIOUS
  <2>2. /\ NamesOf(s, k - 1) = <<Used(bs)[k].id>>
        /\ ArgumentsOf(s, k - 1) = Parts(Used(bs)[k])
    BY <2>1 DEF Assembled
  <2> QED BY <2>2
<1> QED BY <1>1, <1>2 DEF CallsOf

-----------------------------------------------------------------------------
\* The translation of a conversation, turn by turn.

EntryOf == [m \in Msg |-> Entry(m)]
PartOf  == [m \in Msg |-> IF m.role = "system" THEN <<>> ELSE <<Entry(m)>>]
UsesOf  == [p \in Part |-> p.uses]

LEMMA DecodedTyped ==
  ASSUME NEW args \in Seq(Piece)
  PROVE  Decoded(args) \in Id \cup {None}
<1>1. args # <<>> => args[1] \in Piece
  BY EmptySeq, LenProperties
<1> QED BY <1>1 DEF Decoded, Piece

\* The arguments of a call parse when the whole block was streamed.
LEMMA DecodedParts ==
  ASSUME NEW b \in Block
  PROVE  Decoded(Parts(b)) = IF b.n = Pieces THEN b.id ELSE None
<1>1. b.n \in Nat /\ Pieces \in Nat \ {0}
  BY BoundsAreNaturals DEF Block
<1>2. CASE b.n = 0
  <2>1. Parts(b) = <<>>
    BY <1>2 DEF Parts
  <2> QED BY <1>1, <1>2, <2>1 DEF Decoded
<1>3. CASE b.n # 0
  <2>1. 1 \in 1 .. b.n /\ DOMAIN Parts(b) = 1 .. b.n
    BY <1>1, <1>3 DEF Parts
  <2>2. Parts(b)[1].id = b.id
    BY <2>1 DEF Parts
  <2>3. Parts(b) # <<>>
    <3>1. DOMAIN <<>> = {}
      OBVIOUS
    <3> QED BY <2>1, <3>1
  <2>4. Parts(b) = AllPieces(b.id) <=> b.n = Pieces
    <3>1. DOMAIN AllPieces(b.id) = 1 .. Pieces
      BY DEF AllPieces
    <3>2. b.n # Pieces => 1 .. b.n # 1 .. Pieces
      BY <1>1, <1>3
    <3>3. b.n = Pieces => Parts(b) = AllPieces(b.id)
      BY DEF Parts, AllPieces
    <3> QED BY <2>1, <3>1, <3>2, <3>3
  <2> QED BY <2>2, <2>3, <2>4 DEF Decoded
<1> QED BY <1>2, <1>3

LEMMA EntryTyped ==
  ASSUME NEW m \in Msg
  PROVE  Entry(m) \in Part
<1>1. [i \in DOMAIN m.calls |->
         [id |-> m.calls[i].id, input |-> Decoded(m.calls[i].args)]] \in Seq(Use)
  <2>1. /\ m.calls \in Seq(Call) /\ DOMAIN m.calls = 1 .. Len(m.calls)
        /\ Len(m.calls) \in Nat
    BY LenProperties DEF Msg
  <2>2. \A i \in DOMAIN m.calls : m.calls[i].id \in Id /\ m.calls[i].args \in Seq(Piece)
    <3>1. \A i \in DOMAIN m.calls : m.calls[i] \in Call
      BY <2>1, LenProperties
    <3> QED BY <3>1 DEF Call
  <2>3. \A i \in DOMAIN m.calls :
          [id |-> m.calls[i].id, input |-> Decoded(m.calls[i].args)] \in Use
    BY <2>2, DecodedTyped DEF Use
  <2> QED BY <2>1, <2>3, SeqDef
<1>2. <<>> \in Seq(Use) /\ <<>> \in Seq(Piece)
  BY EmptySeq
<1>3. /\ m.role \in {"system", "user", "assistant", "tool"}
      /\ m.text \in Seq(Piece) /\ m.answers \in Id \cup {None}
  BY DEF Msg
<1>4. CASE m.answers # None
  BY <1>2, <1>3, <1>4 DEF Entry, Part
<1>5. CASE m.answers = None /\ m.calls # <<>>
  BY <1>1, <1>2, <1>3, <1>5 DEF Entry, Part
<1>6. CASE m.answers = None /\ m.calls = <<>>
  BY <1>2, <1>3, <1>6 DEF Entry, Part
<1> QED BY <1>4, <1>5, <1>6

LEMMA TranslationTyped ==
  /\ EntryOf \in [Msg -> Part]
  /\ PartOf \in [Msg -> Seq(Part)]
  /\ UsesOf \in [Part -> Seq(Use)]
<1>1. EntryOf \in [Msg -> Part]
  BY EntryTyped DEF EntryOf
<1>2. PartOf \in [Msg -> Seq(Part)]
  BY EntryTyped, EmptySeq, Single DEF PartOf
<1>3. UsesOf \in [Part -> Seq(Use)]
  BY DEF UsesOf, Part
<1> QED BY <1>1, <1>2, <1>3

LEMMA TranslationGathered ==
  ASSUME NEW c \in Seq(Msg)
  PROVE  /\ Translated(c).messages = Gathered(c, PartOf)
         /\ Gathered(c, PartOf) \in Seq(Part)
<1>1. \A i \in DOMAIN c : c[i] \in Msg
  BY LenProperties
<1>2. [i \in DOMAIN c |-> IF c[i].role = "system" THEN <<>> ELSE <<Entry(c[i])>>]
        = [i \in DOMAIN c |-> PartOf[c[i]]]
  BY <1>1 DEF PartOf
<1>3. Gathered(c, PartOf) \in Seq(Part)
  BY TranslationTyped, GatheredTyped
<1> QED BY <1>2, <1>3 DEF Translated, Gathered

LEMMA UsesGathered ==
  ASSUME NEW ms \in Seq(Part)
  PROVE  FlattenSeq([i \in DOMAIN ms |-> ms[i].uses]) = Gathered(ms, UsesOf)
<1>1. \A i \in DOMAIN ms : ms[i] \in Part
  BY LenProperties
<1>2. [i \in DOMAIN ms |-> ms[i].uses] = [i \in DOMAIN ms |-> UsesOf[ms[i]]]
  BY <1>1 DEF UsesOf
<1> QED BY <1>2 DEF Gathered

LEMMA GatheredOne ==
  ASSUME NEW T, NEW U, NEW f \in [T -> Seq(U)], NEW e \in T
  PROVE  Gathered(<<e>>, f) = f[e]
<1>1. <<>> \in Seq(T) /\ Append(<<>>, e) = <<e>>
  BY EmptySeq
<1>2. Gathered(Append(<<>>, e), f) = Gathered(<<>>, f) \o f[e]
  <2>1. \A s \in Seq(T) : Gathered(Append(s, e), f) = Gathered(s, f) \o f[e]
    BY GatheredAppend
  <2> QED BY <1>1, <2>1
<1>3. <<>> \o f[e] = f[e]
  BY ConcatEmptySeq
<1> QED BY <1>1, <1>2, <1>3, GatheredEmpty

\* What a turn puts behind a conversation: the assistant's message and the rest.
Reply(text, calls) == [Message("assistant", text) EXCEPT !.calls = calls]
Rest(calls) ==
  IF calls = <<>> THEN <<Message("user", <<>>)>>
  ELSE [i \in DOMAIN calls |-> [Message("tool", <<>>) EXCEPT !.answers = calls[i].id]]

LEMMA TurnTyped ==
  ASSUME NEW text \in Seq(Piece), NEW calls \in Seq(Call)
  PROVE  /\ Turn(text, calls) = <<Reply(text, calls)>> \o Rest(calls)
         /\ Reply(text, calls) \in Msg /\ Rest(calls) \in Seq(Msg)
         /\ \A i \in DOMAIN Rest(calls) :
              /\ Rest(calls)[i].role # "system" /\ Rest(calls)[i].calls = <<>>
              /\ Rest(calls)[i].answers = None
                   \/ \E k \in DOMAIN calls : Rest(calls)[i].answers = calls[k].id
<1>1. Turn(text, calls) = <<Reply(text, calls)>> \o Rest(calls)
  BY DEF Turn, Reply, Rest
<1>2. <<>> \in Seq(Piece) /\ <<>> \in Seq(Call)
  BY EmptySeq
<1>3. Reply(text, calls) \in Msg
  BY <1>2 DEF Reply, Message, Msg
<1>4. CASE calls = <<>>
  <2> DEFINE u == Message("user", <<>>)
  <2>1. u \in Msg /\ u.role # "system" /\ u.calls = <<>> /\ u.answers = None
    BY <1>2 DEF Message, Msg
  <2> HIDE DEF u
  <2>2. Rest(calls) = <<u>> /\ <<u>> \in Seq(Msg) /\ DOMAIN <<u>> = {1} /\ <<u>>[1] = u
    BY <1>4, <2>1 DEF Rest, u
  <2> QED BY <1>1, <1>3, <2>1, <2>2
<1>5. CASE calls # <<>>
  <2>1. DOMAIN calls = 1 .. Len(calls) /\ Len(calls) \in Nat
    BY LenProperties
  <2>2. \A i \in DOMAIN calls : calls[i].id \in Id
    <3>1. \A i \in DOMAIN calls : calls[i] \in Call
      BY <2>1, LenProperties
    <3> QED BY <3>1 DEF Call
  <2>3. Rest(calls) = [i \in DOMAIN calls |-> [Message("tool", <<>>) EXCEPT !.answers = calls[i].id]]
    BY <1>5 DEF Rest
  <2>4. \A i \in DOMAIN calls :
          /\ Rest(calls)[i] \in Msg
          /\ Rest(calls)[i].role = "tool" /\ Rest(calls)[i].calls = <<>>
          /\ Rest(calls)[i].answers = calls[i].id
    <3> DEFINE m(id) == [Message("tool", <<>>) EXCEPT !.answers = id]
    <3>1. ASSUME NEW id \in Id
          PROVE  m(id) \in Msg /\ m(id).role = "tool" /\ m(id).calls = <<>> /\ m(id).answers = id
      BY <1>2 DEF Message, Msg
    <3>2. ASSUME NEW i \in DOMAIN calls
          PROVE  Rest(calls)[i] = m(calls[i].id)
      BY <2>3
    <3> HIDE DEF m
    <3> QED BY <2>2, <3>1, <3>2
  <2>5. Rest(calls) \in Seq(Msg) /\ DOMAIN Rest(calls) = DOMAIN calls
    BY <2>1, <2>3, <2>4, SeqDef
  <2> QED BY <1>1, <1>3, <2>4, <2>5
<1> QED BY <1>4, <1>5

LEMMA TurnTranslated ==
  ASSUME NEW text \in Seq(Piece), NEW calls \in Seq(Call)
  PROVE  /\ Turn(text, calls) \in Seq(Msg)
         /\ \E e \in Part, r \in Seq(Part) :
              /\ Gathered(Turn(text, calls), PartOf) = <<e>> \o r
              /\ e.result = None
              /\ e.uses = [k \in DOMAIN calls |->
                            [id |-> calls[k].id, input |-> Decoded(calls[k].args)]]
              /\ \A i \in DOMAIN r :
                   /\ r[i].uses = <<>>
                   /\ r[i].result # None => \E k \in DOMAIN calls : r[i].result = calls[k].id
<1> DEFINE a == Reply(text, calls)
           t == Rest(calls)
           e == Entry(a)
           r == [i \in DOMAIN t |-> EntryOf[t[i]]]
<1>1. /\ Turn(text, calls) = <<a>> \o t /\ a \in Msg /\ t \in Seq(Msg)
      /\ \A i \in DOMAIN t :
           /\ t[i].role # "system" /\ t[i].calls = <<>>
           /\ t[i].answers = None \/ \E k \in DOMAIN calls : t[i].answers = calls[k].id
  BY TurnTyped
<1>2. <<a>> \in Seq(Msg)
  BY <1>1, Single
<1>3. Turn(text, calls) \in Seq(Msg)
  <2> HIDE DEF a, t
  <2> QED BY <1>1, <1>2, ConcatProperties
<1>4. Gathered(<<a>> \o t, PartOf) = Gathered(<<a>>, PartOf) \o Gathered(t, PartOf)
  <2> HIDE DEF a, t
  <2>1. PartOf \in [Msg -> Seq(Part)]
    BY TranslationTyped
  <2>2. <<a>> \in Seq(Msg) /\ t \in Seq(Msg)
    BY <1>1, <1>2
  <2>3. \A p, q \in Seq(Msg) :
          Gathered(p \o q, PartOf) = Gathered(p, PartOf) \o Gathered(q, PartOf)
    BY <2>1, GatheredConcat
  <2> QED BY <2>2, <2>3, Zenon
<1>5. Gathered(<<a>>, PartOf) = <<e>>
  <2>1. a.role # "system"
    BY DEF Reply, Message
  <2>2. PartOf[a] = <<e>>
    BY <1>1, <2>1 DEF PartOf
  <2>3. Gathered(<<a>>, PartOf) = PartOf[a]
    <3> HIDE DEF a
    <3>1. PartOf \in [Msg -> Seq(Part)]
      BY TranslationTyped
    <3> QED BY <1>1, <3>1, GatheredOne
  <2> QED BY <2>2, <2>3
<1>6. Gathered(t, PartOf) = r
  <2>1. \A i \in DOMAIN t : t[i] \in Msg
    BY <1>1, LenProperties
  <2>2. \A i \in DOMAIN t : PartOf[t[i]] = <<EntryOf[t[i]]>>
    <3> HIDE DEF t
    <3> QED BY <1>1, <2>1 DEF PartOf, EntryOf
  <2>3. PartOf \in [Msg -> Seq(Part)] /\ EntryOf \in [Msg -> Part]
    BY TranslationTyped
  <2>4. t \in Seq(Msg)
    BY <1>1
  <2> HIDE DEF t
  <2>5. \A p \in Seq(Msg) : (\A i \in DOMAIN p : PartOf[p[i]] = <<EntryOf[p[i]]>>)
          => Gathered(p, PartOf) = [i \in DOMAIN p |-> EntryOf[p[i]]]
    <3> SUFFICES ASSUME NEW p \in Seq(Msg),
                        \A i \in DOMAIN p : PartOf[p[i]] = <<EntryOf[p[i]]>>
                 PROVE  Gathered(p, PartOf) = [i \in DOMAIN p |-> EntryOf[p[i]]]
      OBVIOUS
    <3> DEFINE Singles(T, U) ==
          \A f \in [T -> Seq(U)], g \in [T -> U], s \in Seq(T) :
            (\A i \in DOMAIN s : f[s[i]] = <<g[s[i]]>>)
              => Gathered(s, f) = [i \in DOMAIN s |-> g[s[i]]]
    <3>1. \A T, U : Singles(T, U)
      BY GatheredSingles
    <3>2. Singles(Msg, Part)
      <4> HIDE DEF Singles
      <4> QED BY <3>1
    <3> QED BY <2>3, <3>2, Zenon
  <2> QED BY <2>2, <2>4, <2>5, Zenon
<1>7. e \in Part /\ r \in Seq(Part)
  <2>1. Gathered(t, PartOf) \in Seq(Part)
    BY <1>1, TranslationGathered
  <2> QED BY <1>1, <1>6, <2>1, EntryTyped
<1>8. /\ e.result = None
      /\ e.uses = [k \in DOMAIN calls |->
                    [id |-> calls[k].id, input |-> Decoded(calls[k].args)]]
  <2>1. a.answers = None /\ a.calls = calls
    BY DEF Reply, Message
  <2> HIDE DEF a
  <2>2. CASE calls # <<>>
    BY <2>1, <2>2 DEF Entry
  <2>3. CASE calls = <<>>
    <3>1. [k \in DOMAIN calls |-> [id |-> calls[k].id, input |-> Decoded(calls[k].args)]] = <<>>
      BY <2>3
    <3>2. e.uses = <<>> /\ e.result = None
      BY <2>1, <2>3 DEF Entry
    <3> QED BY <3>1, <3>2
  <2> QED BY <2>2, <2>3
<1>9. ASSUME NEW i \in DOMAIN r
      PROVE  /\ r[i].uses = <<>>
             /\ r[i].result # None => \E k \in DOMAIN calls : r[i].result = calls[k].id
  <2>1. i \in DOMAIN t /\ t[i] \in Msg
    BY <1>1, LenProperties
  <2>2. r[i] = Entry(t[i])
    BY <2>1 DEF EntryOf
  <2>3. Entry(t[i]).uses = <<>> /\ Entry(t[i]).result = t[i].answers
    <3>1. t[i].calls = <<>>
      BY <1>1, <2>1
    <3> HIDE DEF t
    <3> QED BY <3>1 DEF Entry
  <2> HIDE DEF r, t
  <2> QED BY <1>1, <2>1, <2>2, <2>3
<1> HIDE DEF e, r, a, t
<1> QED BY <1>1, <1>3, <1>4, <1>5, <1>6, <1>7, <1>8, <1>9

LEMMA UsesGrow ==
  ASSUME NEW ms \in Seq(Part), NEW e \in Part, NEW r \in Seq(Part),
         \A i \in DOMAIN r : r[i].uses = <<>>
  PROVE  Gathered(ms \o (<<e>> \o r), UsesOf) = Gathered(ms, UsesOf) \o e.uses
<1>1. UsesOf \in [Part -> Seq(Use)] /\ UsesOf[e] = e.uses /\ e.uses \in Seq(Use)
  BY TranslationTyped DEF UsesOf, Part
<1>2. <<e>> \in Seq(Part) /\ <<e>> \o r \in Seq(Part)
  BY Single, ConcatProperties
<1>3. \A p, q \in Seq(Part) :
        Gathered(p \o q, UsesOf) = Gathered(p, UsesOf) \o Gathered(q, UsesOf)
  BY <1>1, GatheredConcat
<1>4. Gathered(<<e>>, UsesOf) = e.uses
  BY <1>1, GatheredOne
<1>5. Gathered(r, UsesOf) = <<>>
  <2>1. \A i \in DOMAIN r : UsesOf[r[i]] = <<>>
    BY LenProperties DEF UsesOf
  <2> QED BY <1>1, <2>1, GatheredNothing
<1>6. e.uses \o <<>> = e.uses
  BY <1>1, ConcatEmptySeq
<1>7. Gathered(<<e>> \o r, UsesOf) = Gathered(<<e>>, UsesOf) \o Gathered(r, UsesOf)
  BY <1>2, <1>3, Zenon
<1>8. Gathered(ms \o (<<e>> \o r), UsesOf) = Gathered(ms, UsesOf) \o Gathered(<<e>> \o r, UsesOf)
  BY <1>2, <1>3, Zenon
<1> QED BY <1>4, <1>5, <1>6, <1>7, <1>8

LEMMA AnsweredGrows ==
  ASSUME NEW ms \in Seq(Part), NEW e \in Part, NEW r \in Seq(Part),
         Answered(ms), e.result = None,
         \A i \in DOMAIN r : r[i].result # None =>
           \E k \in DOMAIN e.uses : e.uses[k].id = r[i].result
  PROVE  Answered(ms \o (<<e>> \o r))
<1> DEFINE er == <<e>> \o r
           t == ms \o er
           m == Len(ms)
<1>1. /\ m \in Nat /\ Len(r) \in Nat /\ DOMAIN ms = 1 .. m /\ DOMAIN r = 1 .. Len(r)
  BY LenProperties
<1>2. /\ er \in Seq(Part) /\ Len(er) = 1 + Len(r)
      /\ er[1] = e /\ \A i \in 1 .. Len(r) : er[i + 1] = r[i]
  <2>1. <<e>> \in Seq(Part) /\ Len(<<e>>) = 1 /\ <<e>>[1] = e
    BY Single
  <2>2. /\ er \in Seq(Part) /\ Len(er) = 1 + Len(r)
        /\ \A i \in 1 .. 1 + Len(r) : er[i] = IF i <= 1 THEN <<e>>[i] ELSE r[i - 1]
    <3>1. /\ er \in Seq(Part) /\ Len(er) = Len(<<e>>) + Len(r)
          /\ \A i \in 1 .. Len(<<e>>) + Len(r) :
               er[i] = IF i <= Len(<<e>>) THEN <<e>>[i] ELSE r[i - Len(<<e>>)]
      BY <2>1, ConcatProperties
    <3> HIDE DEF er
    <3> QED BY <2>1, <3>1
  <2> HIDE DEF er
  <2>3. ASSUME NEW i \in 1 .. Len(r) PROVE er[i + 1] = r[i]
    <3>1. i + 1 \in 1 .. 1 + Len(r) /\ ~(i + 1 <= 1) /\ (i + 1) - 1 = i
      BY <1>1
    <3> QED BY <2>2, <3>1
  <2>4. 1 \in 1 .. 1 + Len(r) /\ 1 <= 1
    BY <1>1
  <2> QED BY <2>1, <2>2, <2>3, <2>4
<1> HIDE DEF er
<1>3. /\ t \in Seq(Part) /\ Len(t) = m + Len(er)
      /\ \A i \in 1 .. m + Len(er) : t[i] = IF i <= m THEN ms[i] ELSE er[i - m]
  <2>1. er \in Seq(Part)
    BY <1>2
  <2> QED BY ONLY <2>1, ConcatProperties
<1> HIDE DEF t, m
<1>4. t[m + 1] = e /\ m + 1 \in 1 .. Len(t)
  <2>1. m + 1 \in 1 .. m + Len(er) /\ ~(m + 1 <= m) /\ (m + 1) - m = 1
    BY <1>1, <1>2
  <2> QED BY <1>2, <1>3, <2>1
<1>5. ASSUME NEW i \in DOMAIN t, t[i].result # None
      PROVE  \E j \in 1 .. i - 1 : \E k \in DOMAIN t[j].uses : t[j].uses[k].id = t[i].result
  <2>1. i \in 1 .. m + (1 + Len(r))
    BY <1>2, <1>3, LenProperties
  <2>2. CASE i <= m
    <3>1. t[i] = ms[i] /\ i \in DOMAIN ms
      BY <1>1, <1>2, <1>3, <2>1, <2>2
    <3>2. PICK j \in 1 .. i - 1 : \E k \in DOMAIN ms[j].uses : ms[j].uses[k].id = ms[i].result
      BY <1>5, <3>1 DEF Answered
    <3>3. j \in 1 .. m + Len(er) /\ j <= m
      BY <1>1, <1>2, <2>1, <2>2
    <3>4. t[j] = ms[j]
      BY <1>3, <3>3
    <3> QED BY <3>1, <3>2, <3>4
  <2>3. CASE i = m + 1
    BY <1>4, <1>5, <2>3
  <2>4. CASE i > m + 1
    <3> DEFINE q == i - (m + 1)
    <3>1. q \in 1 .. Len(r) /\ i \in 1 .. m + Len(er) /\ ~(i <= m) /\ i - m = q + 1
      BY <1>1, <1>2, <2>1, <2>4
    <3> HIDE DEF q
    <3>2. t[i] = r[q]
      BY <1>2, <1>3, <3>1
    <3>3. PICK k \in DOMAIN e.uses : e.uses[k].id = r[q].result
      BY <1>1, <1>5, <3>1, <3>2
    <3>4. m + 1 \in 1 .. i - 1
      BY <1>1, <2>1, <2>4
    <3> QED BY <1>4, <3>2, <3>3, <3>4
  <2>5. i <= m \/ i = m + 1 \/ i > m + 1
    BY <1>1, <2>1
  <2> QED BY <2>2, <2>3, <2>4, <2>5
<1> QED BY <1>5 DEF Answered, t, er, m

LEMMA ExpectedGrows ==
  ASSUME NEW sp \in Seq(Spoken), NEW tu \in Seq(Spoken)
  PROVE  Expected(sp \o tu) = Expected(sp) \o Expected(tu)
<1> DEFINE x(u) == [id |-> u.id, input |-> IF u.whole THEN u.id ELSE None]
           st == sp \o tu
<1>1. \A u \in Spoken : x(u) \in Use
  BY DEF Spoken, Use
<1> HIDE DEF x
<1>2. ASSUME NEW s \in Seq(Spoken)
      PROVE  /\ Expected(s) \in Seq(Use) /\ Len(Expected(s)) = Len(s) /\ Len(s) \in Nat
             /\ \A i \in 1 .. Len(s) : Expected(s)[i] = x(s[i])
  <2>1. DOMAIN s = 1 .. Len(s) /\ Len(s) \in Nat /\ \A i \in 1 .. Len(s) : s[i] \in Spoken
    BY LenProperties
  <2>2. Expected(s) = [i \in 1 .. Len(s) |-> x(s[i])]
    BY <2>1 DEF Expected, x
  <2>3. [i \in 1 .. Len(s) |-> x(s[i])] \in [1 .. Len(s) -> Use]
    BY <1>1, <2>1
  <2> QED BY <2>1, <2>2, <2>3, SeqDef
<1>3. /\ st \in Seq(Spoken) /\ Len(st) = Len(sp) + Len(tu)
      /\ \A i \in 1 .. Len(sp) + Len(tu) :
           st[i] = IF i <= Len(sp) THEN sp[i] ELSE tu[i - Len(sp)]
  BY ConcatProperties
<1> HIDE DEF st
<1> DEFINE l == Expected(st)
           r == Expected(sp) \o Expected(tu)
<1>4. /\ r \in Seq(Use) /\ Len(r) = Len(sp) + Len(tu)
      /\ \A i \in 1 .. Len(sp) + Len(tu) :
           r[i] = IF i <= Len(sp) THEN Expected(sp)[i] ELSE Expected(tu)[i - Len(sp)]
  <2>1. /\ Expected(sp) \in Seq(Use) /\ Len(Expected(sp)) = Len(sp)
        /\ Expected(tu) \in Seq(Use) /\ Len(Expected(tu)) = Len(tu)
    BY <1>2
  <2>2. /\ r \in Seq(Use) /\ Len(r) = Len(Expected(sp)) + Len(Expected(tu))
        /\ \A i \in 1 .. Len(Expected(sp)) + Len(Expected(tu)) :
             r[i] = IF i <= Len(Expected(sp)) THEN Expected(sp)[i]
                    ELSE Expected(tu)[i - Len(Expected(sp))]
    BY ONLY <2>1, ConcatProperties
  <2> HIDE DEF r
  <2> QED BY <2>1, <2>2
<1>5. /\ l \in Seq(Use) /\ Len(l) = Len(sp) + Len(tu)
      /\ \A i \in 1 .. Len(sp) + Len(tu) : l[i] = x(st[i])
  BY <1>2, <1>3
<1>6. ASSUME NEW i \in 1 .. Len(sp) + Len(tu) PROVE l[i] = r[i]
  <2>1. CASE i <= Len(sp)
    <3>1. i \in 1 .. Len(sp)
      BY <1>2, <2>1
    <3> HIDE DEF l, r
    <3> QED BY <1>2, <1>3, <1>4, <1>5, <2>1, <3>1
  <2>2. CASE ~(i <= Len(sp))
    <3>1. i - Len(sp) \in 1 .. Len(tu)
      BY <1>2, <2>2
    <3> HIDE DEF l, r
    <3> QED BY <1>2, <1>3, <1>4, <1>5, <2>2, <3>1
  <2> QED BY <2>1, <2>2
<1> HIDE DEF l, r
<1>7. l = r
  BY <1>4, <1>5, <1>6, SeqEqual
<1> QED BY <1>7 DEF l, r, st

LEMMA CallsOfBlocks ==
  ASSUME NEW bs \in Seq(Block)
  PROVE  /\ CallsOf(bs) \in Seq(Call) /\ ToolUses(bs) \in Seq(Spoken)
         /\ [k \in DOMAIN CallsOf(bs) |->
               [id |-> CallsOf(bs)[k].id, input |-> Decoded(CallsOf(bs)[k].args)]]
              = Expected(ToolUses(bs))
<1> DEFINE u == Used(bs)
<1>1. /\ u \in Seq(Block) /\ Len(u) \in Nat /\ DOMAIN u = 1 .. Len(u)
      /\ \A k \in 1 .. Len(u) : u[k] \in Block
  BY BlocksTyped, LenProperties
<1> HIDE DEF u
<1>2. \A b \in Block : b.id \in Id /\ Parts(b) \in Seq(Piece)
  <2>1. ASSUME NEW b \in Block PROVE b.id \in Id /\ Parts(b) \in Seq(Piece)
    <3>1. b.n \in Nat /\ b.id \in Id
      BY BoundsAreNaturals DEF Block
    <3>2. Parts(b) \in [1 .. b.n -> Piece]
      BY <3>1 DEF Parts, Piece
    <3> QED BY <3>1, <3>2, SeqDef
  <2> QED BY <2>1
<1>3. CallsOf(bs) = [k \in 1 .. Len(u) |-> [id |-> u[k].id, args |-> Parts(u[k])]]
  BY <1>1 DEF CallsOf, u
<1>4. CallsOf(bs) \in Seq(Call)
  <2>1. \A k \in 1 .. Len(u) : [id |-> u[k].id, args |-> Parts(u[k])] \in Call
    BY <1>1, <1>2 DEF Call
  <2> QED BY <1>1, <1>3, <2>1, SeqDef
<1>5. ToolUses(bs) = [k \in 1 .. Len(u) |-> [id |-> u[k].id, whole |-> u[k].n = Pieces]]
  BY <1>1 DEF ToolUses, u
<1>6. ToolUses(bs) \in Seq(Spoken)
  <2>1. \A k \in 1 .. Len(u) : [id |-> u[k].id, whole |-> u[k].n = Pieces] \in Spoken
    BY <1>1, <1>2 DEF Spoken
  <2> QED BY <1>1, <1>5, <2>1, SeqDef
<1>7. Expected(ToolUses(bs))
        = [k \in 1 .. Len(u) |->
            [id |-> u[k].id, input |-> IF u[k].n = Pieces THEN u[k].id ELSE None]]
  <2> DEFINE w == [k \in 1 .. Len(u) |-> [id |-> u[k].id, whole |-> u[k].n = Pieces]]
  <2>1. DOMAIN w = 1 .. Len(u)
    OBVIOUS
  <2>2. \A k \in 1 .. Len(u) : w[k].id = u[k].id /\ (w[k].whole <=> u[k].n = Pieces)
    OBVIOUS
  <2> HIDE DEF w
  <2>3. Expected(w)
          = [k \in 1 .. Len(u) |->
              [id |-> u[k].id, input |-> IF u[k].n = Pieces THEN u[k].id ELSE None]]
    BY <2>1, <2>2 DEF Expected
  <2> QED BY <1>5, <2>3 DEF w
<1>8. \A k \in 1 .. Len(u) :
        Decoded(Parts(u[k])) = IF u[k].n = Pieces THEN u[k].id ELSE None
  BY <1>1, DecodedParts
<1>9. [k \in DOMAIN CallsOf(bs) |->
        [id |-> CallsOf(bs)[k].id, input |-> Decoded(CallsOf(bs)[k].args)]]
        = [k \in 1 .. Len(u) |-> [id |-> u[k].id, input |-> Decoded(Parts(u[k]))]]
  BY <1>3
<1> QED BY <1>4, <1>6, <1>7, <1>8, <1>9

\* A turn taken into the conversation keeps the account of the calls.
LEMMA TurnKeepsCalls ==
  ASSUME NEW c \in Seq(Msg), NEW sp \in Seq(Spoken), NEW bs \in Seq(Block),
         NEW text \in Seq(Piece), CallsKept(c, sp)
  PROVE  /\ c \o Turn(text, CallsOf(bs)) \in Seq(Msg)
         /\ sp \o ToolUses(bs) \in Seq(Spoken)
         /\ CallsKept(c \o Turn(text, CallsOf(bs)), sp \o ToolUses(bs))
<1> DEFINE calls == CallsOf(bs)
           t == Turn(text, calls)
           ms == Gathered(c, PartOf)
<1>1. calls \in Seq(Call) /\ ToolUses(bs) \in Seq(Spoken)
  BY CallsOfBlocks
<1>2. t \in Seq(Msg)
  <2> HIDE DEF calls
  <2> QED BY <1>1, TurnTranslated
<1>3. PICK e \in Part, r \in Seq(Part) :
        /\ Gathered(t, PartOf) = <<e>> \o r
        /\ e.result = None
        /\ e.uses = [k \in DOMAIN calls |->
                      [id |-> calls[k].id, input |-> Decoded(calls[k].args)]]
        /\ \A i \in DOMAIN r :
             /\ r[i].uses = <<>>
             /\ r[i].result # None => \E k \in DOMAIN calls : r[i].result = calls[k].id
  <2> HIDE DEF calls
  <2> QED BY <1>1, TurnTranslated
<1>4. e.uses = Expected(ToolUses(bs))
  BY <1>3, CallsOfBlocks
<1>5. ms \in Seq(Part) /\ Translated(c).messages = ms
  BY TranslationGathered
<1>6. c \o t \in Seq(Msg) /\ sp \o ToolUses(bs) \in Seq(Spoken)
  <2> HIDE DEF t
  <2> QED BY <1>1, <1>2, ConcatProperties
<1> HIDE DEF t
<1>7. Translated(c \o t).messages = ms \o (<<e>> \o r)
  <2>1. PartOf \in [Msg -> Seq(Part)]
    BY TranslationTyped
  <2>2. Gathered(c \o t, PartOf) = Gathered(c, PartOf) \o Gathered(t, PartOf)
    BY <1>2, <2>1, GatheredConcat
  <2> QED BY <1>3, <1>6, <2>2, TranslationGathered
<1>8. ms \o (<<e>> \o r) \in Seq(Part)
  BY <1>6, <1>7, TranslationGathered
<1> HIDE DEF ms
<1>9. Gathered(ms, UsesOf) = Expected(sp) /\ Answered(ms)
  <2>1. FlattenSeq([i \in DOMAIN ms |-> ms[i].uses]) = Expected(sp) /\ Answered(ms)
    BY <1>5 DEF CallsKept
  <2> QED BY <1>5, <2>1, UsesGathered
<1>10. Gathered(ms \o (<<e>> \o r), UsesOf) = Expected(sp \o ToolUses(bs))
  <2>1. Gathered(ms \o (<<e>> \o r), UsesOf) = Gathered(ms, UsesOf) \o e.uses
    BY <1>3, <1>5, UsesGrow
  <2>2. Expected(sp \o ToolUses(bs)) = Expected(sp) \o Expected(ToolUses(bs))
    BY <1>1, ExpectedGrows
  <2> QED BY <1>4, <1>9, <2>1, <2>2
<1>11. Answered(ms \o (<<e>> \o r))
  <2>1. ASSUME NEW i \in DOMAIN r, r[i].result # None
        PROVE  \E k \in DOMAIN e.uses : e.uses[k].id = r[i].result
    <3>1. PICK k \in DOMAIN calls : r[i].result = calls[k].id
      BY <1>3, <2>1
    <3>2. k \in DOMAIN e.uses /\ e.uses[k].id = calls[k].id
      BY <1>3
    <3> QED BY <3>1, <3>2
  <2> QED BY <1>3, <1>5, <1>9, <2>1, AnsweredGrows
<1>12. FlattenSeq([i \in DOMAIN (ms \o (<<e>> \o r)) |-> (ms \o (<<e>> \o r))[i].uses])
         = Expected(sp \o ToolUses(bs))
  <2> DEFINE mm == ms \o (<<e>> \o r)
  <2>1. FlattenSeq([i \in DOMAIN mm |-> mm[i].uses]) = Gathered(mm, UsesOf)
    <3> HIDE DEF mm
    <3>1. mm \in Seq(Part)
      BY <1>8 DEF mm
    <3> QED BY <3>1, UsesGathered
  <2> QED BY <1>10, <2>1
<1>13. CallsKept(c \o t, sp \o ToolUses(bs))
  BY <1>7, <1>11, <1>12 DEF CallsKept
<1> QED BY <1>6, <1>13 DEF t

-----------------------------------------------------------------------------
\* What one more chunk changes.

LEMMA OutputGrows ==
  ASSUME NEW s \in Seq(Chunk), NEW c \in Chunk
  PROVE  /\ Append(s, c) \in Seq(Chunk)
         /\ Contains(Append(s, c), Done) <=> Contains(s, Done) \/ c = Done
         /\ \A i \in DOMAIN Append(s, c) :
              Append(s, c)[i] = c \/ \E j \in DOMAIN s : Append(s, c)[i] = s[j]
         /\ \A x : TrailOf(s, x) /\ (Contains(s, Done) => MayTrail(c, x))
                     => TrailOf(Append(s, c), x)
         /\ ~Contains(s, Done) => DoneIsLast(Append(s, c))
<1> DEFINE t == Append(s, c)
<1>1. /\ DOMAIN s = 1 .. Len(s) /\ Len(s) \in Nat
      /\ t \in Seq(Chunk) /\ DOMAIN t = 1 .. Len(s) + 1 /\ Len(t) = Len(s) + 1
      /\ \A i \in 1 .. Len(s) : t[i] = s[i]
      /\ t[Len(s) + 1] = c
  BY AppendProperties, LenProperties
<1> HIDE DEF t
<1>2. \A i \in 1 .. Len(s) + 1 : i \in 1 .. Len(s) \/ i = Len(s) + 1
  BY <1>1
<1>3. 1 .. Len(s) \subseteq 1 .. Len(s) + 1 /\ Len(s) + 1 \in 1 .. Len(s) + 1
  BY <1>1
<1>4. Contains(t, Done) <=> Contains(s, Done) \/ c = Done
  BY <1>1, <1>2, <1>3 DEF Contains
<1>5. \A i \in DOMAIN t : t[i] = c \/ \E j \in DOMAIN s : t[i] = s[j]
  BY <1>1, <1>2
<1>6. ASSUME NEW x, TrailOf(s, x), Contains(s, Done) => MayTrail(c, x)
      PROVE  TrailOf(t, x)
  <2> SUFFICES ASSUME NEW i \in DOMAIN t, t[i] = Done, NEW j \in i + 1 .. Len(t)
               PROVE  MayTrail(t[j], x)
    BY DEF TrailOf
  <2>1. i \in 1 .. Len(s) /\ t[i] = s[i]
    <3>1. i \in 1 .. Len(s) + 1 /\ i + 1 <= Len(s) + 1
      BY <1>1
    <3> QED BY <1>1, <3>1
  <2>2. CASE j \in 1 .. Len(s)
    <3>1. j \in i + 1 .. Len(s)
      BY <1>1, <2>1, <2>2
    <3> QED BY <1>1, <1>6, <2>1, <2>2, <3>1 DEF TrailOf
  <2>3. CASE j = Len(s) + 1
    <3>1. Contains(s, Done)
      BY <2>1 DEF Contains
    <3> QED BY <1>1, <1>6, <2>3, <3>1
  <2>4. j \in 1 .. Len(s) \/ j = Len(s) + 1
    BY <1>1, <2>1
  <2> QED BY <2>2, <2>3, <2>4
<1>7. ASSUME ~Contains(s, Done) PROVE DoneIsLast(t)
  <2>1. \A i \in 1 .. Len(s) : s[i] # Done
    BY <1>1, <1>7 DEF Contains
  <2> QED BY <1>1, <1>2, <2>1 DEF DoneIsLast
<1> QED BY <1>1, <1>4, <1>5, <1>6, <1>7 DEF t

LEMMA TextsGrow ==
  ASSUME NEW s \in Seq(Chunk), NEW c \in Chunk
  PROVE  TextsOf(Append(s, c))
           = IF c.kind = "text" THEN Append(TextsOf(s), c.piece) ELSE TextsOf(s)
<1>1. TextsOf(s) \in Seq(Piece) /\ TextsOf(Append(s, c)) = TextsOf(s) \o TextOf[c]
  BY ChunksTyped, ChunkAppended
<1>2. CASE c.kind = "text"
  <2>1. TextOf[c] = <<c.piece>> /\ c.piece \in Piece
    BY <1>2 DEF TextOf, Chunk
  <2> QED BY <1>1, <1>2, <2>1, AppendIsConcat
<1>3. CASE c.kind # "text"
  <2>1. TextOf[c] = <<>>
    BY <1>3 DEF TextOf
  <2>2. TextsOf(s) \o <<>> = TextsOf(s)
    BY <1>1, ConcatEmptySeq
  <2> QED BY <1>1, <1>3, <2>1, <2>2
<1> QED BY <1>2, <1>3

-----------------------------------------------------------------------------
\* Every stream begins afresh.

LEMMA NothingYielded ==
  /\ ~Contains(<<>>, Done) /\ (\A x : TrailOf(<<>>, x)) /\ DoneIsLast(<<>>)
  /\ TextsOf(<<>>) = <<>> /\ Assembled(<<>>, 0, <<>>)
<1>1. DOMAIN <<>> = {} /\ Len(<<>>) = 0 /\ 1 .. 0 = {}
  BY EmptySeq
<1> QED BY <1>1, SelectionsOfNothing, AssembledAtFirst DEF Contains, TrailOf, DoneIsLast

Afresh == Beginning /\ Assembled(blocks, tools, out) /\ Ending /\ Accounting
Unspoken ==
  /\ phase \in {"asked", "open", "block", "closing", "stopped"}
  /\ gen \in {"none", "created", "running", "over", "broken", "dropped"}
  /\ blocks \in Seq(Block) /\ reported \in Report \cup {None}
  /\ tools \in Nat /\ usage \in Tally
  /\ out \in Seq(Chunk) /\ collected \in Seq(Piece)
  /\ ledger \in Seq(Row) /\ closed \in BOOLEAN

LEMMA FreshStream ==
  ASSUME NEW g \in {"none", "created"}, Fresh(g)
  PROVE  Unspoken' /\ Afresh'
<1>1. /\ <<>> \in Seq(Block) /\ <<>> \in Seq(Chunk) /\ <<>> \in Seq(Piece)
      /\ <<>> \in Seq(Row) /\ DOMAIN <<>> = {}
  BY EmptySeq
<1>2. NoUsage \in Tally
  BY DEF NoUsage, Tally, Count
<1>3. Unspoken'
  BY <1>1, <1>2 DEF Unspoken, Fresh
<1>4. Beginning'
  BY DEF Beginning, Fresh
<1>5. Assembled(blocks, tools, out)'
  BY NothingYielded DEF Fresh
<1>6. Ending'
  BY NothingYielded DEF Ending, Fresh, DoneSent
<1>7. Accounting'
  BY <1>1, NothingYielded DEF Accounting, Fresh
<1> QED BY <1>3, <1>4, <1>5, <1>6, <1>7 DEF Afresh

LEMMA InitInv == Init => IInv
<1> SUFFICES ASSUME Init PROVE IInv
  OBVIOUS
<1>1. /\ <<>> \in Seq(Block) /\ <<>> \in Seq(Chunk) /\ <<>> \in Seq(Piece)
      /\ <<>> \in Seq(Row) /\ <<>> \in Seq(Spoken) /\ <<>> \in Seq(Call) /\ DOMAIN <<>> = {}
  BY EmptySeq
<1> DEFINE P == {Message(role, <<>>) : role \in {"system", "user", "assistant"}}
<1>2. P \subseteq Msg /\ \A m \in P : m.calls = <<>> /\ m.answers = None
  <2>1. <<>> \in Seq(Piece)
    BY EmptySeq
  <2>2. \A role \in {"system", "user", "assistant"} :
          /\ Message(role, <<>>) \in Msg
          /\ Message(role, <<>>).calls = <<>> /\ Message(role, <<>>).answers = None
    BY ONLY <1>1, <2>1 DEF Message, Msg
  <2> QED BY <2>2
<1>3. conv \in Seq(P)
  BY PromptsCallNothing DEF Init
<1> HIDE DEF P
<1>4. conv \in Seq(Msg)
  BY <1>2, <1>3, SeqMonotonic
<1>5. NoUsage \in Tally
  BY DEF NoUsage, Tally, Count
<1>6. TypeOK
  BY <1>1, <1>4, <1>5 DEF TypeOK, Init
<1>7. Beginning
  BY DEF Beginning, Init
<1>8. Assembled(blocks, tools, out) /\ Ending
  BY NothingYielded DEF Ending, Init, DoneSent
<1>9. Accounting
  BY <1>1, NothingYielded DEF Accounting, Init
<1>10. CallsKept(conv, spoken)
  <2> DEFINE ms == Gathered(conv, PartOf)
             Quiet == {p \in Part : p.uses = <<>> /\ p.result = None}
             QuietOf == [m \in P |-> IF m.role = "system" THEN <<>> ELSE <<Entry(m)>>]
  <2>1. QuietOf \in [P -> Seq(Quiet)]
    <3>1. ASSUME NEW m \in P PROVE Entry(m) \in Quiet
      <4>1. m \in Msg /\ m.calls = <<>> /\ m.answers = None
        BY <1>2
      <4> QED BY <4>1, EntryTyped DEF Entry
    <3> HIDE DEF Quiet
    <3> QED BY <3>1, EmptySeq, Single
  <2>2. Gathered(conv, QuietOf) \in Seq(Quiet)
    <3> HIDE DEF Quiet, QuietOf
    <3> QED BY <1>3, <2>1, GatheredTyped
  <2>3. Gathered(conv, QuietOf) = ms
    <3>1. \A i \in DOMAIN conv : conv[i] \in P /\ conv[i] \in Msg
      BY <1>2, <1>3, LenProperties
    <3>2. [i \in DOMAIN conv |-> QuietOf[conv[i]]] = [i \in DOMAIN conv |-> PartOf[conv[i]]]
      BY <3>1 DEF PartOf
    <3> QED BY <3>2 DEF Gathered
  <2>4. ms \in Seq(Part) /\ Translated(conv).messages = ms
    BY <1>4, TranslationGathered
  <2>5. ASSUME NEW i \in DOMAIN ms PROVE ms[i].uses = <<>> /\ ms[i].result = None
    <3>1. ms \in Seq(Quiet)
      BY <2>2, <2>3
    <3>2. ms[i] \in Quiet
      <4> HIDE DEF ms, Quiet
      <4> QED BY <2>5, <3>1, LenProperties
    <3> QED BY <3>2
  <2> HIDE DEF ms
  <2>6. Gathered(ms, UsesOf) = <<>>
    <3>1. \A i \in DOMAIN ms : UsesOf[ms[i]] = <<>>
      BY <2>4, <2>5, LenProperties DEF UsesOf
    <3>2. UsesOf \in [Part -> Seq(Use)]
      BY TranslationTyped
    <3> QED BY <2>4, <3>1, <3>2, GatheredNothing
  <2>7. FlattenSeq([i \in DOMAIN ms |-> ms[i].uses]) = <<>>
    BY <2>4, <2>6, UsesGathered
  <2>8. Expected(spoken) = <<>>
    BY <1>1 DEF Expected, Init
  <2>9. Answered(ms)
    BY <2>5 DEF Answered
  <2> QED BY <2>4, <2>7, <2>8, <2>9 DEF CallsKept
<1>11. Conversation
  BY <1>10 DEF Conversation, Init
<1> QED BY <1>6, <1>7, <1>8, <1>9, <1>11 DEF IInv

-----------------------------------------------------------------------------
\* The steps of a stream.

LEMMA StartsInv == IInv /\ Starts => IInv'
<1> SUFFICES ASSUME IInv, Starts PROVE IInv'
  OBVIOUS
<1>1. TypeOK'
  BY DEF IInv, TypeOK, Starts
<1>2. Beginning'
  BY DEF IInv, Beginning, Starts
<1>3. Assembled(blocks, tools, out)'
  BY DEF IInv, Starts
<1>4. Ending'
  BY NothingYielded DEF IInv, Beginning, Ending, Starts, DoneSent
<1>5. Accounting'
  BY DEF IInv, Beginning, Accounting, Reported, Starts
<1>6. Conversation'
  BY DEF IInv, Conversation, Starts
<1> QED BY <1>1, <1>2, <1>3, <1>4, <1>5, <1>6 DEF IInv

LEMMA LeavesEarlyInv == IInv /\ LeavesEarly => IInv'
<1> SUFFICES ASSUME IInv, LeavesEarly PROVE IInv'
  OBVIOUS
<1>1. TypeOK'
  BY DEF IInv, TypeOK, LeavesEarly
<1>2. Beginning'
  BY DEF IInv, Beginning, LeavesEarly
<1>3. Assembled(blocks, tools, out)'
  BY DEF IInv, LeavesEarly
<1>4. Ending'
  BY DEF IInv, Ending, Stray, LeavesEarly, DoneSent
<1>5. Accounting'
  BY DEF IInv, Accounting, Reported, LeavesEarly
<1>6. Conversation'
  BY DEF IInv, Conversation, LeavesEarly
<1> QED BY <1>1, <1>2, <1>3, <1>4, <1>5, <1>6 DEF IInv

LEMMA MessageStartInv == IInv /\ MessageStart => IInv'
<1> SUFFICES ASSUME IInv, MessageStart PROVE IInv'
  OBVIOUS
<1>1. PICK u \in Usages : reported' = u /\ usage' = Merged(u)
  BY DEF MessageStart
<1>2. u \in Report
  BY CountsAreNaturals DEF Report, Count
<1>3. usage = NoUsage
  BY DEF IInv, Beginning, MessageStart
<1>4. usage' = [prompt |-> u.input, completion |-> u.output,
                cached |-> u.read, written |-> u.write]
  BY <1>1, <1>2, <1>3 DEF Merged, NoUsage, Report, Count
<1>5. Reported'
  BY <1>1, <1>2, <1>4 DEF Reported
<1>6. usage' \in Tally
  BY <1>2, <1>4 DEF Report, Tally
<1>7. TypeOK'
  BY <1>1, <1>2, <1>6 DEF IInv, TypeOK, MessageStart
<1>8. Beginning'
  BY DEF IInv, Beginning, MessageStart
<1>9. Assembled(blocks, tools, out)'
  BY DEF IInv, MessageStart
<1>10. Ending'
  BY DEF IInv, Ending, Stray, MessageStart, DoneSent
<1>11. Accounting'
  BY <1>5 DEF IInv, Accounting, MessageStart
<1>12. Conversation'
  BY DEF IInv, Conversation, MessageStart
<1> QED BY <1>7, <1>8, <1>9, <1>10, <1>11, <1>12 DEF IInv

LEMMA MessageDeltaInv == IInv /\ MessageDelta => IInv'
<1> SUFFICES ASSUME IInv, MessageDelta PROVE IInv'
  OBVIOUS
<1>1. PICK n \in Outputs :
        /\ reported' = [reported EXCEPT !.output = IF n # 0 THEN n ELSE @]
        /\ usage' = Merged([input |-> 0, output |-> n, read |-> None, write |-> None])
  BY DEF MessageDelta
<1>2. Reported
  BY DEF IInv, Accounting, MessageDelta
<1>3. n \in Nat
  BY CountsAreNaturals
<1>4. Reported'
  <2>1. reported' \in Report
    BY <1>1, <1>2, <1>3 DEF Reported, Report
  <2>2. usage' = [prompt |-> reported.input,
                  completion |-> IF n # 0 THEN n ELSE reported.output,
                  cached |-> reported.read, written |-> reported.write]
    BY <1>1, <1>2 DEF Merged, Reported, Report
  <2>3. /\ reported'.input = reported.input /\ reported'.read = reported.read
        /\ reported'.write = reported.write
        /\ reported'.output = IF n # 0 THEN n ELSE reported.output
    BY <1>1, <1>2 DEF Reported, Report
  <2> QED BY <2>1, <2>2, <2>3 DEF Reported
<1>5. usage' \in Tally
  BY <1>4 DEF Reported, Report, Tally
<1>6. TypeOK'
  BY <1>4, <1>5 DEF IInv, TypeOK, MessageDelta, Reported
<1>7. Beginning'
  BY DEF IInv, Beginning, MessageDelta
<1>8. Assembled(blocks, tools, out)'
  BY DEF IInv, MessageDelta
<1>9. Ending'
  BY DEF IInv, Ending, Stray, MessageDelta, DoneSent
<1>10. Accounting'
  BY <1>4 DEF IInv, Accounting, MessageDelta
<1>11. Conversation'
  BY DEF IInv, Conversation, MessageDelta
<1> QED BY <1>6, <1>7, <1>8, <1>9, <1>10, <1>11 DEF IInv

LEMMA BlockStopInv == IInv /\ BlockStop => IInv'
<1> SUFFICES ASSUME IInv, BlockStop PROVE IInv'
  OBVIOUS
<1>1. TypeOK'
  BY DEF IInv, TypeOK, BlockStop
<1>2. Beginning'
  BY DEF IInv, Beginning, BlockStop
<1>3. Assembled(blocks, tools, out)'
  BY DEF IInv, BlockStop
<1>4. Ending'
  BY DEF IInv, Ending, Stray, BlockStop, DoneSent
<1>5. Accounting'
  BY DEF IInv, Accounting, Reported, BlockStop
<1>6. Conversation'
  BY DEF IInv, Conversation, BlockStop
<1> QED BY <1>1, <1>2, <1>3, <1>4, <1>5, <1>6 DEF IInv

LEMMA BlockStartInv == IInv /\ BlockStart => IInv'
<1> SUFFICES ASSUME IInv, BlockStart PROVE IInv'
  OBVIOUS
<1> DEFINE id == <<Len(conv), Len(blocks)>>
           Block0(type) == [id |-> id, type |-> type, n |-> 0]
           h == [kind |-> "header", index |-> tools, id |-> id]
<1>1. /\ Len(conv) \in Nat /\ Len(blocks) \in Nat /\ tools \in Nat
      /\ blocks \in Seq(Block) /\ out \in Seq(Chunk)
  BY LenProperties DEF IInv, TypeOK
<1>2. id \in Id
  BY <1>1 DEF Id
<1> HIDE DEF id
<1>3. h \in Chunk /\ h.kind = "header" /\ h # Done
  BY <1>1, <1>2 DEF Chunk, Done
<1>4. \A type \in {"text", "tool_use"} : Block0(type) \in Block
  BY <1>2, BoundsAreNaturals DEF Block
<1>5. PICK type \in {"text", "tool_use"} :
        /\ blocks' = Append(blocks, Block0(type))
        /\ IF type = "tool_use"
           THEN out' = Append(out, h) /\ tools' = tools + 1
           ELSE out' = out /\ tools' = tools
  BY DEF BlockStart, Yields, id
<1>6. blocks' \in Seq(Block) /\ blocks' # <<>>
  <2> HIDE DEF Block0
  <2> QED BY <1>1, <1>4, <1>5, AppendProperties
<1>7. /\ Assembled(blocks, tools, out)
      /\ ~Contains(out, Done) /\ TrailOf(out, Stray) /\ DoneIsLast(out)
  BY DEF IInv, Ending, BlockStart, DoneSent
<1>8. /\ out' \in Seq(Chunk) /\ tools' \in Nat
      /\ Assembled(blocks, tools, out)' /\ TextsOf(out') = TextsOf(out)
      /\ ~Contains(out', Done) /\ TrailOf(out', Stray) /\ DoneIsLast(out')
      /\ \A i \in DOMAIN out' : out'[i].kind = "final" => \E j \in DOMAIN out : out'[i] = out[j]
  <2>1. CASE type = "tool_use"
    <3>1. out' = Append(out, h) /\ tools' = tools + 1
      BY <1>5, <2>1
    <3>2. Assembled(Append(blocks, Block0("tool_use")), tools + 1, Append(out, h))
      BY <1>1, <1>2, <1>7, AssembledHeader
    <3> HIDE DEF h, Block0
    <3>3. TextsOf(out') = TextsOf(out)
      BY <1>1, <1>3, <3>1, TextsGrow
    <3>4. /\ out' \in Seq(Chunk)
          /\ ~Contains(out', Done) /\ TrailOf(out', Stray) /\ DoneIsLast(out')
          /\ \A i \in DOMAIN out' : out'[i] = h \/ \E j \in DOMAIN out : out'[i] = out[j]
      BY <1>1, <1>3, <1>7, <3>1, OutputGrows
    <3> QED BY <1>1, <1>3, <1>5, <2>1, <3>1, <3>2, <3>3, <3>4
  <2>2. CASE type = "text"
    <3>1. out' = out /\ tools' = tools
      BY <1>5, <2>2
    <3>2. Assembled(Append(blocks, Block0("text")), tools, out)
      <4>1. Block0("text") \in Block /\ Block0("text").type = "text"
        BY <1>4
      <4> HIDE DEF Block0
      <4> QED BY <1>1, <1>7, <4>1, AssembledTextBlock
    <3> HIDE DEF Block0
    <3> QED BY <1>1, <1>5, <1>7, <2>2, <3>1, <3>2
  <2> QED BY <2>1, <2>2
<1> HIDE DEF h, Block0
<1>9. Stray' = Stray
  BY DEF Stray, BlockStart
<1>10. TypeOK'
  BY <1>6, <1>8 DEF IInv, TypeOK, BlockStart
<1>11. Beginning'
  BY <1>6 DEF IInv, Beginning, BlockStart
<1>12. Ending'
  BY <1>8, <1>9 DEF Ending, BlockStart, DoneSent
<1>13. Accounting'
  BY <1>8 DEF IInv, Accounting, Reported, BlockStart
<1>14. Conversation'
  BY DEF IInv, Conversation, BlockStart
<1> QED BY <1>8, <1>10, <1>11, <1>12, <1>13, <1>14 DEF IInv

LEMMA BlockDeltaInv == IInv /\ BlockDelta => IInv'
<1> SUFFICES ASSUME IInv, BlockDelta PROVE IInv'
  OBVIOUS
<1> DEFINE b == Last(blocks)
           piece == [id |-> b.id, n |-> b.n + 1]
           a == [kind |-> "arguments", index |-> ArgumentIndex, piece |-> piece]
           t == [kind |-> "text", piece |-> piece]
<1>1. /\ tools \in Nat /\ blocks \in Seq(Block) /\ blocks # <<>> /\ out \in Seq(Chunk)
      /\ collected \in Seq(Piece) /\ collected = TextsOf(out)
      /\ Assembled(blocks, tools, out) /\ b.n < Pieces
      /\ ~Contains(out, Done) /\ TrailOf(out, Stray)
  BY DEF IInv, TypeOK, Beginning, Accounting, Ending, BlockDelta, DoneSent
<1>2. b \in Block
  BY <1>1, LastBlock
<1>3. b.n + 1 \in 0 .. Pieces /\ b.n + 1 \in Nat /\ b.id \in Id
  BY <1>1, <1>2, BoundsAreNaturals DEF Block
<1>4. piece \in Piece
  BY <1>3 DEF Piece
<1>5. blocks' = [blocks EXCEPT ![Len(blocks)].n = b.n + 1]
  <2>1. blocks' = [blocks EXCEPT ![Len(blocks)].n = blocks[Len(blocks)].n + 1]
    BY DEF BlockDelta
  <2> QED BY <2>1 DEF Last
<1>6. blocks' \in Seq(Block) /\ blocks' # <<>>
  <2>1. PICK f \in Seq(Block) : blocks' = Append(f, [b EXCEPT !.n = b.n + 1])
    BY <1>1, <1>3, <1>5, LastBlock
  <2>2. [b EXCEPT !.n = b.n + 1] \in Block
    BY <1>2, <1>3 DEF Block
  <2> QED BY <2>1, <2>2, AppendProperties
<1>7. ArgumentIndex \in Nat
  BY <1>1 DEF ArgumentIndex
<1>8. /\ a \in Chunk /\ a.kind = "arguments" /\ a # Done
      /\ t \in Chunk /\ t.kind = "text" /\ t # Done /\ t.piece = piece
  BY <1>4, <1>7 DEF Chunk, Done
<1>9. /\ b.type = "tool_use" => out' = Append(out, a) /\ collected' = collected
      /\ b.type = "text" => out' = Append(out, t) /\ collected' = Append(collected, piece)
  BY DEF BlockDelta, Yields
<1>10. tools' = tools
  BY DEF BlockDelta
<1>11. /\ out' \in Seq(Chunk) /\ collected' \in Seq(Piece)
       /\ Assembled(blocks, tools, out)' /\ collected' = TextsOf(out')
       /\ ~Contains(out', Done) /\ TrailOf(out', Stray) /\ DoneIsLast(out')
       /\ \A i \in DOMAIN out' : out'[i].kind = "final" => \E j \in DOMAIN out : out'[i] = out[j]
  <2>1. CASE b.type = "tool_use"
    <3>1. out' = Append(out, a) /\ collected' = collected
      BY <1>9, <2>1
    <3>2. /\ tools > 0
          /\ Assembled([blocks EXCEPT ![Len(blocks)].n = b.n + 1], tools,
                       Append(out, [kind |-> "arguments", index |-> tools - 1,
                                    piece |-> piece]))
      BY <1>1, <2>1, AssembledArgument
    <3>3. ArgumentIndex = tools - 1
      BY <3>2 DEF ArgumentIndex
    <3>4. Assembled(blocks, tools, out)'
      <4> HIDE DEF piece
      <4> QED BY <1>5, <1>10, <3>1, <3>2, <3>3
    <3> HIDE DEF a, t, piece, b
    <3>5. TextsOf(out') = TextsOf(out)
      BY <1>1, <1>8, <3>1, TextsGrow
    <3> QED BY <1>1, <1>8, <3>1, <3>4, <3>5, OutputGrows
  <2>2. CASE b.type = "text"
    <3>1. out' = Append(out, t) /\ collected' = Append(collected, piece)
      BY <1>9, <2>2
    <3>2. Assembled([blocks EXCEPT ![Len(blocks)].n = b.n + 1], tools, out)
      BY <1>1, <1>3, <2>2, AssembledTextDelta
    <3> HIDE DEF a, t, piece, b
    <3>3. Assembled([blocks EXCEPT ![Len(blocks)].n = b.n + 1], tools, Append(out, t))
      BY <1>1, <1>8, <3>2, AssembledOther
    <3>4. Assembled(blocks, tools, out)'
      BY <1>5, <1>10, <3>1, <3>3
    <3>5. TextsOf(out') = Append(TextsOf(out), piece)
      BY <1>1, <1>8, <3>1, TextsGrow
    <3>6. collected' \in Seq(Piece)
      BY <1>1, <1>4, <3>1, AppendProperties
    <3> QED BY <1>1, <1>8, <3>1, <3>4, <3>5, <3>6, OutputGrows
  <2>3. b.type \in {"text", "tool_use"}
    BY <1>2 DEF Block
  <2> QED BY <2>1, <2>2, <2>3
<1> HIDE DEF a, t, piece, b
<1>12. Stray' = Stray
  BY DEF Stray, BlockDelta
<1>13. TypeOK'
  BY <1>6, <1>11 DEF IInv, TypeOK, BlockDelta
<1>14. Beginning'
  BY <1>6 DEF IInv, Beginning, BlockDelta
<1>15. Ending'
  BY <1>11, <1>12 DEF Ending, BlockDelta, DoneSent
<1>16. Accounting'
  BY <1>11 DEF IInv, Accounting, Reported, BlockDelta
<1>17. Conversation'
  BY DEF IInv, Conversation, BlockDelta
<1> QED BY <1>11, <1>13, <1>14, <1>15, <1>16, <1>17 DEF IInv

\* What a chunk that is neither text nor of a call leaves as it is.
LEMMA OtherChunk ==
  ASSUME NEW bs, NEW n \in Nat, NEW s \in Seq(Chunk), NEW c \in Chunk,
         Assembled(bs, n, s), c.kind \notin {"header", "arguments", "text"}
  PROVE  /\ Append(s, c) \in Seq(Chunk)
         /\ Assembled(bs, n, Append(s, c)) /\ TextsOf(Append(s, c)) = TextsOf(s)
BY AssembledOther, TextsGrow, AppendProperties

LEMMA StutterInv == IInv /\ UNCHANGED vars => IInv'
<1> SUFFICES ASSUME IInv, UNCHANGED vars PROVE IInv'
  OBVIOUS
<1> USE DEF vars, stream
<1>1. TypeOK'
  BY DEF IInv, TypeOK
<1>2. Beginning'
  BY DEF IInv, Beginning
<1>3. Assembled(blocks, tools, out)'
  BY DEF IInv
<1>4. Ending'
  BY DEF IInv, Ending, Stray, DoneSent
<1>5. Accounting'
  BY DEF IInv, Accounting, Reported
<1>6. Conversation'
  BY DEF IInv, Conversation
<1> QED BY <1>1, <1>2, <1>3, <1>4, <1>5, <1>6 DEF IInv

LEMMA MessageStopInv == IInv /\ MessageStop => IInv'
<1> SUFFICES ASSUME IInv, MessageStop, ~DoneSent PROVE IInv'
  <2>1. ASSUME IInv, MessageStop, DoneSent PROVE UNCHANGED vars
    BY <2>1 DEF IInv, Ending, MessageStop, vars, stream
  <2> QED BY <2>1, StutterInv
<1> DEFINE s == Append(out, Final)
           t == Append(s, Done)
<1>1. /\ tools \in Nat /\ out \in Seq(Chunk) /\ usage \in Tally
      /\ Assembled(blocks, tools, out) /\ TrailOf(out, Stray)
  BY DEF IInv, TypeOK, Ending
<1>2. /\ Final \in Chunk /\ Final.kind = "final" /\ Final # Done
      /\ Final.prompt = usage.prompt /\ Final.completion = usage.completion
      /\ Final.cached = usage.cached
  BY <1>1 DEF Chunk, Final, Done, Tally
<1>3. Done \in Chunk /\ Done.kind = "done"
  BY DEF Chunk, Done
<1>4. s \in Seq(Chunk) /\ Assembled(blocks, tools, s) /\ TextsOf(s) = TextsOf(out)
  BY <1>1, <1>2, OtherChunk
<1>5. ~Contains(out, Done)
  BY DEF DoneSent
<1>6. /\ ~Contains(s, Done) /\ TrailOf(s, Stray)
      /\ \A i \in DOMAIN s : s[i] = Final \/ \E j \in DOMAIN out : s[i] = out[j]
  BY <1>1, <1>2, <1>5, OutputGrows
<1>7. out' = t
  <2>1. \A p \in Seq(Chunk), c, d \in Chunk : p \o <<c, d>> = Append(Append(p, c), d)
    OBVIOUS
  <2>2. out' = out \o <<Final, Done>>
    BY DEF MessageStop
  <2> QED BY <1>1, <1>2, <1>3, <2>1, <2>2
<1> HIDE DEF s
<1>8. t \in Seq(Chunk) /\ Assembled(blocks, tools, t) /\ TextsOf(t) = TextsOf(out)
  BY <1>1, <1>3, <1>4, OtherChunk
<1>9. /\ TrailOf(t, Stray) /\ Contains(t, Done)
      /\ \A i \in DOMAIN t : t[i] = Done \/ \E j \in DOMAIN s : t[i] = s[j]
  BY <1>3, <1>4, <1>6, OutputGrows
<1>10. \A i \in DOMAIN t : t[i].kind = "final" =>
         t[i] = Final \/ \E j \in DOMAIN out : t[i] = out[j]
  BY <1>3, <1>6, <1>9
<1> HIDE DEF t
<1>11. TypeOK'
  BY <1>7, <1>8 DEF IInv, TypeOK, MessageStop
<1>12. Beginning'
  BY DEF IInv, Beginning, MessageStop
<1>13. Assembled(blocks, tools, out)'
  BY <1>7, <1>8 DEF MessageStop
<1>14. Ending'
  <2>1. Stray' = Stray
    BY DEF Stray, MessageStop
  <2> QED BY <1>7, <1>9, <2>1 DEF IInv, Ending, MessageStop, DoneSent
<1>15. Accounting'
  <2>1. \A i \in DOMAIN out' : out'[i].kind = "final" =>
          /\ phase' = "stopped"
          /\ out'[i].prompt = usage'.prompt
          /\ out'[i].completion = usage'.completion
          /\ out'[i].cached = usage'.cached
    BY <1>2, <1>7, <1>10 DEF IInv, Accounting, MessageStop
  <2>2. collected' = TextsOf(out')
    BY <1>7, <1>8 DEF IInv, Accounting, MessageStop
  <2>3. phase \in {"closing", "stopped"}
    BY DEF MessageStop
  <2> QED BY <2>1, <2>2, <2>3 DEF IInv, Accounting, Reported, MessageStop
<1>16. Conversation'
  BY DEF IInv, Conversation, MessageStop
<1> QED BY <1>11, <1>12, <1>13, <1>14, <1>15, <1>16 DEF IInv

\* A chunk that may stand behind [DONE] and belongs to no block.
LEMMA TrailingChunk ==
  ASSUME IInv, gen = "running", NEW c \in Chunk, c.kind \in {"comment", "error", "text"},
         MayTrail(c, Stray), phase # "stopped" => c.kind # "text",
         out' = Append(out, c),
         collected' = IF c.kind = "text" THEN Append(collected, c.piece) ELSE collected,
         UNCHANGED <<conv, body, spoken, phase, blocks, reported, gen, tools, usage, ledger,
                     closed>>
  PROVE  IInv'
<1>1. /\ tools \in Nat /\ out \in Seq(Chunk) /\ Assembled(blocks, tools, out)
      /\ collected \in Seq(Piece) /\ collected = TextsOf(out) /\ TrailOf(out, Stray)
      /\ Contains(out, Done) => phase = "stopped"
  BY DEF IInv, TypeOK, Ending, Accounting, DoneSent
<1>2. c # Done /\ (c.kind = "text" => c.piece \in Piece)
  BY DEF Chunk, Done
<1>3. /\ out' \in Seq(Chunk) /\ Assembled(blocks, tools, out')
      /\ TrailOf(out', Stray) /\ (~Contains(out, Done) => DoneIsLast(out'))
      /\ Contains(out', Done) <=> Contains(out, Done)
      /\ \A i \in DOMAIN out' : out'[i] = c \/ \E j \in DOMAIN out : out'[i] = out[j]
  BY <1>1, <1>2, AssembledOther, OutputGrows
<1>4. collected' \in Seq(Piece) /\ collected' = TextsOf(out')
  <2>1. collected' \in Seq(Piece)
    BY <1>1, <1>2, AppendProperties
  <2>2. TextsOf(out') = IF c.kind = "text" THEN Append(TextsOf(out), c.piece) ELSE TextsOf(out)
    BY <1>1, TextsGrow
  <2> QED BY <1>1, <2>1, <2>2
<1>5. TypeOK'
  BY <1>3, <1>4 DEF IInv, TypeOK
<1>6. Beginning'
  BY DEF IInv, Beginning
<1>7. Assembled(blocks, tools, out)'
  BY <1>3
<1>8. Ending'
  <2>1. Stray' = Stray
    BY DEF Stray
  <2> QED BY <1>1, <1>3, <2>1 DEF IInv, Ending, DoneSent
<1>9. Accounting'
  <2>1. \A i \in DOMAIN out' : out'[i].kind = "final" => \E j \in DOMAIN out : out'[i] = out[j]
    BY <1>3
  <2> QED BY <1>4, <2>1 DEF IInv, Accounting, Reported
<1>10. Conversation'
  BY DEF IInv, Conversation
<1> QED BY <1>5, <1>6, <1>7, <1>8, <1>9, <1>10 DEF IInv

LEMMA StrayDeltaInv == IInv /\ StrayDelta => IInv'
<1> SUFFICES ASSUME IInv, StrayDelta PROVE IInv'
  OBVIOUS
<1>1. Len(conv) \in Nat
  BY LenProperties DEF IInv, TypeOK
<1>2. Stray \in Chunk /\ Stray.kind = "text"
  <2>1. [id |-> <<Len(conv), MaxBlocks>>, n |-> 1] \in Piece
    BY <1>1, BoundsAreNaturals DEF Piece, Id
  <2> QED BY <2>1 DEF Stray, Chunk
<1>3. MayTrail(Stray, Stray)
  BY DEF MayTrail
<1>4. /\ gen = "running" /\ phase = "stopped" /\ out' = Append(out, Stray)
      /\ collected' = Append(collected, Stray.piece)
      /\ UNCHANGED <<conv, body, spoken, phase, blocks, reported, gen, tools, usage, ledger,
                     closed>>
  BY DEF StrayDelta, Yields
<1> QED BY <1>2, <1>3, <1>4, TrailingChunk

LEMMA ErrorEventInv == IInv /\ ErrorEvent => IInv'
<1> SUFFICES ASSUME IInv, ErrorEvent PROVE IInv'
  OBVIOUS
<1> DEFINE e == [kind |-> "error"]
<1>1. e \in Chunk /\ e.kind = "error" /\ MayTrail(e, Stray)
  BY DEF Chunk, MayTrail
<1>2. /\ gen = "running" /\ out' = Append(out, e) /\ collected' = collected
      /\ UNCHANGED <<conv, body, spoken, phase, blocks, reported, gen, tools, usage, ledger,
                     closed>>
  BY DEF ErrorEvent, Yields
<1> HIDE DEF e
<1> QED BY <1>1, <1>2, TrailingChunk

LEMMA MalformedLineInv == IInv /\ MalformedLine => IInv'
<1> SUFFICES ASSUME IInv, MalformedLine PROVE IInv'
  OBVIOUS
<1> DEFINE e == [kind |-> "comment"]
<1>1. e \in Chunk /\ e.kind = "comment" /\ MayTrail(e, Stray)
  BY DEF Chunk, MayTrail
<1>2. /\ gen = "running" /\ out' = Append(out, e) /\ collected' = collected
      /\ UNCHANGED <<conv, body, spoken, phase, blocks, reported, gen, tools, usage, ledger,
                     closed>>
  BY DEF MalformedLine, Yields
<1> HIDE DEF e
<1> QED BY <1>1, <1>2, TrailingChunk

\* The finally clause.
LEMMA FinallyInv ==
  ASSUME IInv, gen = "running", NEW how \in {"over", "broken"}, Finally(how),
         how = "over" => DoneSent',
         \/ out' = out
         \/ ~DoneSent /\ out' = Append(out, Done)
  PROVE  IInv'
<1>1. /\ tools \in Nat /\ out \in Seq(Chunk) /\ usage \in Tally /\ collected \in Seq(Piece)
      /\ Assembled(blocks, tools, out) /\ TrailOf(out, Stray)
      /\ phase # "stopped" => DoneIsLast(out)
  BY DEF IInv, TypeOK, Ending
<1>2. Done \in Chunk /\ Done.kind = "done"
  BY DEF Chunk, Done
<1>3. /\ out' \in Seq(Chunk) /\ Assembled(blocks, tools, out') /\ TextsOf(out') = TextsOf(out)
      /\ TrailOf(out', Stray) /\ (phase # "stopped" => DoneIsLast(out'))
      /\ \A i \in DOMAIN out' : out'[i] = Done \/ \E j \in DOMAIN out : out'[i] = out[j]
  <2>1. CASE out' = out
    BY <1>1, <2>1
  <2>2. CASE ~DoneSent /\ out' = Append(out, Done)
    <3>1. /\ out' \in Seq(Chunk) /\ Assembled(blocks, tools, out')
          /\ TextsOf(out') = TextsOf(out)
      BY <1>1, <1>2, <2>2, OtherChunk
    <3>2. ~Contains(out, Done)
      BY <2>2 DEF DoneSent
    <3>3. /\ TrailOf(out', Stray) /\ DoneIsLast(out')
          /\ \A i \in DOMAIN out' : out'[i] = Done \/ \E j \in DOMAIN out : out'[i] = out[j]
      BY <1>1, <1>2, <2>2, <3>2, OutputGrows
    <3> QED BY <3>1, <3>3
  <2> QED BY <2>1, <2>2
<1> DEFINE row == [text |-> collected, read |-> usage.cached, write |-> usage.written]
<1>4. row \in Row
  BY <1>1 DEF Row, Tally
<1>5. ledger' = <<row>>
  <2>1. ledger = <<>> /\ ledger' = Append(ledger, row)
    BY DEF IInv, Accounting, Finally
  <2> HIDE DEF row
  <2>2. Append(<<>>, row) = <<row>>
    OBVIOUS
  <2> QED BY <2>1, <2>2
<1>6. ledger' \in Seq(Row)
  <2> HIDE DEF row
  <2> QED BY <1>4, <1>5
<1>7. TypeOK'
  BY <1>3, <1>6 DEF IInv, TypeOK, Finally
<1>8. Beginning'
  BY DEF IInv, Beginning, Finally
<1>9. Assembled(blocks, tools, out)'
  BY <1>3 DEF Finally
<1>10. Ending'
  <2>1. Stray' = Stray
    BY DEF Stray, Finally
  <2> QED BY <1>3, <2>1 DEF IInv, Ending, Finally
<1>11. Accounting'
  <2>1. \A i \in DOMAIN out' : out'[i].kind = "final" => \E j \in DOMAIN out : out'[i] = out[j]
    BY <1>2, <1>3
  <2>2. \A i \in DOMAIN out' : out'[i].kind = "final" =>
          /\ phase' = "stopped"
          /\ out'[i].prompt = usage'.prompt
          /\ out'[i].completion = usage'.completion
          /\ out'[i].cached = usage'.cached
    BY <2>1 DEF IInv, Accounting, Finally
  <2>3. closed' /\ ledger' = <<[text |-> collected', read |-> usage'.cached,
                                write |-> usage'.written]>>
    BY <1>5 DEF Finally
  <2>4. collected' = TextsOf(out')
    BY <1>3 DEF IInv, Accounting, Finally
  <2> QED BY <2>2, <2>3, <2>4 DEF IInv, Accounting, Reported, Finally
<1>12. Conversation'
  BY DEF IInv, Conversation, Finally
<1> QED BY <1>7, <1>8, <1>9, <1>10, <1>11, <1>12 DEF IInv

LEMMA EndsInv == IInv /\ Ends => IInv'
<1> SUFFICES ASSUME IInv, Ends PROVE IInv'
  OBVIOUS
<1>1. out \in Seq(Chunk) /\ Done \in Chunk
  BY DEF IInv, TypeOK, Chunk, Done
<1>2. CASE DoneSent
  <2>1. out' = out
    BY <1>2 DEF Ends
  <2> QED BY <1>2, <2>1, FinallyInv DEF Ends, DoneSent
<1>3. CASE ~DoneSent
  <2>1. out' = Append(out, Done)
    BY <1>3 DEF Ends, Yields
  <2>2. DoneSent'
    BY <1>1, <2>1, OutputGrows DEF DoneSent
  <2> QED BY <1>3, <2>1, <2>2, FinallyInv DEF Ends
<1> QED BY <1>2, <1>3

LEMMA BreaksInv == IInv /\ Breaks => IInv'
BY FinallyInv DEF Breaks

-----------------------------------------------------------------------------
\* The steps of the client.

LEMMA AsksInv == IInv /\ Asks => IInv'
<1> SUFFICES ASSUME IInv, Asks PROVE IInv'
  OBVIOUS
<1>1. Unspoken' /\ Afresh'
  BY FreshStream DEF Asks
<1>2. TypeOK'
  BY <1>1 DEF IInv, TypeOK, Unspoken, Asks
<1>3. Conversation'
  BY DEF IInv, Conversation, Asks
<1> QED BY <1>1, <1>2, <1>3 DEF IInv, Afresh

LEMMA TakesInv == IInv /\ Takes => IInv'
<1> SUFFICES ASSUME IInv, Takes PROVE IInv'
  OBVIOUS
<1>1. Unspoken' /\ Afresh' /\ gen' = "none"
  BY FreshStream DEF Takes, Fresh
<1>2. /\ conv \in Seq(Msg) /\ spoken \in Seq(Spoken) /\ blocks \in Seq(Block)
      /\ out \in Seq(Chunk) /\ tools \in Nat /\ Assembled(blocks, tools, out)
      /\ CallsKept(conv, spoken)
  BY DEF IInv, TypeOK, Conversation
<1>3. Texts(UpToDone) \in Seq(Piece)
  <2>1. \E i \in DOMAIN out : out[i] = Done
    BY DEF Takes, DoneSent, Contains
  <2> DEFINE last == CHOOSE i \in DOMAIN out : out[i] = Done
  <2>2. last \in DOMAIN out
    BY <2>1
  <2> HIDE DEF last
  <2>3. SubSeq(out, 1, last) \in Seq(Chunk)
    BY <1>2, <2>2, LenProperties, SubSeqProperties
  <2>4. UpToDone \in Seq(Chunk)
    BY <2>3 DEF UpToDone, last
  <2>5. TextsOf(UpToDone) \in Seq(Piece)
    BY <2>4, ChunksTyped
  <2> QED BY <2>5 DEF Texts, TextsOf
<1>4. CallsReceived = CallsOf(blocks)
  <2>1. Used(blocks) \in Seq(Block)
    BY <1>2, BlocksTyped
  <2>2. CallsReceived = [k \in 1 .. Cardinality(HeadersOf(out)) |->
          [id |-> NamesOf(out, k - 1)[1], args |-> ArgumentsOf(out, k - 1)]]
    BY DEF CallsReceived, HeadersOf, Names, NamesOf, Arguments, ArgumentsOf
  <2> QED BY <1>2, <2>1, <2>2, CallsAssembled
<1>5. /\ conv' = conv \o Turn(Texts(UpToDone), CallsOf(blocks))
      /\ spoken' = spoken \o ToolUses(blocks)
  BY <1>4 DEF Takes
<1>6. conv' \in Seq(Msg) /\ spoken' \in Seq(Spoken) /\ CallsKept(conv, spoken)'
  BY <1>2, <1>3, <1>5, TurnKeepsCalls
<1>7. TypeOK'
  BY <1>1, <1>6 DEF TypeOK, Unspoken
<1>8. Conversation'
  BY <1>1, <1>6 DEF Conversation
<1> QED BY <1>1, <1>7, <1>8 DEF IInv, Afresh

LEMMA AsksWholeInv == IInv /\ AsksWhole => IInv'
<1> SUFFICES ASSUME IInv, AsksWhole PROVE IInv'
  OBVIOUS
<1>1. Unspoken' /\ Afresh' /\ gen' = "none"
  BY FreshStream DEF AsksWhole, Fresh
<1>2. conv \in Seq(Msg) /\ spoken \in Seq(Spoken) /\ CallsKept(conv, spoken)
  BY DEF IInv, TypeOK, Conversation
<1> DEFINE Full == {b \in Block : b.n = Pieces}
<1>3. PICK size \in 1 .. MaxBlocks : \E types \in [1 .. size -> {"text", "tool_use"}] :
        LET bs == [i \in 1 .. size |-> [id |-> <<Len(conv), i - 1>>, type |-> types[i],
                                        n |-> Pieces]]
        IN /\ conv' = conv \o Turn(WholeText(bs), WholeCalls(bs))
           /\ spoken' = spoken \o ToolUses(bs)
  BY DEF AsksWhole
<1>3a. PICK types \in [1 .. size -> {"text", "tool_use"}] :
        LET bs == [i \in 1 .. size |-> [id |-> <<Len(conv), i - 1>>, type |-> types[i],
                                        n |-> Pieces]]
        IN /\ conv' = conv \o Turn(WholeText(bs), WholeCalls(bs))
           /\ spoken' = spoken \o ToolUses(bs)
  BY <1>3
<1> DEFINE bs == [i \in 1 .. size |-> [id |-> <<Len(conv), i - 1>>, type |-> types[i],
                                       n |-> Pieces]]
<1>4. bs \in Seq(Full)
  <2>1. size \in Nat
    BY BoundsAreNaturals
  <2>2. ASSUME NEW i \in 1 .. size PROVE bs[i] \in Full
    <3>1. Len(conv) \in Nat /\ i - 1 \in Nat
      BY <1>2, <2>1, LenProperties
    <3>2. <<Len(conv), i - 1>> \in Id
      BY <3>1 DEF Id
    <3>3. Pieces \in 0 .. Pieces
      BY BoundsAreNaturals
    <3> QED BY <3>2, <3>3 DEF Block
  <2>3. bs \in [1 .. size -> Full]
    <3> HIDE DEF Full
    <3> QED BY <2>2
  <2> HIDE DEF Full, bs
  <2> QED BY <2>1, <2>3, SeqDef
<1>5. /\ conv' = conv \o Turn(WholeText(bs), WholeCalls(bs))
      /\ spoken' = spoken \o ToolUses(bs)
  BY <1>3a
<1> HIDE DEF bs
<1>6. bs \in Seq(Block)
  <2>1. Full \subseteq Block
    OBVIOUS
  <2> HIDE DEF Full
  <2> QED BY <1>4, <2>1, SeqMonotonic
<1>7. WholeCalls(bs) = CallsOf(bs)
  <2> DEFINE FullUsed == [b \in Full |-> IF b.type = "tool_use" THEN <<b>> ELSE <<>>]
  <2>1. FullUsed \in [Full -> Seq(Full)]
    <3> HIDE DEF Full
    <3> QED BY EmptySeq, Single
  <2>2. Used(bs) = Gathered(bs, FullUsed)
    <3>1. \A i \in DOMAIN bs : bs[i] \in Full
      <4> HIDE DEF Full
      <4> QED BY <1>4, LenProperties
    <3>2. [i \in DOMAIN bs |-> IF bs[i].type = "tool_use" THEN <<bs[i]>> ELSE <<>>]
            = [i \in DOMAIN bs |-> FullUsed[bs[i]]]
      <4> HIDE DEF Full
      <4> QED BY <3>1
    <3> HIDE DEF FullUsed
    <3> QED BY <3>2 DEF Used, Gathered
  <2>3. Used(bs) \in Seq(Full)
    <3> HIDE DEF Full, FullUsed
    <3>1. Gathered(bs, FullUsed) \in Seq(Full)
      BY ONLY <1>4, <2>1, GatheredTyped
    <3> QED BY <2>2, <3>1
  <2>4. \A i \in DOMAIN Used(bs) : Used(bs)[i] \in Full
    <3> HIDE DEF Full
    <3> QED BY <2>3, LenProperties
  <2>5. \A i \in DOMAIN Used(bs) : AllPieces(Used(bs)[i].id) = Parts(Used(bs)[i])
    BY <2>4 DEF AllPieces, Parts
  <2> HIDE DEF Full
  <2> QED BY <2>5 DEF WholeCalls, CallsOf
<1>8. WholeText(bs) \in Seq(Piece)
  <2> DEFINE TextIn == [b \in Block |-> IF b.type = "text" THEN AllPieces(b.id) ELSE <<>>]
  <2>1. TextIn \in [Block -> Seq(Piece)]
    <3>1. ASSUME NEW b \in Block PROVE AllPieces(b.id) \in Seq(Piece)
      <4>1. Pieces \in Nat /\ b.id \in Id
        BY BoundsAreNaturals DEF Block
      <4>2. AllPieces(b.id) \in [1 .. Pieces -> Piece]
        BY <4>1 DEF AllPieces, Piece
      <4> QED BY <4>1, <4>2, SeqDef
    <3> QED BY <3>1, EmptySeq
  <2>2. WholeText(bs) = Gathered(bs, TextIn)
    <3>1. \A i \in DOMAIN bs : bs[i] \in Block
      BY <1>6, LenProperties
    <3>2. [i \in DOMAIN bs |-> IF bs[i].type = "text" THEN AllPieces(bs[i].id) ELSE <<>>]
            = [i \in DOMAIN bs |-> TextIn[bs[i]]]
      BY <3>1
    <3> HIDE DEF TextIn
    <3> QED BY <3>2 DEF WholeText, Gathered
  <2> HIDE DEF TextIn
  <2>3. Gathered(bs, TextIn) \in Seq(Piece)
    BY ONLY <1>6, <2>1, GatheredTyped
  <2> QED BY <2>2, <2>3
<1>9. conv' \in Seq(Msg) /\ spoken' \in Seq(Spoken) /\ CallsKept(conv, spoken)'
  BY <1>2, <1>5, <1>6, <1>7, <1>8, TurnKeepsCalls
<1>10. TypeOK'
  BY <1>1, <1>9 DEF TypeOK, Unspoken
<1>11. Conversation'
  BY <1>1, <1>9 DEF Conversation
<1> QED BY <1>1, <1>10, <1>11 DEF IInv, Afresh

-----------------------------------------------------------------------------
LEMMA NextInv == IInv /\ [Next]_vars => IInv'
<1> SUFFICES ASSUME IInv, [Next]_vars PROVE IInv'
  OBVIOUS
<1>1. CASE Asks \/ AsksWhole \/ Takes
  BY <1>1, AsksInv, AsksWholeInv, TakesInv
<1>2. CASE Starts \/ LeavesEarly \/ MessageStart \/ MessageDelta \/ MessageStop
  BY <1>2, StartsInv, LeavesEarlyInv, MessageStartInv, MessageDeltaInv, MessageStopInv
<1>3. CASE BlockStart \/ BlockDelta \/ BlockStop
  BY <1>3, BlockStartInv, BlockDeltaInv, BlockStopInv
<1>4. CASE StrayDelta \/ ErrorEvent \/ MalformedLine \/ Ends \/ Breaks
  BY <1>4, StrayDeltaInv, ErrorEventInv, MalformedLineInv, EndsInv, BreaksInv
<1>5. CASE UNCHANGED vars
  BY <1>5, StutterInv
<1> QED BY <1>1, <1>2, <1>3, <1>4, <1>5 DEF Next

\* The state of every stream and of the conversation is of its type, and what
\* the client puts together of the chunks is what the provider streamed
\* (translated_streamer, main.py:1394-1562).
THEOREM InvariantHolds == Spec => []IInv
BY InitInv, NextInv, PTL DEF Spec

\* However many turns a conversation has, of however many blocks and pieces, and
\* however its streams ended: the calls the provider made come back to it in
\* order, under their ids and with their arguments, and every result names a
\* call before it.
THEOREM ToolsRoundTripHolds == Spec => []ToolsRoundTrip
<1>1. IInv => ToolsRoundTrip
  <2> SUFFICES ASSUME IInv, gen # "none"
               PROVE  /\ FlattenSeq([i \in DOMAIN body.messages |-> body.messages[i].uses])
                           = Expected(spoken)
                      /\ Answered(body.messages)
    BY DEF ToolsRoundTrip, Expected, Answered
  <2> QED BY DEF IInv, Conversation, CallsKept
<1> QED BY <1>1, InvariantHolds, PTL

\* A translated stream has [DONE] at most once, and once when it was read to its
\* end, whatever lines stand where: message_stop repeated, one error and one line
\* that is no JSON anywhere, one text behind message_stop.  What is behind [DONE]
\* is such a comment, error or text, and there is nothing unless message_stop
\* came.  A provider that opens blocks behind message_stop is not covered.
THEOREM EndsOnceHolds == Spec => []EndsOnce
<1>1. IInv => EndsOnce
  BY DEF IInv, Ending, TrailOf, MayTrail, DoneIsLast, EndsOnce
<1> QED BY <1>1, InvariantHolds, PTL

\* However a stream ends the upstream response is closed and its one ledger row
\* has the text that was yielded and the cache tokens that were reported, and
\* the final chunk carries the usage of both reports.
THEOREM StreamsAreAccountedHolds == Spec => []StreamsAreAccounted
<1>1. IInv => StreamsAreAccounted
  <2> SUFFICES ASSUME IInv PROVE StreamsAreAccounted
    OBVIOUS
  <2>1. ASSUME gen \in {"over", "broken"}
        PROVE  /\ closed /\ Len(ledger) = 1 /\ ledger[1].text = Texts(out)
               /\ reported # None => /\ ledger[1].read = reported.read
                                     /\ ledger[1].write = reported.write
    <3>1. /\ closed /\ collected = TextsOf(out)
          /\ ledger = <<[text |-> collected, read |-> usage.cached, write |-> usage.written]>>
          /\ reported # None => Reported
      BY <2>1 DEF IInv, Accounting
    <3>2. Texts(out) = TextsOf(out)
      BY DEF Texts, TextsOf
    <3>3. \A r : Len(<<r>>) = 1 /\ <<r>>[1] = r
      OBVIOUS
    <3> QED BY <3>1, <3>2, <3>3 DEF Reported
  <2>2. ASSUME NEW i \in DOMAIN out, out[i].kind = "final"
        PROVE  /\ out[i].prompt = reported.input
               /\ out[i].completion = reported.output
               /\ out[i].cached = reported.read
    BY <2>2 DEF IInv, Accounting, Reported
  <2> QED BY <2>1, <2>2 DEF StreamsAreAccounted
<1> QED BY <1>1, InvariantHolds, PTL
=============================================================================
