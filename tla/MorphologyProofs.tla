------------------------ MODULE MorphologyProofs ----------------------------
(* What the pipelines of morphology answer, for any form, dictionary and     *)
(* prefixes: the prefix guesser asks for every split exactly once and returns *)
(* only what the dictionary allows, and an analysis is reported once.  The    *)
(* check for cycles of the derivation dictionary, for any files.              *)
EXTENDS Morphology, DerivatorEncoder, FiniteSetTheorems, SequenceTheorems, WellFoundedInduction, TLAPS

\* A set of numbers has a least one.
LEMMA LeastIsMin ==
  ASSUME NEW T \in SUBSET Nat, T # {}
  PROVE  Min(T) \in T /\ \A n \in T : Min(T) <= n
<1> DEFINE Below == {p \in Nat \X Nat : p[1] < p[2]}
<1>1. IsWellFoundedOn(Below, Nat)
  BY NatLessThanWellFounded DEF OpToRel
<1>2. \A m, n \in Nat : n < m => <<n, m>> \in Below
  OBVIOUS
<1> HIDE DEF Below
<1>3. PICK m \in T : \A n \in T : ~ (<<n, m>> \in Below)
  BY <1>1, WFMin
<1>4. ASSUME NEW n \in T PROVE m <= n
  <2>1. m \in Nat /\ n \in Nat /\ ~ (n < m)
    BY <1>2, <1>3
  <2> QED BY <2>1
<1>5. Min(T) = CHOOSE k \in T : \A n \in T : k <= n
  BY DEF Min
<1> QED BY <1>4, <1>5

\* Induction up to a bound, for a set of numbers: there is no least counterexample.
LEMMA UpTo ==
  ASSUME NEW bound \in Nat, NEW S, 0 \in S, \A n \in 0..bound - 1 : n \in S => n + 1 \in S
  PROVE  \A n \in 0..bound : n \in S
<1> SUFFICES ASSUME {n \in 0..bound : n \notin S} # {} PROVE FALSE
  OBVIOUS
<1>1. PICK m \in {n \in 0..bound : n \notin S} : \A n \in {n \in 0..bound : n \notin S} : m <= n
  BY LeastIsMin, {n \in 0..bound : n \notin S} \in SUBSET Nat
<1>2. m - 1 \in 0..bound - 1 /\ m - 1 + 1 = m
  BY <1>1
<1> QED BY <1>1, <1>2

\* A bounded set of numbers has a greatest one.
LEMMA GreatestIsMax ==
  ASSUME NEW n \in Nat, NEW T \in SUBSET (0..n), T # {}
  PROVE  Max(T) \in T /\ \A k \in T : k <= Max(T)
<1>1. {n - k : k \in T} \in SUBSET Nat /\ {n - k : k \in T} # {}
  <2>1. PICK m \in T : TRUE
    OBVIOUS
  <2>2. n - m \in {n - k : k \in T}
    BY <2>1
  <2>3. ASSUME NEW k \in T PROVE n - k \in Nat
    <3>1. k \in 0..n
      OBVIOUS
    <3> QED BY <3>1
  <2> QED BY <2>2, <2>3
<1>2. PICK u \in {n - k : k \in T} : \A v \in {n - k : k \in T} : u <= v
  BY <1>1, LeastIsMin
<1>3. \E m \in T : \A k \in T : m >= k
  <2>1. PICK m \in T : u = n - m
    BY <1>2
  <2>2. ASSUME NEW k \in T PROVE m >= k
    <3>1. u <= n - k
      BY <1>2
    <3>2. m \in 0..n /\ k \in 0..n
      OBVIOUS
    <3> QED BY ONLY <2>1, <3>1, <3>2, n \in Nat
  <2> QED BY <2>2, Zenon
<1>4. Max(T) = CHOOSE m \in T : \A k \in T : m >= k
  BY DEF Max
<1> QED BY <1>3, <1>4

-----------------------------------------------------------------------------
(* Sequences.                                                               *)

\* A wrapped concatenation, which the provers rewrite under quantifiers.
Glued(s, t) == s \o t

\* A concatenation is a sequence with the elements of both its parts.
LEMMA GluedIs ==
  ASSUME NEW S, NEW s \in Seq(S), NEW t \in Seq(S)
  PROVE  s \o t \in Seq(S) /\ Range(s \o t) = Range(s) \cup Range(t)
BY RangeConcatenation, ConcatProperties

\* The recursive function of FlattenSeq is one: each value follows from the one before.
LEMMA FlattenIs ==
  ASSUME NEW S, NEW seqs \in Seq(Seq(S)), NEW n \in Nat, Len(seqs) = n + 1
  PROVE  \E f \in [1..n + 1 -> Seq(S)] :
           /\ FlattenSeq(seqs) = f[n + 1]
           /\ f[1] = seqs[1] /\ \A k \in 1..n : f[k + 1] = Glued(f[k], seqs[k + 1])
<1> DEFINE G(f) == f = [i \in 1..Len(seqs) |-> IF i = 1 THEN seqs[i] ELSE Glued(f[i - 1], seqs[i])]
           Steps(f, m) == f[1] = seqs[1] /\ \A k \in 1..m : f[k + 1] = Glued(f[k], seqs[k + 1])
           A == {m \in 0..n : \E f \in [1..m + 1 -> Seq(S)] : Steps(f, m)}
<1>0. \A k \in 1..n + 1 : seqs[k] \in Seq(S)
  BY ElementOfSeq
<1>1. 0 \in A
  <2>1. [k \in 1..0 + 1 |-> seqs[1]] \in [1..0 + 1 -> Seq(S)] /\ Steps([k \in 1..0 + 1 |-> seqs[1]], 0)
    BY <1>0
  <2> HIDE DEF Steps
  <2> QED BY <2>1
<1>2. ASSUME NEW m \in 0..n - 1, m \in A PROVE m + 1 \in A
  <2>1. PICK f \in [1..m + 1 -> Seq(S)] : Steps(f, m)
    BY <1>2
  <2> DEFINE g == [k \in 1..m + 1 + 1 |-> IF k = m + 1 + 1 THEN Glued(f[m + 1], seqs[m + 1 + 1]) ELSE f[k]]
  <2>2. Glued(f[m + 1], seqs[m + 1 + 1]) \in Seq(S)
    <3>1. f[m + 1] \in Seq(S) /\ seqs[m + 1 + 1] \in Seq(S)
      BY <1>0
    <3> QED BY <3>1, ConcatProperties DEF Glued
  <2>3. g \in [1..m + 1 + 1 -> Seq(S)]
    <3>1. \A k \in 1..m + 1 + 1 : k # m + 1 + 1 => k \in 1..m + 1
      OBVIOUS
    <3> QED BY <2>2, <3>1
  <2>4. ASSUME NEW k \in 1..m + 1 PROVE g[k + 1] = Glued(g[k], seqs[k + 1])
    <3>1. k \in 1..m + 1 + 1 /\ k + 1 \in 1..m + 1 + 1 /\ k # m + 1 + 1
      OBVIOUS
    <3>2. g[k] = f[k]
      BY <3>1
    <3>3. CASE k = m + 1
      BY <3>1, <3>2, <3>3
    <3>4. CASE k # m + 1
      <4>1. k \in 1..m
        BY <3>4
      <4>2. f[k + 1] = Glued(f[k], seqs[k + 1])
        BY <2>1, <4>1
      <4>3. k + 1 # m + 1 + 1
        BY <4>1
      <4>4. g[k + 1] = f[k + 1]
        BY <3>1, <4>3
      <4> QED BY <3>2, <4>2, <4>4
    <3> QED BY <3>3, <3>4
  <2>5. g[1] = seqs[1]
    BY <2>1
  <2>6. Steps(g, m + 1)
    BY <2>4, <2>5
  <2>7. m + 1 \in 0..n
    OBVIOUS
  <2> HIDE DEF g, Steps
  <2> QED BY <2>3, <2>6, <2>7
<1>3. n \in A
  <2> HIDE DEF A
  <2> QED BY <1>1, <1>2, UpTo, n \in 0..n
<1>4. PICK f \in [1..n + 1 -> Seq(S)] : Steps(f, n)
  BY <1>3
<1>5. G(f)
  <2>1. ASSUME NEW i \in 1..n + 1 PROVE f[i] = IF i = 1 THEN seqs[i] ELSE Glued(f[i - 1], seqs[i])
    <3>1. CASE i = 1
      BY <1>4, <3>1
    <3>2. CASE i # 1
      <4>1. i - 1 \in 1..n /\ i - 1 + 1 = i
        BY <3>2
      <4> QED BY <1>4, <3>2, <4>1
    <3> QED BY <3>1, <3>2
  <2> QED BY <2>1
<1> DEFINE h == CHOOSE g : G(g)
<1>6. G(h)
  BY <1>5
<1>7. FlattenSeq(seqs) = h[n + 1]
  BY DEF FlattenSeq, Glued
<1> HIDE DEF h
<1>8. h[1] = seqs[1] /\ \A k \in 1..n : h[k + 1] = Glued(h[k], seqs[k + 1])
  <2>1. h[1] = seqs[1]
    BY <1>6
  <2>2. ASSUME NEW k \in 1..n PROVE h[k + 1] = Glued(h[k], seqs[k + 1])
    <3>1. k + 1 \in 1..Len(seqs) /\ k + 1 # 1 /\ k + 1 - 1 = k
      OBVIOUS
    <3>2. \A i \in 1..Len(seqs) : h[i] = IF i = 1 THEN seqs[i] ELSE Glued(h[i - 1], seqs[i])
      BY <1>6
    <3> HIDE DEF G
    <3> QED BY ONLY <3>1, <3>2
  <2> QED BY <2>1, <2>2
<1>9. \A k \in 0..n : h[k + 1] \in Seq(S)
  <2> DEFINE B == {k \in 0..n : h[k + 1] \in Seq(S)}
  <2>1. 0 \in B
    BY <1>0, <1>8
  <2>2. ASSUME NEW k \in 0..n - 1, k \in B PROVE k + 1 \in B
    <3>1. k + 1 \in 1..n /\ k + 1 \in 0..n /\ h[k + 1] \in Seq(S) /\ seqs[k + 1 + 1] \in Seq(S)
      BY <1>0, <2>2
    <3>2. Glued(h[k + 1], seqs[k + 1 + 1]) \in Seq(S)
      BY <3>1, ConcatProperties DEF Glued
    <3> QED BY <1>8, <3>1, <3>2
  <2>3. \A k \in 0..n : k \in B
    <3> HIDE DEF B
    <3> QED BY <2>1, <2>2, UpTo
  <2> QED BY <2>3
<1>10. h \in [1..n + 1 -> Seq(S)]
  <2>1. \A k \in 1..n + 1 : k - 1 \in 0..n /\ k - 1 + 1 = k
    OBVIOUS
  <2> QED BY <1>6, <1>9, <2>1
<1> QED BY <1>7, <1>8, <1>10

\* The elements of flattened sequences are those of each of them.
LEMMA Flattened ==
  ASSUME NEW S, NEW seqs \in Seq(Seq(S))
  PROVE  FlattenSeq(seqs) \in Seq(S) /\ Range(FlattenSeq(seqs)) = UNION {Range(seqs[k]) : k \in 1..Len(seqs)}
<1>1. Len(seqs) \in Nat
  OBVIOUS
<1>2. CASE Len(seqs) = 0
  <2>1. seqs = <<>> /\ 1..Len(seqs) = {}
    BY <1>2
  <2>2. FlattenSeq(seqs) = <<>>
    BY <1>2, <2>1 DEF FlattenSeq
  <2>3. Range(<<>>) = {}
    BY DEF Range
  <2>4. UNION {Range(seqs[k]) : k \in 1..Len(seqs)} = {}
    BY ONLY <2>1
  <2>5. <<>> \in Seq(S)
    OBVIOUS
  <2> QED BY ONLY <2>2, <2>3, <2>4, <2>5
<1>3. CASE Len(seqs) # 0
  <2>1. PICK n \in Nat : Len(seqs) = n + 1
    <3>1. \A m \in Nat : m # 0 => \E n \in Nat : m = n + 1
      <4>1. \A m \in Nat : m # 0 => m - 1 \in Nat /\ m = m - 1 + 1
        OBVIOUS
      <4> QED BY <4>1, Zenon
    <3> QED BY ONLY <1>1, <1>3, <3>1, Zenon
  <2>2. PICK f \in [1..n + 1 -> Seq(S)] :
          /\ FlattenSeq(seqs) = f[n + 1]
          /\ f[1] = seqs[1] /\ \A k \in 1..n : f[k + 1] = Glued(f[k], seqs[k + 1])
    BY ONLY <2>1, seqs \in Seq(Seq(S)), FlattenIs
  <2> DEFINE A == {m \in 0..n : Range(f[m + 1]) = UNION {Range(seqs[k]) : k \in 1..m + 1}}
  <2>3. 0 \in A
    <3>1. 1..0 + 1 = {1} /\ 0 + 1 = 1 /\ 0 \in 0..n
      OBVIOUS
    <3>2. UNION {Range(seqs[k]) : k \in 1..0 + 1} = Range(seqs[1])
      BY ONLY <3>1
    <3>3. Range(f[0 + 1]) = Range(seqs[1])
      BY ONLY <2>2, <3>1
    <3> QED BY <3>1, <3>2, <3>3
  <2>4. ASSUME NEW m \in 0..n - 1, m \in A PROVE m + 1 \in A
    <3>1. /\ m + 1 \in 1..n /\ m + 1 \in 0..n /\ f[m + 1] \in Seq(S) /\ seqs[m + 1 + 1] \in Seq(S)
          /\ Range(f[m + 1]) = UNION {Range(seqs[k]) : k \in 1..m + 1}
      <4>1. m + 1 + 1 \in 1..Len(seqs)
        BY ONLY <2>1, m \in 0..n - 1, n \in Nat
      <4>2. seqs[m + 1 + 1] \in Seq(S)
        BY ONLY <4>1, seqs \in Seq(Seq(S)), ElementOfSeq
      <4>3. m + 1 \in 1..n /\ m + 1 \in 0..n /\ m + 1 \in 1..n + 1
        BY ONLY m \in 0..n - 1, n \in Nat
      <4>4. f[m + 1] \in Seq(S)
        BY ONLY <4>3, f \in [1..n + 1 -> Seq(S)]
      <4> QED BY <2>4, <4>2, <4>3, <4>4, Zenon
    <3>2. Range(f[m + 1 + 1]) = Range(f[m + 1]) \cup Range(seqs[m + 1 + 1])
      <4>1. f[m + 1 + 1] = Glued(f[m + 1], seqs[m + 1 + 1])
        BY ONLY <2>2, <3>1
      <4>2. Range(Glued(f[m + 1], seqs[m + 1 + 1])) = Range(f[m + 1]) \cup Range(seqs[m + 1 + 1])
        <5>1. \A x, y \in Seq(S) : Range(Glued(x, y)) = Range(x) \cup Range(y)
          BY GluedIs DEF Glued
        <5> QED BY ONLY <3>1, <5>1
      <4> QED BY ONLY <4>1, <4>2
    <3>3. \A k : k \in 1..m + 1 + 1 <=> k \in 1..m + 1 \/ k = m + 1 + 1
      OBVIOUS
    <3>4. Range(f[m + 1 + 1]) = UNION {Range(seqs[k]) : k \in 1..m + 1 + 1}
      BY ONLY <3>1, <3>2, <3>3
    <3> QED BY <3>1, <3>4
  <2>5. n \in A
    <3> HIDE DEF A
    <3> QED BY <2>3, <2>4, UpTo, n \in 0..n
  <2>6. Range(f[n + 1]) = UNION {Range(seqs[k]) : k \in 1..n + 1}
    BY <2>5
  <2>7. f[n + 1] \in Seq(S)
    BY ONLY f \in [1..n + 1 -> Seq(S)], n \in Nat
  <2> QED BY ONLY <2>1, <2>2, <2>6, <2>7
<1> QED BY <1>2, <1>3
-----------------------------------------------------------------------------
(* Texts in order.                                                          *)

\* How a text is before another: it differs first at k, where it ends or is smaller.
Differs(s, t, k) ==
  /\ \A m \in 1..k - 1 : m <= Len(s) /\ s[m] = t[m]
  /\ k = Len(s) + 1 \/ (k <= Len(s) /\ s[k] < t[k])

\* A text is before another when they differ so at some place.
LEMMA BeforeIs ==
  ASSUME NEW s \in Seq(Int), NEW t \in Seq(Int)
  PROVE  Before(s, t) <=> \E k \in 1..Len(t) : Differs(s, t, k)
<1>1. Len(s) \in Nat /\ Len(t) \in Nat /\ DOMAIN s = 1..Len(s) /\ DOMAIN t = 1..Len(t)
  OBVIOUS
<1>2. ASSUME NEW n \in Nat, n <= Len(s), n <= Len(t)
      PROVE  SubSeq(s, 1, n) = SubSeq(t, 1, n) <=> \A m \in 1..n : s[m] = t[m]
  <2>1. /\ SubSeq(s, 1, n) = [m \in 1..n |-> s[m]]
        /\ SubSeq(t, 1, n) = [m \in 1..n |-> t[m]]
    BY <1>1, <1>2
  <2> QED BY <2>1
<1>3. IsStrictPrefix(s, t) <=> Len(s) < Len(t) /\ \A m \in 1..Len(s) : s[m] = t[m]
  <2>1. IsPrefix(s, t) <=> Len(s) <= Len(t) /\ \A m \in 1..Len(s) : s[m] = t[m]
    <3>1. IsPrefix(s, t) <=> Len(s) <= Len(t) /\ SubSeq(s, 1, Len(s)) = SubSeq(t, 1, Len(s))
      BY Zenon DEF IsPrefix
    <3>2. Len(s) <= Len(t) => (SubSeq(s, 1, Len(s)) = SubSeq(t, 1, Len(s)) <=> \A m \in 1..Len(s) : s[m] = t[m])
      BY <1>1, <1>2
    <3> QED BY ONLY <3>1, <3>2
  <2>2. Len(s) = Len(t) /\ (\A m \in 1..Len(s) : s[m] = t[m]) => s = t
    <3>1. ASSUME Len(s) = Len(t), \A m \in 1..Len(s) : s[m] = t[m]
          PROVE  s = t
      BY <3>1, SeqEqual, Zenon
    <3> QED BY <3>1, Zenon
  <2>3. Len(s) < Len(t) => s # t
    <3>1. \A n \in Nat : ~ (n < n)
      OBVIOUS
    <3> QED BY <1>1, <3>1, Zenon
  <2>4. IsStrictPrefix(s, t) <=> IsPrefix(s, t) /\ s # t
    BY Zenon DEF IsStrictPrefix
  <2>5. Len(s) <= Len(t) /\ Len(s) # Len(t) <=> Len(s) < Len(t)
    <3>1. \A m, n \in Nat : m <= n /\ m # n <=> m < n
      OBVIOUS
    <3> QED BY <1>1, <3>1, Zenon
  <2> QED BY <2>1, <2>2, <2>3, <2>4, <2>5, Zenon
<1>4. ASSUME Before(s, t) PROVE \E k \in 1..Len(t) : Differs(s, t, k)
  <2>1. CASE IsStrictPrefix(s, t)
    <3>1. Len(s) + 1 \in 1..Len(t) /\ Differs(s, t, Len(s) + 1)
      BY <1>1, <1>3, <2>1 DEF Differs
    <3> QED BY <3>1
  <2>2. CASE ~IsStrictPrefix(s, t)
    <3>1. PICK k \in DOMAIN s \cap DOMAIN t : s[k] < t[k] /\ SubSeq(s, 1, k - 1) = SubSeq(t, 1, k - 1)
      BY <1>4, <2>2 DEF Before
    <3>2. k \in Nat /\ k >= 1 /\ k <= Len(s) /\ k <= Len(t) /\ k - 1 \in Nat
      BY <1>1, <3>1
    <3>3. \A m \in 1..k - 1 : s[m] = t[m]
      BY <1>1, <1>2, <3>1, <3>2
    <3>4. Differs(s, t, k) /\ k \in 1..Len(t)
      BY <1>1, <3>1, <3>2, <3>3 DEF Differs
    <3> QED BY <3>4
  <2> QED BY <2>1, <2>2
<1>5. ASSUME NEW k \in 1..Len(t), Differs(s, t, k) PROVE Before(s, t)
  <2>1. CASE k = Len(s) + 1
    <3>1. Len(s) < Len(t) /\ \A m \in 1..Len(s) : s[m] = t[m]
      BY <1>1, <1>5, <2>1 DEF Differs
    <3> QED BY <1>3, <3>1 DEF Before
  <2>2. CASE k # Len(s) + 1
    <3>1. k <= Len(s) /\ s[k] < t[k] /\ k - 1 \in Nat /\ k \in DOMAIN s \cap DOMAIN t
      BY <1>1, <1>5, <2>2 DEF Differs
    <3>2. SubSeq(s, 1, k - 1) = SubSeq(t, 1, k - 1)
      BY <1>1, <1>2, <1>5, <3>1 DEF Differs
    <3> QED BY <3>1, <3>2 DEF Before
  <2> QED BY <2>1, <2>2
<1> QED BY <1>4, <1>5

\* The order is strict and total.
LEMMA BeforeTransitive ==
  ASSUME NEW s \in Seq(Int), NEW t \in Seq(Int), NEW u \in Seq(Int), Before(s, t), Before(t, u)
  PROVE  Before(s, u)
<1>1. PICK k \in 1..Len(t) : Differs(s, t, k)
  BY BeforeIs
<1>2. PICK n \in 1..Len(u) : Differs(t, u, n)
  BY BeforeIs
<1>3. Len(s) \in Nat /\ Len(t) \in Nat /\ Len(u) \in Nat
  OBVIOUS
<1>4. \A m \in 1..Len(s) : s[m] \in Int
  BY ElementOfSeq
<1>5. (\A m \in 1..Len(t) : t[m] \in Int) /\ (\A m \in 1..Len(u) : u[m] \in Int)
  BY ElementOfSeq
<1>6. CASE k < n
  <2>1. k \in 1..Len(u) /\ k \in 1..n - 1
    BY <1>3, <1>6
  <2>2. t[k] = u[k]
    BY <1>2, <2>1 DEF Differs
  <2>3. \A m \in 1..k - 1 : m \in 1..n - 1
    BY <1>3, <1>6
  <2>4. Differs(s, u, k)
    BY <1>1, <1>2, <2>2, <2>3 DEF Differs
  <2> QED BY <2>1, <2>4, BeforeIs
<1>7. CASE n <= k
  <2>1. n \in 1..Len(t) /\ t[n] < u[n] /\ n <= Len(t)
    BY <1>2, <1>3, <1>7 DEF Differs
  <2>2. ASSUME NEW m \in 1..n - 1 PROVE m <= Len(s) /\ s[m] = u[m]
    <3>1. m \in 1..k - 1
      BY <1>3, <1>7
    <3> QED BY <1>1, <1>2, <2>2, <3>1 DEF Differs
  <2>3. n = Len(s) + 1 \/ (n <= Len(s) /\ s[n] < u[n])
    <3>1. CASE n < k
      <4>1. n \in 1..k - 1
        BY <1>3, <3>1
      <4>2. n <= Len(s) /\ s[n] = t[n]
        BY <1>1, <4>1 DEF Differs
      <4> QED BY <2>1, <4>2
    <3>2. CASE n = k
      <4>1. CASE k = Len(s) + 1
        BY <3>2, <4>1
      <4>2. CASE k # Len(s) + 1
        <5>1. k <= Len(s) /\ s[k] < t[k]
          BY <1>1, <4>2 DEF Differs
        <5>2. s[n] \in Int /\ t[n] \in Int /\ u[n] \in Int
          BY <1>3, <1>4, <1>5, <2>1, <3>2, <5>1
        <5> QED BY <2>1, <3>2, <5>1, <5>2
      <4> QED BY <4>1, <4>2
    <3> QED BY <1>3, <1>7, <3>1, <3>2
  <2> QED BY <2>2, <2>3, BeforeIs DEF Differs
<1> QED BY <1>3, <1>6, <1>7

LEMMA BeforeStrict ==
  ASSUME NEW s \in Seq(Int)
  PROVE  ~Before(s, s)
<1>1. \A m \in 1..Len(s) : s[m] \in Int
  BY ElementOfSeq
<1> QED BY <1>1, BeforeIs DEF Differs

LEMMA BeforeTotal ==
  ASSUME NEW s \in Seq(Int), NEW t \in Seq(Int), s # t
  PROVE  Before(s, t) \/ Before(t, s)
<1> DEFINE T == {k \in 1..Len(s) + 1 : k > Len(s) \/ k > Len(t) \/ s[k] # t[k]}
<1>1. Len(s) \in Nat /\ Len(t) \in Nat
  OBVIOUS
<1>2. T \in SUBSET Nat /\ Len(s) + 1 \in T
  BY <1>1
<1>3. PICK k \in T : \A m \in T : k <= m
  <2> HIDE DEF T
  <2> QED BY <1>2, LeastIsMin
<1>4. k \in 1..Len(s) + 1 /\ (k > Len(s) \/ k > Len(t) \/ s[k] # t[k])
  BY <1>3
<1>5. ASSUME NEW m \in 1..k - 1 PROVE m <= Len(s) /\ m <= Len(t) /\ s[m] = t[m]
  <2>1. m \in 1..Len(s) + 1 /\ ~ (k <= m)
    BY <1>1, <1>4
  <2>2. m \notin T
    <3> HIDE DEF T
    <3> QED BY <1>3, <2>1, Zenon
  <2>3. ~ (m > Len(s)) /\ ~ (m > Len(t)) /\ s[m] = t[m]
    BY <2>1, <2>2, Zenon
  <2> QED BY ONLY <1>1, <2>1, <2>3
<1> HIDE DEF T
<1>6. CASE k > Len(s) /\ k > Len(t)
  <2>1. Len(s) = k - 1 /\ Len(t) = k - 1
    <3>1. k = Len(s) + 1
      BY <1>1, <1>4, <1>6
    <3>2. k = 1 => Len(s) = Len(t)
      BY <1>1, <1>6, <3>1
    <3>3. k # 1 => k - 1 \in 1..k - 1
      BY <1>4
    <3>4. CASE k = 1
      BY ONLY <1>1, <1>6, <3>1, <3>2, <3>4
    <3>5. CASE k # 1
      <4>1. k - 1 <= Len(s) /\ k - 1 <= Len(t)
        BY <1>5, <3>3, <3>5, Zenon
      <4> QED BY ONLY <1>1, <1>6, <3>1, <4>1
    <3> QED BY <3>4, <3>5, Zenon
  <2>2. \A m \in 1..Len(s) : s[m] = t[m]
    BY <1>5, <2>1
  <2> QED BY <2>1, <2>2, SeqEqual
<1>7. CASE k > Len(s) /\ k <= Len(t)
  <2>1. k = Len(s) + 1 /\ k \in 1..Len(t)
    <3>1. k \in 1..Len(s) + 1
      BY <1>4
    <3> QED BY ONLY <1>1, <1>7, <3>1
  <2>2. Differs(s, t, k)
    BY <1>5, <2>1 DEF Differs
  <2> QED BY <2>1, <2>2, BeforeIs
<1>8. CASE k <= Len(s) /\ k > Len(t)
  <2>1. k = Len(t) + 1
    <3>1. k # 1 => k - 1 \in 1..k - 1
      BY <1>4
    <3>2. CASE k = 1
      BY ONLY <1>1, <1>8, <3>2
    <3>3. CASE k # 1
      <4>1. k - 1 <= Len(s) /\ k - 1 <= Len(t)
        BY <1>5, <3>1, <3>3, Zenon
      <4>2. k \in Nat
        BY <1>4
      <4> QED BY ONLY <1>1, <1>8, <4>1, <4>2
    <3> QED BY <3>2, <3>3, Zenon
  <2>2. Differs(t, s, k) /\ k \in 1..Len(s)
    BY <1>4, <1>5, <1>8, <2>1 DEF Differs
  <2> QED BY <2>2, BeforeIs
<1>9. CASE k <= Len(s) /\ k <= Len(t)
  <2>1. k \in 1..Len(s) /\ k \in 1..Len(t) /\ s[k] # t[k]
    BY <1>1, <1>4, <1>9
  <2>2. s[k] \in Int /\ t[k] \in Int
    BY <2>1, ElementOfSeq
  <2>3. CASE s[k] < t[k]
    <3>1. Differs(s, t, k)
      BY <1>5, <1>9, <2>3 DEF Differs
    <3> QED BY <2>1, <3>1, BeforeIs
  <2>4. CASE t[k] < s[k]
    <3>1. Differs(t, s, k)
      BY <1>5, <1>9, <2>4 DEF Differs
    <3> QED BY <2>1, <3>1, BeforeIs
  <2> QED BY <2>1, <2>2, <2>3, <2>4
<1> QED BY <1>1, <1>4, <1>6, <1>7, <1>8, <1>9
-----------------------------------------------------------------------------
(* The rank of an element.                                                  *)

\* The elements before a, in an order that is a set of pairs.
Below(S, R, a) == {b \in S : <<b, a>> \in R}

\* In a strict total order of a finite set there is an element of every rank.
LEMMA EveryRank ==
  ASSUME NEW S, IsFiniteSet(S), NEW R,
         \A a \in S : <<a, a>> \notin R,
         \A a, b, c \in S : <<a, b>> \in R /\ <<b, c>> \in R => <<a, c>> \in R,
         \A a, b \in S : a # b => <<a, b>> \in R \/ <<b, a>> \in R
  PROVE  /\ Cardinality(S) \in Nat
         /\ \A k \in 1..Cardinality(S) : \E a \in S : Cardinality(Below(S, R, a)) = k - 1
<1>1. Cardinality(S) \in Nat
  BY FS_CardinalityType
<1> DEFINE rank == [a \in S |-> Cardinality(Below(S, R, a))]
           N == 0..Cardinality(S) - 1
<1>2. ASSUME NEW a \in S
      PROVE  /\ IsFiniteSet(Below(S, R, a)) /\ Cardinality(Below(S, R, a)) \in N
             /\ Below(S, R, a) \in SUBSET S /\ a \notin Below(S, R, a)
  <2>1. Below(S, R, a) \in SUBSET S /\ a \notin Below(S, R, a)
    BY DEF Below
  <2>2. /\ IsFiniteSet(Below(S, R, a)) /\ Cardinality(Below(S, R, a)) <= Cardinality(S)
        /\ Cardinality(Below(S, R, a)) # Cardinality(S)
    BY <2>1, FS_Subset
  <2>3. Cardinality(Below(S, R, a)) \in Nat
    BY <2>2, FS_CardinalityType
  <2> QED BY <1>1, <2>1, <2>2, <2>3
<1>3. ASSUME NEW a \in S, NEW b \in S, <<a, b>> \in R
      PROVE  Cardinality(Below(S, R, a)) # Cardinality(Below(S, R, b))
  <2>1. Below(S, R, a) \in SUBSET Below(S, R, b)
    BY <1>3 DEF Below
  <2>2. Below(S, R, a) # Below(S, R, b)
    <3>1. a \in Below(S, R, b)
      BY <1>3 DEF Below
    <3> QED BY <1>2, <3>1
  <2> QED BY <1>2, <2>1, <2>2, FS_Subset
<1>4. rank \in Injection(S, N)
  <2>1. rank \in [S -> N]
    BY <1>2
  <2>2. \A a, b \in S : rank[a] = rank[b] => a = b
    BY <1>3
  <2> HIDE DEF rank, N
  <2> QED BY <2>1, <2>2 DEF Injection, IsInjective
<1>5. IsFiniteSet(N) /\ Cardinality(N) = Cardinality(S)
  <2>1. 0 \in Int /\ Cardinality(S) - 1 \in Int
    BY <1>1
  <2>2. IsFiniteSet(N) /\ Cardinality(N) = IF 0 > Cardinality(S) - 1 THEN 0 ELSE Cardinality(S) - 1 - 0 + 1
    BY <2>1, FS_Interval
  <2> QED BY <1>1, <2>2
<1>6. rank \in Surjection(S, N)
  <2> HIDE DEF rank, N
  <2> QED BY <1>4, <1>5, FS_Injection
<1>7. ASSUME NEW k \in 1..Cardinality(S) PROVE \E a \in S : Cardinality(Below(S, R, a)) = k - 1
  <2>1. k - 1 \in N
    BY <1>1
  <2>2. PICK a \in S : rank[a] = k - 1
    <3> HIDE DEF rank, N
    <3> QED BY <1>6, <2>1 DEF Surjection
  <2> QED BY <2>2
<1> QED BY <1>1, <1>7

\* A set of analyses in order has each of them once.
LEMMA UniqueIsInjective ==
  ASSUME NEW analyses \in Seq(tagged_lemma)
  PROVE  IsInjective(unique_analyzed(analyses))
<1> DEFINE all == Range(analyses)
           R == {p \in all \X all : AnalysisBefore(p[1], p[2])}
           smaller(a) == {b \in all : AnalysisBefore(b, a)}
           place(k) == CHOOSE a \in all : Cardinality(smaller(a)) = k - 1
<1>1. IsFiniteSet(all)
  <2> DEFINE f == [k \in 1..Len(analyses) |-> analyses[k]]
  <2>1. f \in Surjection(1..Len(analyses), all)
    <3>1. all = {analyses[k] : k \in 1..Len(analyses)}
      BY DEF Range
    <3>2. \A k \in 1..Len(analyses) : f[k] = analyses[k]
      OBVIOUS
    <3>3. f \in [1..Len(analyses) -> all]
      BY <3>1
    <3> HIDE DEF f, all
    <3> QED BY <3>1, <3>2, <3>3 DEF Surjection
  <2>2. 1 \in Int /\ Len(analyses) \in Int
    OBVIOUS
  <2>3. IsFiniteSet(1..Len(analyses))
    BY <2>2, FS_Interval
  <2> HIDE DEF f, all
  <2> QED BY <2>1, <2>3, FS_Surjection
<1>2. ASSUME NEW a \in all PROVE a \in tagged_lemma /\ a.lemma \in Seq(Int) /\ a.tag \in Seq(Int)
  <2>1. PICK k \in 1..Len(analyses) : a = analyses[k]
    BY DEF Range
  <2>2. a \in tagged_lemma
    BY <2>1, ElementOfSeq
  <2> QED BY <2>2 DEF tagged_lemma
<1>3. \A a, b : <<a, b>> \in R <=> a \in all /\ b \in all /\ AnalysisBefore(a, b)
  OBVIOUS
<1>4. ASSUME NEW a \in all PROVE ~AnalysisBefore(a, a)
  BY <1>2, BeforeStrict DEF AnalysisBefore
<1>5. ASSUME NEW a \in all, NEW b \in all, NEW c \in all, AnalysisBefore(a, b), AnalysisBefore(b, c)
      PROVE  AnalysisBefore(a, c)
  <2>1. /\ a.lemma \in Seq(Int) /\ b.lemma \in Seq(Int) /\ c.lemma \in Seq(Int)
        /\ a.tag \in Seq(Int) /\ b.tag \in Seq(Int) /\ c.tag \in Seq(Int)
    BY <1>2
  <2>2. Before(a.lemma, b.lemma) /\ Before(b.lemma, c.lemma) => Before(a.lemma, c.lemma)
    BY <2>1, BeforeTransitive
  <2>3. Before(a.tag, b.tag) /\ Before(b.tag, c.tag) => Before(a.tag, c.tag)
    BY <2>1, BeforeTransitive
  <2> QED BY <1>5, <2>2, <2>3 DEF AnalysisBefore
<1>6. ASSUME NEW a \in all, NEW b \in all, a # b PROVE AnalysisBefore(a, b) \/ AnalysisBefore(b, a)
  <2>1. a.lemma # b.lemma \/ a.tag # b.tag
    BY <1>2, <1>6 DEF tagged_lemma
  <2> QED BY <1>2, <2>1, BeforeTotal DEF AnalysisBefore
<1> HIDE DEF R, all
<1>7. /\ Cardinality(all) \in Nat
      /\ \A k \in 1..Cardinality(all) : \E a \in all : Cardinality(Below(all, R, a)) = k - 1
  <2>1. \A a \in all : <<a, a>> \notin R
    BY <1>3, <1>4
  <2>2. \A a, b, c \in all : <<a, b>> \in R /\ <<b, c>> \in R => <<a, c>> \in R
    BY <1>3, <1>5
  <2>3. \A a, b \in all : a # b => <<a, b>> \in R \/ <<b, a>> \in R
    BY <1>3, <1>6
  <2> QED BY <1>1, <2>1, <2>2, <2>3, EveryRank
<1>8. \A a \in all : Below(all, R, a) = smaller(a)
  BY <1>3 DEF Below
<1> HIDE DEF smaller
<1>9. ASSUME NEW k \in 1..Cardinality(all) PROVE Cardinality(smaller(place(k))) = k - 1
  <2>1. \E a \in all : Cardinality(smaller(a)) = k - 1
    BY <1>7, <1>8
  <2> QED BY <2>1
<1>10. unique_analyzed(analyses) = [k \in 1..Cardinality(all) |-> place(k)]
  BY DEF unique_analyzed, all, smaller
<1>11. ASSUME NEW k \in 1..Cardinality(all), NEW n \in 1..Cardinality(all), place(k) = place(n) PROVE k = n
  <2>1. k - 1 = n - 1
    BY <1>9, <1>11
  <2> QED BY <1>7, <2>1
<1> HIDE DEF place
<1> QED BY <1>10, <1>11 DEF IsInjective
-----------------------------------------------------------------------------
(* What a split allows.                                                     *)

\* What a cut at p and another at b allow.
Onward(a, p, b) == Allowed(a, p) \cap Mask(prefixes_middle, Part(p, b))

LEMMA FormIsSeq ==
  ASSUME form \in Forms
  PROVE  form \in Seq(Int) /\ Len(form) \in Nat /\ Len(form) > 0
BY MapsAssumption

LEMMA PartType ==
  ASSUME form \in Forms, NEW a \in 0..Len(form), NEW b \in a..Len(form)
  PROVE  /\ Part(a, b) \in Seq(Int) /\ Len(Part(a, b)) = b - a
         /\ \A k \in 1..b - a : Part(a, b)[k] = form[a + k]
<1>1. \A k \in a + 1..b : form[k] \in Int
  BY FormIsSeq, ElementOfSeq
<1>2. a + 1 \in Int /\ b \in Int
  BY FormIsSeq
<1> QED BY <1>1, <1>2, SubSeqProperties DEF Part

\* A part of the form begins with the shorter parts from the same place.
LEMMA PartsAreNested ==
  ASSUME form \in Forms, NEW a \in 0..Len(form), NEW m \in a..Len(form), NEW b \in m..Len(form)
  PROVE  IsPrefix(Part(a, m), Part(a, b))
<1> DEFINE s == Part(a, m)
           t == Part(a, b)
<1>1. b \in a..Len(form) /\ Len(form) \in Nat
  BY FormIsSeq
<1>2. s \in Seq(Int) /\ Len(s) = m - a /\ \A k \in 1..m - a : s[k] = form[a + k]
  BY PartType
<1>3. t \in Seq(Int) /\ Len(t) = b - a /\ \A k \in 1..b - a : t[k] = form[a + k]
  BY <1>1, PartType
<1> HIDE DEF s, t
<1>4. SubSeq(s, 1, Len(s)) = s
  BY <1>2, SubSeqFull
<1>5. /\ SubSeq(t, 1, Len(s)) \in Seq(Int) /\ Len(SubSeq(t, 1, Len(s))) = Len(s)
      /\ \A k \in 1..Len(s) : SubSeq(t, 1, Len(s))[k] = t[k]
  <2>1. \A k \in 1..Len(s) : t[k] \in Int
    BY <1>1, <1>2, <1>3, ElementOfSeq
  <2>2. Len(s) \in Nat /\ 1 \in Int
    BY <1>1, <1>2
  <2>3. /\ SubSeq(t, 1, Len(s)) \in Seq(Int)
        /\ Len(SubSeq(t, 1, Len(s))) = IF 1 <= Len(s) THEN Len(s) - 1 + 1 ELSE 0
        /\ \A k \in 1..Len(s) - 1 + 1 : SubSeq(t, 1, Len(s))[k] = t[1 + k - 1]
    BY <2>1, <2>2, SubSeqProperties
  <2> QED BY <2>2, <2>3
<1>6. SubSeq(t, 1, Len(s)) = s
  <2>1. \A k \in 1..Len(s) : k \in 1..m - a /\ k \in 1..b - a
    BY <1>1, <1>2
  <2>2. \A k \in 1..Len(s) : t[k] = s[k]
    BY <1>2, <1>3, <2>1
  <2>3. \A k \in 1..Len(s) : SubSeq(t, 1, Len(s))[k] = s[k]
    BY <1>5, <2>2
  <2> QED BY <2>3, <1>2, <1>5, SeqEqual
<1> QED BY <1>1, <1>2, <1>3, <1>4, <1>6 DEF IsPrefix, s, t

\* A part with filters in a map is found there, and so is each of its beginnings.
LEMMA BeginningsFound ==
  ASSUME form \in Forms, NEW map, NEW a \in 0..Len(form), NEW m \in a..Len(form), NEW b \in m..Len(form),
         Mask(map, Part(a, b)) # {}
  PROVE  Found(map, Part(a, m))
BY PartsAreNested DEF Mask, Found
-----------------------------------------------------------------------------
(* The masks: what the last cut of a way to split allows, the ways before it allowed.     *)

LEMMA AllowedAtStart ==
  ASSUME NEW a \in Nat
  PROVE  Allowed(a, a) = Base(a)
<1>1. Cuts(a, a) = {{a}}
  <2>1. a + 1..a - 1 = {}
    OBVIOUS
  <2>2. SUBSET (a + 1..a - 1) = {{}}
    BY <2>1
  <2>3. Cuts(a, a) = {{} \cup {a, a}}
    BY <2>2, Zenon DEF Cuts
  <2> QED BY <2>3
<1>2. \A p, q \in {a} : ~Neighbours({a}, p, q)
  BY DEF Neighbours
<1> QED BY <1>1, <1>2 DEF Allowed, Base

LEMMA AllowedIsBased ==
  ASSUME NEW a \in Nat, NEW b \in Nat
  PROVE  Allowed(a, b) \subseteq Base(a)
BY DEF Allowed, Base

\* A way to split up to b is one up to its last cut, and what that cut allows.
LEMMA AllowedStep ==
  ASSUME NEW a \in Nat, NEW b \in Nat, a < b
  PROVE  Allowed(a, b) = UNION {Onward(a, p, b) : p \in a..b - 1}
<1>1. ASSUME NEW f \in Allowed(a, b) PROVE \E p \in a..b - 1 : f \in Onward(a, p, b)
  <2>1. PICK P \in Cuts(a, b) : \A p, q \in P : Neighbours(P, p, q) => f \in Mask(prefixes_middle, Part(p, q))
    BY <1>1 DEF Allowed
  <2>2. PICK Q \in SUBSET (a + 1..b - 1) : P = Q \cup {a, b}
    BY <2>1 DEF Cuts
  <2>3. P \ {b} \in SUBSET (0..b - 1) /\ a \in P \ {b} /\ P \ {b} \subseteq a..b - 1
    BY <2>2
  <2>4. PICK p \in P \ {b} : \A k \in P \ {b} : k <= p
    <3>1. b - 1 \in Nat
      OBVIOUS
    <3> QED BY <2>3, <3>1, GreatestIsMax
  <2>5. p \in a..b - 1
    BY <2>3, <2>4
  <2>6. P \ {b} \in Cuts(a, p)
    <3> DEFINE I == Q \cap (a + 1..p - 1)
    <3>1. \A k : k \in P \ {b} <=> k \in I \cup {a, p}
      <4>1. \A k : k \in P \ {b} <=> (k \in Q \/ k = a)
        BY <2>2, <2>3
      <4>2. \A k \in Q : k \in a + 1..p
        BY <2>2, <2>4, <2>5, <4>1
      <4>3. p \in Q \/ p = a
        BY <4>1
      <4>4. \A k \in Q : k \in I \/ k = p
        BY <2>5, <4>2
      <4>5. \A k \in I \cup {a, p} : k \in Q \/ k = a
        BY <4>3
      <4> QED BY <4>1, <4>4, <4>5
    <3>2. P \ {b} = I \cup {a, p} /\ I \in SUBSET (a + 1..p - 1)
      BY <3>1
    <3> QED BY <3>2 DEF Cuts
  <2>7. \A x, y \in P \ {b} : Neighbours(P \ {b}, x, y) => f \in Mask(prefixes_middle, Part(x, y))
    <3> SUFFICES ASSUME NEW x \in P \ {b}, NEW y \in P \ {b}, Neighbours(P \ {b}, x, y)
                 PROVE  Neighbours(P, x, y)
      BY <2>1
    <3> QED BY <2>3 DEF Neighbours
  <2>8. f \in Allowed(a, p)
    BY <1>1, <2>6, <2>7 DEF Allowed
  <2>9. Neighbours(P, p, b)
    BY <2>2, <2>3, <2>4, <2>5 DEF Neighbours
  <2>10. f \in Mask(prefixes_middle, Part(p, b))
    BY <2>1, <2>9, <2>2, <2>4
  <2> QED BY <2>5, <2>8, <2>10 DEF Onward
<1>2. ASSUME NEW p \in a..b - 1, NEW f \in Onward(a, p, b) PROVE f \in Allowed(a, b)
  <2>1. PICK P \in Cuts(a, p) : \A x, y \in P : Neighbours(P, x, y) => f \in Mask(prefixes_middle, Part(x, y))
    BY <1>2 DEF Allowed, Onward
  <2>2. PICK Q \in SUBSET (a + 1..p - 1) : P = Q \cup {a, p}
    BY <2>1 DEF Cuts
  <2>3. P \cup {b} \in Cuts(a, b)
    <3> DEFINE I == (Q \cup {p}) \ {a}
    <3>1. I \in SUBSET (a + 1..b - 1) /\ P \cup {b} = I \cup {a, b}
      BY <2>2
    <3> QED BY <3>1 DEF Cuts
  <2>4. ASSUME NEW x \in P \cup {b}, NEW y \in P \cup {b}, Neighbours(P \cup {b}, x, y)
        PROVE  f \in Mask(prefixes_middle, Part(x, y))
    <3>1. CASE y = b
      <4>1. x = p
        BY <2>2, <2>4, <3>1 DEF Neighbours
      <4> QED BY <1>2, <3>1, <4>1 DEF Onward
    <3>2. CASE y # b
      <4>1. Neighbours(P, x, y)
        BY <2>2, <2>4, <3>2 DEF Neighbours
      <4> QED BY <2>1, <4>1 DEF Neighbours
    <3> QED BY <3>1, <3>2
  <2> QED BY <1>2, <2>3, <2>4 DEF Allowed, Onward
<1> QED BY <1>1, <1>2
-----------------------------------------------------------------------------
(* What holds between the steps.                                            *)

MaskAt(k) == IF k < Len(middle_masks) THEN middle_masks[k + 1] ELSE {}

\* What the ways to split up to k allow whose last cut the inner loop is past.
Past(k) == IF k = initial THEN Base(initial) ELSE UNION {Onward(initial, p, k) : p \in initial..middle - 1}

Split(x, y) == x \in 0..Len(form) - 1 /\ y \in 1..Len(form) - 1 /\ x < y /\ Allowed(x, y) # {}
Done(x, y) == pc = "done" \/ x < initial \/ (pc = "middle" /\ x = initial /\ y < middle)

TypeInv ==
  /\ prefixes_initial \in InitialMaps /\ prefixes_middle \in MiddleMaps /\ form \in Forms
  /\ initial \in 0..Len(form) /\ middle \in Nat
  /\ middle_masks \in Seq(SUBSET Filters)
  /\ form_tmp \in Seq(Int) /\ (form_tmp = <<>> \/ Len(form_tmp) = Len(form))
  /\ asked \in Seq(Nat \X Nat \X Seq(Int))
  /\ pc \in {"initial", "middle", "done"}

MasksInv ==
  pc = "middle" =>
    /\ initial < Len(form) /\ initial <= middle /\ middle <= Len(middle_masks) /\ Len(middle_masks) <= Len(form)
    /\ \A k \in middle..Len(form) - 1 : MaskAt(k) = Past(k)

AskedInv ==
  /\ \A n \in 1..Len(asked) : Split(asked[n][1], asked[n][2]) /\ Done(asked[n][1], asked[n][2])
  /\ \A x, y \in Nat : Split(x, y) /\ Done(x, y) => \E n \in 1..Len(asked) : asked[n][1] = x /\ asked[n][2] = y
  /\ \A m, n \in 1..Len(asked) : asked[m][1] = asked[n][1] /\ asked[m][2] = asked[n][2] => m = n

IInv == TypeInv /\ MasksInv /\ AskedInv

LEMMA InitIInv == Init => IInv
<1> SUFFICES ASSUME Init PROVE IInv
  OBVIOUS
<1>1. TypeInv
  <2>1. form \in Forms
    BY DEF Init
  <2> QED BY <2>1, FormIsSeq DEF Init, TypeInv
<1>2. MasksInv
  BY DEF Init, MasksInv
<1>3. AskedInv
  BY <1>1 DEF Init, AskedInv, Done, Split, TypeInv
<1> QED BY <1>1, <1>2, <1>3 DEF IInv

\* The form and the maps stay, and with them what a split allows.
LEMMA InputStays ==
  ASSUME UNCHANGED input
  PROVE  /\ form' = form /\ prefixes_initial' = prefixes_initial /\ prefixes_middle' = prefixes_middle
         /\ \A a, b : Allowed(a, b)' = Allowed(a, b)
         /\ \A a, p, b : Onward(a, p, b)' = Onward(a, p, b)
         /\ \A a : Base(a)' = Base(a)
<1>1. form' = form /\ prefixes_initial' = prefixes_initial /\ prefixes_middle' = prefixes_middle
  BY DEF input
<1>2. \A a : Base(a)' = Base(a)
  BY <1>1 DEF Base, Mask, Part
<1>3. \A a, b : Allowed(a, b)' = Allowed(a, b)
  <2>1. \A x, y : Part(x, y)' = Part(x, y)
    BY <1>1 DEF Part
  <2> SUFFICES ASSUME NEW a, NEW b PROVE Allowed(a, b)' = Allowed(a, b)
    OBVIOUS
  <2>2. Base(a)' = Base(a)
    BY <1>2
  <2>3. \A x, y : Mask(prefixes_middle, Part(x, y))' = Mask(prefixes_middle, Part(x, y))
    BY <1>1, <2>1
  <2> DEFINE C == Cuts(a, b)
             G(x, y, f) == f \in Mask(prefixes_middle, Part(x, y))
             A == {f \in Base(a) : \E P \in C : \A x, y \in P : Neighbours(P, x, y) => G(x, y, f)}
  <2>4. \A x, y, f : G(x, y, f)' <=> G(x, y, f)
    BY <2>3
  <2>5. A' = A
    <3> HIDE DEF C, G
    <3> QED BY <2>2, <2>4 DEF C
  <2> QED BY <2>5 DEF Allowed
<1>4. \A a, p, b : Onward(a, p, b)' = Onward(a, p, b)
  BY <1>1, <1>3 DEF Onward, Mask, Part
<1> QED BY <1>1, <1>2, <1>3, <1>4

LEMMA MaskType ==
  ASSUME TypeInv, NEW key
  PROVE  Mask(prefixes_initial, key) \in SUBSET Filters /\ Mask(prefixes_middle, key) \in SUBSET Filters
BY MapsAssumption DEF TypeInv, Mask

LEMMA BaseType ==
  ASSUME TypeInv, NEW a
  PROVE  Base(a) \in SUBSET Filters
BY MaskType DEF Base

LEMMA MaskIsAllowed ==
  ASSUME TypeInv, MasksInv, pc = "middle", middle < Len(form)
  PROVE  MaskAt(middle) = Allowed(initial, middle)
<1>1. initial \in Nat /\ middle \in Nat /\ Len(form) \in Nat /\ initial <= middle
  BY FormIsSeq DEF TypeInv, MasksInv
<1>2. MaskAt(middle) = Past(middle)
  BY <1>1 DEF MasksInv
<1>3. CASE middle = initial
  BY <1>1, <1>2, <1>3, AllowedAtStart DEF Past
<1>4. CASE middle # initial
  BY <1>1, <1>2, <1>4, AllowedStep DEF Past
<1> QED BY <1>3, <1>4

\* Where the inner loop ends, no filter is allowed up to any later place.
LEMMA NothingBeyond ==
  ASSUME TypeInv, MasksInv, pc = "middle", NEW y \in Len(middle_masks)..Len(form) - 1, middle = Len(middle_masks),
         initial < y
  PROVE  Allowed(initial, y) = {}
<1>1. initial \in Nat /\ middle \in Nat /\ Len(form) \in Nat /\ initial <= middle
  BY FormIsSeq DEF TypeInv, MasksInv
<1> DEFINE T == {k \in middle..Len(form) - 1 : initial < k /\ Allowed(initial, k) # {}}
<1> SUFFICES ASSUME Allowed(initial, y) # {} PROVE FALSE
  OBVIOUS
<1>2. T \in SUBSET Nat /\ T # {}
  BY <1>1
<1>3. PICK m \in T : \A n \in T : m <= n
  <2> HIDE DEF T
  <2> QED BY <1>2, LeastIsMin
<1>4. m \in middle..Len(form) - 1 /\ m \in Nat /\ initial < m
  BY <1>1, <1>3
<1>5. Allowed(initial, m) = UNION {Onward(initial, p, m) : p \in initial..m - 1}
  BY <1>1, <1>4, AllowedStep
<1>6. PICK p \in initial..m - 1 : Onward(initial, p, m) # {}
  BY <1>3, <1>5
<1>7. Allowed(initial, p) # {}
  BY <1>6 DEF Onward
<1>8. CASE p < middle
  <2>1. MaskAt(m) = {}
    BY <1>1, <1>4 DEF MaskAt
  <2>2. MaskAt(m) = Past(m)
    BY <1>4 DEF MasksInv
  <2>3. Past(m) = UNION {Onward(initial, q, m) : q \in initial..middle - 1}
    BY <1>1, <1>4 DEF Past
  <2>4. p \in initial..middle - 1
    BY <1>1, <1>4, <1>6, <1>8
  <2>5. Onward(initial, p, m) \subseteq UNION {Onward(initial, q, m) : q \in initial..middle - 1}
    BY <2>4
  <2>6. Past(m) = {}
    BY <2>1, <2>2
  <2>7. Onward(initial, p, m) \subseteq Past(m)
    BY <2>3, <2>5
  <2> HIDE DEF T
  <2> QED BY <1>6, <2>6, <2>7
<1>9. CASE p >= middle
  <2>1. MaskAt(m) = {} /\ MaskAt(middle) = {}
    BY <1>1, <1>4 DEF MaskAt
  <2>2. CASE p = initial
    <3>1. middle = initial /\ MaskAt(middle) = Allowed(initial, middle)
      BY <1>1, <1>4, <1>6, <1>9, <2>2, MaskIsAllowed
    <3> QED BY <1>7, <2>1, <2>2, <3>1
  <2>3. CASE p # initial
    <3>1. p \in T
      BY <1>1, <1>4, <1>6, <1>7, <1>9, <2>3
    <3> QED BY <1>1, <1>3, <1>4, <1>6, <3>1
  <2> QED BY <2>2, <2>3
<1> QED BY <1>1, <1>6, <1>8, <1>9
-----------------------------------------------------------------------------
(* The steps.                                                               *)

LEMMA SplitStays ==
  ASSUME UNCHANGED input
  PROVE  \A x, y : Split(x, y)' <=> Split(x, y)
<1> SUFFICES ASSUME NEW x, NEW y PROVE Split(x, y)' <=> Split(x, y)
  OBVIOUS
<1>1. form' = form /\ Allowed(x, y)' = Allowed(x, y)
  BY InputStays
<1> QED BY <1>1 DEF Split

\* A step that asks for nothing must not be past a split that was still to come.
LEMMA NothingAsked ==
  ASSUME TypeInv, AskedInv, UNCHANGED input, asked' = asked,
         \A x, y \in Nat : Split(x, y) => (Done(x, y)' <=> Done(x, y))
  PROVE  AskedInv'
<1>1. \A n \in 1..Len(asked) : asked[n] \in Nat \X Nat \X Seq(Int)
  BY DEF TypeInv
<1>2. \A n \in 1..Len(asked) : asked[n][1] \in Nat /\ asked[n][2] \in Nat
  BY <1>1
<1>3. \A n \in 1..Len(asked) : (Split(asked[n][1], asked[n][2]) /\ Done(asked[n][1], asked[n][2]))'
  <2> SUFFICES ASSUME NEW n \in 1..Len(asked)'
               PROVE  (Split(asked[n][1], asked[n][2]) /\ Done(asked[n][1], asked[n][2]))'
    OBVIOUS
  <2>1. PICK x \in Nat, y \in Nat : x = asked[n][1] /\ y = asked[n][2]
    BY <1>2
  <2>2. Split(x, y) /\ Done(x, y)
    BY <2>1 DEF AskedInv
  <2>3. Split(x, y)' /\ Done(x, y)'
    BY <2>2, SplitStays
  <2> QED BY <2>1, <2>3
<1>4. (\A x, y \in Nat : Split(x, y) /\ Done(x, y) => \E n \in 1..Len(asked) : asked[n][1] = x /\ asked[n][2] = y)'
  BY SplitStays DEF AskedInv
<1>5. (\A m, n \in 1..Len(asked) : asked[m][1] = asked[n][1] /\ asked[m][2] = asked[n][2] => m = n)'
  BY DEF AskedInv
<1> QED BY <1>3, <1>4, <1>5 DEF AskedInv

LEMMA StartType ==
  ASSUME TypeInv
  PROVE  /\ Start(initial) \in Seq(SUBSET Filters) /\ Len(Start(initial)) = initial + 1
         /\ Start(initial)[initial + 1] = Base(initial)
<1> DEFINE G == Grown(middle_masks, initial)
<1>1. initial \in Nat /\ Base(initial) \in SUBSET Filters
  BY FormIsSeq, BaseType DEF TypeInv
<1>2. \A k \in 1..initial : (IF k <= Len(middle_masks) THEN middle_masks[k] ELSE {}) \in SUBSET Filters
  BY <1>1 DEF TypeInv
<1>3. G \in Seq(SUBSET Filters) /\ Len(G) = initial
  BY <1>1, <1>2 DEF Grown
<1> HIDE DEF G
<1> QED BY <1>1, <1>3 DEF Start, G

LEMMA MatchInitialKeeps == IInv /\ MatchInitial => IInv'
<1> SUFFICES ASSUME IInv, MatchInitial PROVE IInv'
  OBVIOUS
<1>1. TypeInv /\ MasksInv /\ AskedInv
  BY DEF IInv
<1>2. UNCHANGED input /\ form' = form /\ asked' = asked /\ form_tmp' = form_tmp
  BY InputStays DEF MatchInitial
<1>3. initial \in Nat /\ initial < Len(form) /\ Len(form) \in Nat /\ pc = "initial"
  BY <1>1, FormIsSeq DEF TypeInv, MatchInitial
<1>4. CASE initial > 0 /\ Mask(prefixes_initial, Part(0, initial)) = {}
  <2>1. initial' = initial + 1 /\ middle' = middle /\ middle_masks' = middle_masks /\ pc' = "initial"
    BY <1>3, <1>4 DEF MatchInitial
  <2>2. TypeInv'
    BY <1>1, <1>2, <1>3, <2>1 DEF TypeInv, input
  <2>3. MasksInv'
    BY <2>1 DEF MasksInv
  <2>4. ASSUME NEW x \in Nat, NEW y \in Nat, Split(x, y) PROVE Done(x, y)' <=> Done(x, y)
    <3>1. x # initial
      <4>1. Allowed(initial, y) \subseteq Base(initial)
        BY <1>3, AllowedIsBased
      <4>2. Base(initial) = {}
        BY <1>3, <1>4 DEF Base
      <4> QED BY <2>4, <4>1, <4>2 DEF Split
    <3> QED BY <1>3, <2>1, <3>1 DEF Done
  <2>5. AskedInv'
    BY <1>1, <1>2, <2>4, NothingAsked
  <2> QED BY <2>2, <2>3, <2>5 DEF IInv
<1>5. CASE ~(initial > 0 /\ Mask(prefixes_initial, Part(0, initial)) = {})
  <2>1. initial' = initial /\ middle' = initial /\ middle_masks' = Start(initial) /\ pc' = "middle"
    BY <1>3, <1>5 DEF MatchInitial
  <2>2. /\ middle_masks' \in Seq(SUBSET Filters) /\ Len(middle_masks)' = initial + 1
        /\ middle_masks'[initial + 1] = Base(initial)
    BY <1>1, <2>1, StartType
  <2>3. TypeInv'
    BY <1>1, <1>2, <1>3, <2>1, <2>2 DEF TypeInv, input
  <2>4. MasksInv'
    <3>1. ASSUME NEW k \in initial..Len(form) - 1 PROVE MaskAt(k)' = Past(k)'
      <4>1. CASE k = initial
        <5>1. Past(k)' = Base(initial)
          BY <1>2, <2>1, <4>1, InputStays DEF Past
        <5>2. MaskAt(k)' = Base(initial)
          BY <1>3, <2>2, <4>1 DEF MaskAt
        <5> QED BY <5>1, <5>2
      <4>2. CASE k # initial
        <5>1. Past(k)' = {}
          BY <1>3, <2>1, <4>2 DEF Past
        <5>2. MaskAt(k)' = {}
          BY <1>3, <2>2, <4>2 DEF MaskAt
        <5> QED BY <5>1, <5>2
      <4> QED BY <4>1, <4>2
    <3> QED BY <1>2, <1>3, <2>1, <2>2, <3>1 DEF MasksInv
  <2>5. \A x, y \in Nat : Split(x, y) => (Done(x, y)' <=> Done(x, y))
    BY <1>3, <2>1 DEF Done, Split
  <2>6. AskedInv'
    BY <1>1, <1>2, <2>5, NothingAsked
  <2> QED BY <2>3, <2>4, <2>6 DEF IInv
<1> QED BY <1>4, <1>5

LEMMA ReturnKeeps == IInv /\ Return => IInv'
<1> SUFFICES ASSUME IInv, Return PROVE IInv'
  OBVIOUS
<1>1. TypeInv /\ MasksInv /\ AskedInv
  BY DEF IInv
<1>2. /\ UNCHANGED input /\ pc = "initial" /\ pc' = "done" /\ UNCHANGED <<initial, middle, middle_masks, form_tmp, asked>>
      /\ initial \in Nat /\ Len(form) \in Nat /\ initial <= Len(form)
  BY <1>1, FormIsSeq DEF TypeInv, Return
<1>3. ASSUME NEW x \in Nat, NEW y \in Nat, Split(x, y) PROVE x < initial
  <2>1. x \in 0..Len(form) - 1 /\ Allowed(x, y) \subseteq Base(x)
    BY <1>3, AllowedIsBased DEF Split
  <2>2. CASE initial = Len(form)
    BY <1>2, <2>1, <2>2
  <2>3. CASE initial > 0 /\ ~Found(prefixes_initial, Part(0, initial))
    <3> SUFFICES ASSUME x >= initial PROVE FALSE
      BY <1>2
    <3>1. Mask(prefixes_initial, Part(0, x)) # {}
      BY <1>2, <1>3, <2>1, <2>3 DEF Split, Base
    <3>2. 0 \in 0..Len(form) /\ initial \in 0..Len(form) /\ x \in initial..Len(form) /\ form \in Forms
      BY <1>1, <1>2, <2>1 DEF TypeInv
    <3>3. Found(prefixes_initial, Part(0, initial))
      BY <3>1, <3>2, BeginningsFound
    <3> QED BY <2>3, <3>3
  <2> QED BY <2>2, <2>3 DEF Return
<1>4. TypeInv'
  BY <1>1, <1>2, InputStays DEF TypeInv
<1>5. MasksInv'
  BY <1>2 DEF MasksInv
<1>6. \A x, y \in Nat : Split(x, y) => (Done(x, y)' <=> Done(x, y))
  BY <1>2, <1>3 DEF Done
<1>7. AskedInv'
  BY <1>1, <1>2, <1>6, NothingAsked
<1> QED BY <1>4, <1>5, <1>7 DEF IInv

LEMMA NextInitialKeeps == IInv /\ NextInitial => IInv'
<1> SUFFICES ASSUME IInv, NextInitial PROVE IInv'
  OBVIOUS
<1>1. TypeInv /\ MasksInv /\ AskedInv
  BY DEF IInv
<1>2. /\ UNCHANGED input /\ pc = "middle" /\ pc' = "initial" /\ initial' = initial + 1
      /\ UNCHANGED <<middle, middle_masks, form_tmp, asked>>
      /\ initial \in Nat /\ Len(form) \in Nat /\ initial < Len(form) /\ middle = Len(middle_masks) /\ middle \in Nat
  BY <1>1, FormIsSeq DEF TypeInv, MasksInv, NextInitial
<1>3. ASSUME NEW x \in Nat, NEW y \in Nat, Split(x, y) PROVE Done(x, y)' <=> Done(x, y)
  <2>1. x = initial => y < middle
    <3> SUFFICES ASSUME x = initial, y >= middle PROVE FALSE
      BY <1>2
    <3>1. y \in Len(middle_masks)..Len(form) - 1 /\ initial < y /\ Allowed(initial, y) # {}
      BY <1>2, <1>3 DEF Split
    <3> QED BY <1>1, <1>2, <3>1, NothingBeyond
  <2> QED BY <1>2, <2>1 DEF Done
<1>4. TypeInv'
  BY <1>1, <1>2, InputStays DEF TypeInv
<1>5. MasksInv'
  BY <1>2 DEF MasksInv
<1>6. AskedInv'
  BY <1>1, <1>2, <1>3, NothingAsked
<1> QED BY <1>4, <1>5, <1>6 DEF IInv

\* The vector after one turn: each later mask has grown by what a cut at middle allows.
LEMMA ExtendedIs ==
  ASSUME TypeInv, MasksInv, pc = "middle", middle < Len(middle_masks)
  PROVE  /\ Extended \in Seq(SUBSET Filters)
         /\ middle < Len(Extended) /\ Len(Extended) <= Len(form)
         /\ \A k \in middle + 1..Len(form) - 1 :
              (IF k < Len(Extended) THEN Extended[k + 1] ELSE {}) =
                MaskAt(k) \cup (MaskAt(middle) \cap Mask(prefixes_middle, Part(middle, k)))
<1> DEFINE M(k) == MaskAt(middle) \cap Mask(prefixes_middle, Part(middle, k))
           E(k) == Grown(middle_masks, Len(Extended))[k]
                     \cup (IF k - 1 \in Marked THEN middle_masks[middle + 1] \cap Mask(prefixes_middle, Part(middle, k - 1))
                                               ELSE {})
           N == {Len(middle_masks)} \cup {n + 1 : n \in Marked}
<1>1. /\ initial \in Nat /\ middle \in Nat /\ Len(form) \in Nat /\ Len(middle_masks) \in Nat
      /\ Len(middle_masks) <= Len(form) /\ form \in Forms /\ middle_masks \in Seq(SUBSET Filters)
  BY FormIsSeq DEF TypeInv, MasksInv
<1>2. Marked \subseteq middle + 1..Len(form) - 1
  BY DEF Marked, Reached
<1>3. Max(N) \in N /\ \A k \in N : k <= Max(N)
  <2>1. N \in SUBSET (0..Len(form)) /\ N # {}
    BY <1>1, <1>2
  <2> HIDE DEF N
  <2> QED BY <1>1, <2>1, GreatestIsMax
<1>4. Max(N) \in Nat /\ Len(middle_masks) <= Max(N) /\ Max(N) <= Len(form) /\ \A n \in Marked : n < Max(N)
  <2>1. N \subseteq 0..Len(form)
    BY <1>1, <1>2
  <2>2. Len(middle_masks) \in N /\ \A n \in Marked : n + 1 \in N /\ n \in Nat
    BY <1>1, <1>2
  <2> HIDE DEF N
  <2>3. Max(N) \in 0..Len(form)
    BY <1>3, <2>1
  <2> QED BY <1>1, <1>3, <2>2, <2>3
<1>5. Extended = [k \in 1..Max(N) |->
                    Grown(middle_masks, Max(N))[k]
                      \cup (IF k - 1 \in Marked THEN middle_masks[middle + 1] \cap Mask(prefixes_middle, Part(middle, k - 1))
                                                ELSE {})]
  BY DEF Extended
<1>6. \A k \in 1..Max(N) : Grown(middle_masks, Max(N))[k] = IF k <= Len(middle_masks) THEN middle_masks[k] ELSE {}
  BY DEF Grown
<1>7. \A k \in 1..Max(N) : Grown(middle_masks, Max(N))[k] \in SUBSET Filters
  <2> SUFFICES ASSUME NEW k \in 1..Max(N) PROVE Grown(middle_masks, Max(N))[k] \in SUBSET Filters
    OBVIOUS
  <2>1. k \in Nat /\ k >= 1
    BY <1>4
  <2>2. CASE k <= Len(middle_masks)
    <3>1. middle_masks[k] \in SUBSET Filters
      BY <1>1, <2>1, <2>2, ElementOfSeq
    <3> QED BY <1>6, <2>2, <3>1
  <2>3. CASE ~(k <= Len(middle_masks))
    BY <1>6, <2>3
  <2> QED BY <2>2, <2>3
<1>8. middle_masks[middle + 1] = MaskAt(middle) /\ MaskAt(middle) \in SUBSET Filters
  BY <1>1 DEF MaskAt
<1> HIDE DEF N
<1>9. Extended \in Seq(SUBSET Filters) /\ Len(Extended) = Max(N)
  <2>1. \A k \in 1..Max(N) :
          Grown(middle_masks, Max(N))[k]
            \cup (IF k - 1 \in Marked THEN middle_masks[middle + 1] \cap Mask(prefixes_middle, Part(middle, k - 1))
                                      ELSE {}) \in SUBSET Filters
    BY <1>7, <1>8
  <2> QED BY <1>4, <1>5, <2>1
<1>10. ASSUME NEW k \in middle + 1..Len(form) - 1
       PROVE  (IF k < Len(Extended) THEN Extended[k + 1] ELSE {}) = MaskAt(k) \cup M(k)
  <2>1. k \in Marked \/ Mask(prefixes_middle, Part(middle, k)) = {}
    <3> SUFFICES ASSUME Mask(prefixes_middle, Part(middle, k)) # {} PROVE k \in Marked
      OBVIOUS
    <3>1. ASSUME NEW m \in middle + 1..k PROVE Found(prefixes_middle, Part(middle, m))
      <4>1. middle \in 0..Len(form) /\ m \in middle..Len(form) /\ k \in m..Len(form)
        BY <1>1, <1>10, <3>1
      <4> QED BY <1>1, <4>1, BeginningsFound
    <3> QED BY <3>1 DEF Marked, Reached
  <2>2. CASE k < Max(N)
    <3>1. k + 1 \in 1..Max(N) /\ k + 1 - 1 = k
      BY <1>1, <1>4, <2>2
    <3>2. Extended[k + 1] = Grown(middle_masks, Max(N))[k + 1] \cup (IF k \in Marked THEN M(k) ELSE {})
      BY <1>5, <1>8, <3>1
    <3>3. Grown(middle_masks, Max(N))[k + 1] = MaskAt(k)
      BY <1>1, <1>6, <3>1 DEF MaskAt
    <3> QED BY <1>9, <2>1, <2>2, <3>2, <3>3
  <2>3. CASE ~(k < Max(N))
    <3>1. k \notin Marked /\ MaskAt(k) = {}
      BY <1>1, <1>4, <2>3 DEF MaskAt
    <3> QED BY <1>9, <2>1, <2>3, <3>1
  <2> QED BY <2>2, <2>3
<1> QED BY <1>1, <1>4, <1>9, <1>10

LEMMA MovedType ==
  ASSUME TypeInv, MasksInv, pc = "middle"
  PROVE  Moved \in Seq(Int) /\ Len(Moved) = Len(form)
<1> DEFINE tmp == IF form_tmp = <<>> THEN form ELSE form_tmp
<1>1. /\ initial \in Nat /\ middle \in Nat /\ initial <= middle /\ initial <= Len(form)
      /\ form \in Seq(Int) /\ Len(form) \in Nat
  BY FormIsSeq DEF TypeInv, MasksInv
<1>2. tmp \in Seq(Int) /\ Len(tmp) = Len(form)
  BY <1>1 DEF TypeInv
<1>3. \A k \in 1..Len(form) : (IF k \in middle - initial + 1..middle THEN form[k - (middle - initial)] ELSE tmp[k]) \in Int
  <2>1. ASSUME NEW k \in middle - initial + 1..middle PROVE form[k - (middle - initial)] \in Int
    <3>1. k - (middle - initial) \in 1..Len(form)
      BY <1>1
    <3> QED BY <1>1, <3>1, ElementOfSeq
  <2>2. \A k \in 1..Len(form) : tmp[k] \in Int
    <3> HIDE DEF tmp
    <3> QED BY <1>2, ElementOfSeq
  <2> QED BY <2>1, <2>2
<1>4. Moved = [k \in 1..Len(form) |-> IF k \in middle - initial + 1..middle THEN form[k - (middle - initial)] ELSE tmp[k]]
  <2>1. DOMAIN tmp = 1..Len(form)
    BY <1>2
  <2> QED BY <2>1 DEF Moved
<1> HIDE DEF tmp
<1> QED BY <1>1, <1>3, <1>4

LEMMA WordType ==
  ASSUME NEW text, text \in Seq(Int), Len(text) = Len(form), NEW n \in Nat, form \in Forms
  PROVE  SubSeq(text, n + 1, Len(form)) \in Seq(Int)
<1>1. \A k \in n + 1..Len(form) : text[k] \in Int
  BY FormIsSeq, ElementOfSeq
<1> QED BY <1>1, FormIsSeq, SubSeqProperties

\* The next place of the inner loop: what a cut at middle allows is in the masks now.
LEMMA MasksStep ==
  ASSUME IInv, MatchMiddle
  PROVE  MasksInv' /\ middle_masks' \in Seq(SUBSET Filters)
<1>1. TypeInv /\ MasksInv
  BY DEF IInv
<1>2. /\ UNCHANGED input /\ form' = form /\ initial' = initial /\ middle' = middle + 1 /\ pc' = "middle" /\ pc = "middle"
      /\ initial \in Nat /\ middle \in Nat /\ Len(form) \in Nat /\ initial <= middle /\ initial < Len(form)
      /\ middle < Len(middle_masks) /\ Len(middle_masks) \in Nat /\ Len(middle_masks) <= Len(form)
      /\ middle_masks \in Seq(SUBSET Filters)
  BY <1>1, FormIsSeq, InputStays DEF TypeInv, MasksInv, MatchMiddle
<1>3. MaskAt(middle) = middle_masks[middle + 1] /\ MaskAt(middle) = Allowed(initial, middle)
  BY <1>1, <1>2, MaskIsAllowed DEF MaskAt
<1>4. ASSUME NEW k \in middle + 1..Len(form) - 1
      PROVE  Past(k)' = MaskAt(k) \cup Onward(initial, middle, k)
  <2>1. k # initial /\ k \in middle..Len(form) - 1
    BY <1>2
  <2>2. Past(k)' = UNION {Onward(initial, p, k) : p \in initial..middle + 1 - 1}
    <3>1. Past(k)' = UNION {Onward(initial, p, k)' : p \in initial'..middle' - 1}
      BY <1>2, <2>1 DEF Past
    <3>2. \A p : Onward(initial, p, k)' = Onward(initial, p, k)
      BY <1>2, InputStays
    <3> QED BY <1>2, <3>1, <3>2
  <2>3. Past(k) = UNION {Onward(initial, p, k) : p \in initial..middle - 1}
    BY <2>1 DEF Past
  <2>4. \A p : p \in initial..middle + 1 - 1 <=> p \in initial..middle - 1 \/ p = middle
    BY <1>2
  <2>5. Past(k)' = Past(k) \cup Onward(initial, middle, k)
    BY <2>2, <2>3, <2>4
  <2>6. MaskAt(k) = Past(k)
    BY <1>1, <1>2, <2>1 DEF MasksInv
  <2> QED BY <2>5, <2>6
<1>5. CASE middle_masks[middle + 1] = {}
  <2>1. middle_masks' = middle_masks
    BY <1>5 DEF MatchMiddle
  <2>2. ASSUME NEW k \in middle + 1..Len(form) - 1 PROVE MaskAt(k)' = Past(k)'
    <3>1. MaskAt(k)' = MaskAt(k)
      BY <2>1 DEF MaskAt
    <3>2. Onward(initial, middle, k) = {}
      BY <1>3, <1>5 DEF Onward
    <3> QED BY <1>4, <3>1, <3>2
  <2> QED BY <1>2, <2>1, <2>2 DEF MasksInv
<1>6. CASE middle_masks[middle + 1] # {}
  <2>1. middle_masks' = Extended
    BY <1>6 DEF MatchMiddle
  <2>2. /\ Extended \in Seq(SUBSET Filters)
        /\ middle < Len(Extended) /\ Len(Extended) <= Len(form)
        /\ \A k \in middle + 1..Len(form) - 1 :
             (IF k < Len(Extended) THEN Extended[k + 1] ELSE {}) =
               MaskAt(k) \cup (MaskAt(middle) \cap Mask(prefixes_middle, Part(middle, k)))
    BY <1>1, <1>2, ExtendedIs
  <2>3. ASSUME NEW k \in middle + 1..Len(form) - 1 PROVE MaskAt(k)' = Past(k)'
    <3>1. MaskAt(k)' = MaskAt(k) \cup (MaskAt(middle) \cap Mask(prefixes_middle, Part(middle, k)))
      <4>1. MaskAt(k)' = IF k < Len(Extended) THEN Extended[k + 1] ELSE {}
        BY <2>1 DEF MaskAt
      <4> QED BY <2>2, <4>1
    <3>2. Onward(initial, middle, k) = MaskAt(middle) \cap Mask(prefixes_middle, Part(middle, k))
      BY <1>3 DEF Onward
    <3> QED BY <1>4, <3>1, <3>2
  <2>4. Len(Extended) \in Nat
    BY <2>2
  <2>5. middle + 1 <= Len(Extended)
    BY <1>2, <2>2, <2>4
  <2> HIDE DEF Extended
  <2> QED BY <1>2, <2>1, <2>2, <2>3, <2>5 DEF MasksInv
<1> QED BY <1>5, <1>6

\* The dictionary is asked for the split at middle if one is there, and for nothing else.
LEMMA AskedStep ==
  ASSUME IInv, MatchMiddle
  PROVE  /\ asked' \in Seq(Nat \X Nat \X Seq(Int)) /\ AskedInv'
         /\ form_tmp' \in Seq(Int) /\ (form_tmp' = <<>> \/ Len(form_tmp') = Len(form))
<1>1. TypeInv /\ MasksInv /\ AskedInv
  BY DEF IInv
<1>2. /\ UNCHANGED input /\ form' = form /\ initial' = initial /\ middle' = middle + 1 /\ pc' = "middle" /\ pc = "middle"
      /\ initial \in Nat /\ middle \in Nat /\ Len(form) \in Nat /\ initial <= middle /\ initial < Len(form)
      /\ middle < Len(middle_masks) /\ Len(middle_masks) \in Nat /\ Len(middle_masks) <= Len(form)
      /\ form \in Forms /\ form \in Seq(Int)
  BY <1>1, FormIsSeq, InputStays DEF TypeInv, MasksInv, MatchMiddle
<1>3. middle_masks[middle + 1] = Allowed(initial, middle)
  BY <1>1, <1>2, MaskIsAllowed DEF MaskAt
<1>4. \A x, y \in Nat : Done(x, y)' <=> Done(x, y) \/ (x = initial /\ y = middle)
  BY <1>2 DEF Done
<1>5. CASE ~Split(initial, middle)
  <2>1. asked' = asked /\ form_tmp' = form_tmp
    <3>1. middle_masks[middle + 1] = {} \/ ~(middle > initial)
      BY <1>2, <1>3, <1>5 DEF Split
    <3> QED BY <3>1 DEF MatchMiddle
  <2>2. \A x, y \in Nat : Split(x, y) => (Done(x, y)' <=> Done(x, y))
    BY <1>4, <1>5
  <2>3. AskedInv'
    BY <1>1, <1>2, <2>1, <2>2, NothingAsked
  <2> QED BY <1>1, <2>1, <2>3 DEF TypeInv
<1>6. CASE Split(initial, middle)
  <2> DEFINE text == IF initial > 0 THEN Moved ELSE form
             word == SubSeq(text, middle - initial + 1, Len(form))
             q == <<initial, middle, word>>
  <2>1. middle > initial /\ middle_masks[middle + 1] # {}
    BY <1>3, <1>6 DEF Split
  <2>2. asked' = Append(asked, q) /\ form_tmp' = IF initial > 0 THEN Moved ELSE form_tmp
    BY <2>1 DEF MatchMiddle
  <2>3. text \in Seq(Int) /\ Len(text) = Len(form)
    BY <1>1, <1>2, MovedType
  <2>4. q \in Nat \X Nat \X Seq(Int) /\ q[1] = initial /\ q[2] = middle
    <3> HIDE DEF text
    <3>1. middle - initial \in Nat
      BY <1>2
    <3>2. word \in Seq(Int)
      BY <1>2, <2>3, <3>1, WordType
    <3> QED BY <1>2, <3>2
  <2> HIDE DEF q
  <2>5. asked \in Seq(Nat \X Nat \X Seq(Int)) /\ Len(asked) \in Nat
    BY <1>1 DEF TypeInv
  <2>6. /\ asked' \in Seq(Nat \X Nat \X Seq(Int)) /\ Len(asked') = Len(asked) + 1
        /\ \A n \in 1..Len(asked) : asked'[n] = asked[n]
        /\ asked'[Len(asked) + 1] = q
    BY <2>2, <2>4, <2>5
  <2>7. \A n \in 1..Len(asked) : asked[n][1] \in Nat /\ asked[n][2] \in Nat
    BY <2>5
  <2>8. \A n \in 1..Len(asked) : asked[n][1] # initial \/ asked[n][2] # middle
    <3>1. ~Done(initial, middle)
      BY <1>2 DEF Done
    <3> QED BY <1>1, <3>1 DEF AskedInv
  <2>9. (\A n \in 1..Len(asked) : Split(asked[n][1], asked[n][2]) /\ Done(asked[n][1], asked[n][2]))'
    <3> SUFFICES ASSUME NEW n \in 1..Len(asked')
                 PROVE  (Split(asked[n][1], asked[n][2]) /\ Done(asked[n][1], asked[n][2]))'
      OBVIOUS
    <3>0. asked'[n] \in Nat \X Nat \X Seq(Int)
      <4>1. Len(asked') \in Nat
        BY <2>5, <2>6
      <4> QED BY <2>6, <4>1, ElementOfSeq
    <3>1. PICK x \in Nat, y \in Nat : x = asked'[n][1] /\ y = asked'[n][2]
      BY <3>0
    <3>2. Split(x, y) /\ (Done(x, y) \/ (x = initial /\ y = middle))
      <4>1. CASE n = Len(asked) + 1
        BY <1>6, <2>4, <2>6, <3>1, <4>1
      <4>2. CASE n # Len(asked) + 1
        <5>1. n \in 1..Len(asked)
          BY <2>5, <2>6, <4>2
        <5>2. x = asked[n][1] /\ y = asked[n][2]
          BY <2>6, <3>1, <5>1
        <5> QED BY <1>1, <5>1, <5>2 DEF AskedInv
      <4> QED BY <4>1, <4>2
    <3>3. Split(x, y)' /\ Done(x, y)'
      BY <1>2, <1>4, <3>2, SplitStays
    <3> QED BY <3>1, <3>3
  <2>10. (\A x, y \in Nat : Split(x, y) /\ Done(x, y) => \E n \in 1..Len(asked) : asked[n][1] = x /\ asked[n][2] = y)'
    <3> SUFFICES ASSUME NEW x \in Nat, NEW y \in Nat, Split(x, y)', Done(x, y)'
                 PROVE  \E n \in 1..Len(asked') : asked'[n][1] = x /\ asked'[n][2] = y
      OBVIOUS
    <3>1. CASE x = initial /\ y = middle
      <4>1. Len(asked) + 1 \in 1..Len(asked')
        BY <2>5, <2>6
      <4> QED BY <2>4, <2>6, <3>1, <4>1
    <3>2. CASE ~(x = initial /\ y = middle)
      <4>1. Split(x, y) /\ Done(x, y)
        BY <1>2, <1>4, <3>2, SplitStays
      <4>2. PICK n \in 1..Len(asked) : asked[n][1] = x /\ asked[n][2] = y
        BY <1>1, <4>1 DEF AskedInv
      <4>3. n \in 1..Len(asked')
        BY <2>5, <2>6
      <4> QED BY <2>6, <4>2, <4>3
    <3> QED BY <3>1, <3>2
  <2>11. (\A m, n \in 1..Len(asked) : asked[m][1] = asked[n][1] /\ asked[m][2] = asked[n][2] => m = n)'
    <3> SUFFICES ASSUME NEW m \in 1..Len(asked'), NEW n \in 1..Len(asked'),
                        asked'[m][1] = asked'[n][1], asked'[m][2] = asked'[n][2]
                 PROVE  m = n
      OBVIOUS
    <3>1. \A k \in 1..Len(asked') : k \in 1..Len(asked) \/ k = Len(asked) + 1
      BY <2>5, <2>6
    <3>2. CASE m \in 1..Len(asked) /\ n \in 1..Len(asked)
      BY <1>1, <2>6, <3>2 DEF AskedInv
    <3>3. CASE m \in 1..Len(asked) /\ n = Len(asked) + 1
      BY <2>4, <2>6, <2>8, <3>3
    <3>4. CASE m = Len(asked) + 1 /\ n \in 1..Len(asked)
      BY <2>4, <2>6, <2>8, <3>4
    <3> QED BY <3>1, <3>2, <3>3, <3>4
  <2>12. AskedInv'
    BY <2>9, <2>10, <2>11 DEF AskedInv
  <2>13. form_tmp' \in Seq(Int) /\ (form_tmp' = <<>> \/ Len(form_tmp') = Len(form))
    BY <1>1, <1>2, <2>2, MovedType DEF TypeInv
  <2> QED BY <2>6, <2>12, <2>13
<1> QED BY <1>5, <1>6

LEMMA MatchMiddleKeeps == IInv /\ MatchMiddle => IInv'
<1> SUFFICES ASSUME IInv, MatchMiddle PROVE IInv'
  OBVIOUS
<1>1. MasksInv' /\ middle_masks' \in Seq(SUBSET Filters)
  BY MasksStep
<1>2. /\ asked' \in Seq(Nat \X Nat \X Seq(Int)) /\ AskedInv'
      /\ form_tmp' \in Seq(Int) /\ (form_tmp' = <<>> \/ Len(form_tmp') = Len(form))
  BY AskedStep
<1>3. TypeInv'
  <2>1. UNCHANGED input /\ initial' = initial /\ middle' = middle + 1 /\ pc' = pc
    BY DEF MatchMiddle
  <2> QED BY <1>1, <1>2, <2>1 DEF IInv, TypeInv, input
<1> QED BY <1>1, <1>2, <1>3 DEF IInv
-----------------------------------------------------------------------------
(* What is guessed.                                                         *)

\* What the dictionary says of a word asked for a split, as far as the split allows it.
Put(x, y, word) ==
  {[a EXCEPT !.lemma = Part(x, y) \o @] :
     a \in {a \in Range(Dictionary(word)) : \E f \in Allowed(x, y) : matches(f, a.tag)}}

GuessInv ==
  /\ form_tmp \in Seq(Range(form))
  /\ lemmas \in Seq(tagged_lemma)
  /\ \A a : a \in Range(lemmas) <=> \E n \in 1..Len(asked) : a \in Put(asked[n][1], asked[n][2], asked[n][3])

LEMMA WordIsKnown ==
  ASSUME form \in Forms, NEW word \in Seq(Range(form)), Len(word) \in 1..Len(form)
  PROVE  Dictionary(word) \in Seq(tagged_lemma)
<1> DEFINE shape == <<Range(form), Len(form)>>
<1>1. shape \in {<<Range(f), Len(f)>> : f \in Forms}
  OBVIOUS
<1>2. word \in [1..Len(word) -> shape[1]] /\ Len(word) \in 1..shape[2]
  OBVIOUS
<1> HIDE DEF shape
<1> QED BY <1>1, <1>2, DictionaryAssumption

LEMMA GuessedIs ==
  ASSUME form \in Forms, NEW word \in Seq(Range(form)), Len(word) \in 1..Len(form),
         initial \in Nat, middle \in Nat, initial <= middle, middle <= Len(form), NEW mask, mask = Allowed(initial, middle)
  PROVE  Guessed(word, mask) \in Seq(tagged_lemma) /\ Range(Guessed(word, mask)) = Put(initial, middle, word)
<1> DEFINE D == Dictionary(word)
           passes(a) == \E f \in mask : matches(f, a.tag)
           put(a) == [a EXCEPT !.lemma = Part(initial, middle) \o @]
           guess(a) == IF passes(a) THEN <<put(a)>> ELSE <<>>
           seqs == [k \in DOMAIN D |-> guess(D[k])]
<1>1. D \in Seq(tagged_lemma)
  BY WordIsKnown
<1>2. Part(initial, middle) \in Seq(Int)
  <2>1. initial \in 0..Len(form) /\ middle \in initial..Len(form)
    BY FormIsSeq
  <2> QED BY <2>1, PartType
<1>3. ASSUME NEW a \in tagged_lemma PROVE put(a) \in tagged_lemma
  <2>0. a.lemma \in Seq(Int) /\ a.tag \in Seq(Int) /\ a = [lemma |-> a.lemma, tag |-> a.tag]
    BY DEF tagged_lemma
  <2> DEFINE longer == Part(initial, middle) \o a.lemma
  <2>1. a.lemma \in Seq(Int) /\ a.tag \in Seq(Int) /\ put(a) = [lemma |-> longer, tag |-> a.tag]
    <3> HIDE DEF longer
    <3>1. [a EXCEPT !.lemma = longer] = [lemma |-> longer, tag |-> a.tag]
      BY ONLY <2>0
    <3> QED BY <2>0, <3>1 DEF longer
  <2>2. Part(initial, middle) \o a.lemma \in Seq(Int)
    BY <1>2, <2>1, ConcatProperties
  <2> QED BY <2>1, <2>2 DEF tagged_lemma
<1> HIDE DEF put, passes
<1>4. ASSUME NEW a \in tagged_lemma
      PROVE  guess(a) \in Seq(tagged_lemma) /\ Range(guess(a)) = IF passes(a) THEN {put(a)} ELSE {}
  <2>1. CASE passes(a)
    <3>1. guess(a) = <<put(a)>>
      BY <2>1
    <3>2. Range(<<put(a)>>) = {put(a)}
      BY DEF Range
    <3> QED BY <1>3, <2>1, <3>1, <3>2
  <2>2. CASE ~passes(a)
    <3>1. guess(a) = <<>>
      BY <2>2
    <3>2. Range(<<>>) = {}
      BY DEF Range
    <3> QED BY <2>2, <3>1, <3>2
  <2> QED BY <2>1, <2>2
<1> HIDE DEF guess, D
<1>5. \A k \in 1..Len(D) : D[k] \in tagged_lemma
  BY <1>1, ElementOfSeq
<1>6. seqs \in Seq(Seq(tagged_lemma)) /\ Len(seqs) = Len(D) /\ \A k \in 1..Len(D) : seqs[k] = guess(D[k])
  <2>1. Len(D) \in Nat /\ DOMAIN D = 1..Len(D)
    BY <1>1
  <2>2. \A k \in 1..Len(D) : guess(D[k]) \in Seq(tagged_lemma)
    BY <1>4, <1>5
  <2> QED BY <2>1, <2>2
<1>7. Guessed(word, mask) = FlattenSeq(seqs)
  BY DEF Guessed, D, guess, put, passes
<1> HIDE DEF seqs
<1>8. FlattenSeq(seqs) \in Seq(tagged_lemma) /\ Range(FlattenSeq(seqs)) = UNION {Range(seqs[k]) : k \in 1..Len(seqs)}
  BY <1>6, Flattened
<1>9. \A b : b \in UNION {Range(seqs[k]) : k \in 1..Len(seqs)} <=> \E k \in 1..Len(D) : passes(D[k]) /\ b = put(D[k])
  <2>1. \A k \in 1..Len(D) : Range(seqs[k]) = IF passes(D[k]) THEN {put(D[k])} ELSE {}
    BY <1>4, <1>5, <1>6
  <2> QED BY <1>6, <2>1
<1>10. \A b : b \in Put(initial, middle, word) <=> \E k \in 1..Len(D) : passes(D[k]) /\ b = put(D[k])
  <2>1. Range(D) = {D[k] : k \in 1..Len(D)}
    BY <1>1, RangeEquality
  <2>2. Put(initial, middle, word) = {put(a) : a \in {a \in Range(D) : passes(a)}}
    BY DEF Put, put, passes, D
  <2> QED BY <2>1, <2>2
<1> QED BY <1>7, <1>8, <1>9, <1>10

LEMMA MovedChars ==
  ASSUME TypeInv, MasksInv, pc = "middle", form_tmp \in Seq(Range(form))
  PROVE  Moved \in Seq(Range(form))
<1> DEFINE tmp == IF form_tmp = <<>> THEN form ELSE form_tmp
<1>1. /\ initial \in Nat /\ middle \in Nat /\ initial <= middle /\ initial <= Len(form)
      /\ form \in Seq(Int) /\ Len(form) \in Nat /\ form \in Seq(Range(form))
  BY FormIsSeq, SeqOfRange DEF TypeInv, MasksInv
<1>2. tmp \in Seq(Range(form)) /\ Len(tmp) = Len(form)
  BY <1>1 DEF TypeInv
<1>3. \A k \in 1..Len(form) :
        (IF k \in middle - initial + 1..middle THEN form[k - (middle - initial)] ELSE tmp[k]) \in Range(form)
  <2>1. ASSUME NEW k \in middle - initial + 1..middle PROVE form[k - (middle - initial)] \in Range(form)
    <3>1. k - (middle - initial) \in 1..Len(form)
      BY <1>1
    <3> QED BY <1>1, <3>1, ElementOfSeq
  <2>2. \A k \in 1..Len(form) : tmp[k] \in Range(form)
    <3> HIDE DEF tmp
    <3> QED BY <1>2, ElementOfSeq
  <2> QED BY <2>1, <2>2
<1>4. Moved = [k \in 1..Len(form) |-> IF k \in middle - initial + 1..middle THEN form[k - (middle - initial)] ELSE tmp[k]]
  <2>1. DOMAIN tmp = 1..Len(form)
    BY <1>2
  <2> QED BY <2>1 DEF Moved
<1> HIDE DEF tmp
<1> QED BY <1>1, <1>3, <1>4

LEMMA PutStays ==
  ASSUME UNCHANGED input, NEW x, NEW y, NEW word
  PROVE  Put(x, y, word)' = Put(x, y, word)
<1>1. form' = form /\ Allowed(x, y)' = Allowed(x, y)
  BY InputStays
<1>2. Part(x, y)' = Part(x, y)
  BY <1>1 DEF Part
<1> QED BY <1>1, <1>2 DEF Put

LEMMA GuessStays ==
  ASSUME GuessInv, UNCHANGED input, UNCHANGED <<form_tmp, asked, lemmas>>
  PROVE  GuessInv'
<1>1. form' = form
  BY InputStays
<1>2. \A x, y, word : Put(x, y, word)' = Put(x, y, word)
  BY PutStays
<1> QED BY <1>1, <1>2 DEF GuessInv

LEMMA GuessStep ==
  ASSUME IInv, GuessInv, MatchMiddle
  PROVE  GuessInv'
<1>1. TypeInv /\ MasksInv
  BY DEF IInv
<1>2. /\ UNCHANGED input /\ form' = form /\ pc = "middle"
      /\ initial \in Nat /\ middle \in Nat /\ Len(form) \in Nat /\ initial <= middle /\ initial < Len(form)
      /\ middle < Len(middle_masks) /\ Len(middle_masks) \in Nat /\ Len(middle_masks) <= Len(form)
      /\ form \in Forms /\ form \in Seq(Int) /\ form \in Seq(Range(form))
  BY <1>1, FormIsSeq, SeqOfRange, InputStays DEF TypeInv, MasksInv, MatchMiddle
<1>3. middle_masks[middle + 1] = Allowed(initial, middle)
  BY <1>1, <1>2, MaskIsAllowed DEF MaskAt
<1>4. CASE middle_masks[middle + 1] = {} \/ ~(middle > initial)
  <2>1. UNCHANGED <<form_tmp, asked, lemmas>>
    BY <1>4 DEF MatchMiddle
  <2> QED BY <1>2, <2>1, GuessStays
<1>5. CASE middle_masks[middle + 1] # {} /\ middle > initial
  <2> DEFINE text == IF initial > 0 THEN Moved ELSE form
             word == SubSeq(text, middle - initial + 1, Len(form))
             q == <<initial, middle, word>>
  <2>1. /\ asked' = Append(asked, q) /\ form_tmp' = IF initial > 0 THEN Moved ELSE form_tmp
        /\ lemmas' = lemmas \o Guessed(word, middle_masks[middle + 1])
    BY <1>5 DEF MatchMiddle
  <2>2. text \in Seq(Range(form)) /\ Len(text) = Len(form)
    BY <1>1, <1>2, MovedType, MovedChars DEF GuessInv
  <2>3. word \in Seq(Range(form)) /\ Len(word) \in 1..Len(form)
    <3> HIDE DEF text
    <3>1. middle - initial + 1 \in 1..Len(form)
      BY <1>2, <1>5
    <3>2. \A k \in middle - initial + 1..Len(form) : text[k] \in Range(form)
      <4>1. \A k \in middle - initial + 1..Len(form) : k \in 1..Len(text)
        BY <1>2, <2>2, <3>1
      <4> QED BY <2>2, <4>1, ElementOfSeq
    <3>3. word \in Seq(Range(form)) /\ Len(word) = Len(form) - (middle - initial + 1) + 1
      BY <1>2, <2>2, <3>1, <3>2, SubSeqProperties
    <3> QED BY <1>2, <3>1, <3>3
  <2> HIDE DEF text
  <2>4. /\ Guessed(word, Allowed(initial, middle)) \in Seq(tagged_lemma)
        /\ Range(Guessed(word, Allowed(initial, middle))) = Put(initial, middle, word)
    <3> HIDE DEF word
    <3>1. middle <= Len(form)
      BY <1>2
    <3> QED BY <1>2, <2>3, <3>1, GuessedIs
  <2> HIDE DEF word
  <2>5. lemmas' \in Seq(tagged_lemma) /\ Range(lemmas') = Range(lemmas) \cup Put(initial, middle, word)
    BY <1>3, <2>1, <2>4, GluedIs DEF GuessInv
  <2>6. form_tmp' \in Seq(Range(form))
    BY <1>1, <1>2, <2>1, MovedChars DEF GuessInv
  <2>7. /\ asked \in Seq(Nat \X Nat \X Seq(Int)) /\ Len(asked) \in Nat
        /\ Len(asked') = Len(asked) + 1
        /\ \A n \in 1..Len(asked) : asked'[n] = asked[n]
        /\ asked'[Len(asked) + 1] = q
    <3>1. asked \in Seq(Nat \X Nat \X Seq(Int))
      BY <1>1 DEF TypeInv
    <3>2. q \in Nat \X Nat \X Seq(Int)
      <4>1. word \in Seq(Int)
        <5>1. \A k \in 1..Len(word) : word[k] \in Int
          <6>1. Range(form) \subseteq Int
            BY <1>2, RangeOfSeq
          <6> QED BY <2>3, <6>1, ElementOfSeq
        <5> QED BY <2>3, <5>1
      <4> QED BY <1>2, <4>1
    <3> HIDE DEF q
    <3> QED BY <2>1, <3>1, <3>2
  <2>8. q[1] = initial /\ q[2] = middle /\ q[3] = word
    OBVIOUS
  <2> HIDE DEF q
  <2>9. \A x, y, w : Put(x, y, w)' = Put(x, y, w)
    BY <1>2, PutStays
  <2>10. ASSUME NEW a
         PROVE  (\E n \in 1..Len(asked') : a \in Put(asked'[n][1], asked'[n][2], asked'[n][3]))
                  <=> (\E n \in 1..Len(asked) : a \in Put(asked[n][1], asked[n][2], asked[n][3]))
                        \/ a \in Put(initial, middle, word)
    <3>1. \A n : n \in 1..Len(asked') <=> n \in 1..Len(asked) \/ n = Len(asked) + 1
      BY <2>7
    <3> QED BY <2>7, <2>8, <3>1
  <2>11. \A a : a \in Range(lemmas') <=> \E n \in 1..Len(asked') : a \in Put(asked'[n][1], asked'[n][2], asked'[n][3])
    BY <2>5, <2>10 DEF GuessInv
  <2>12. \A a : (\E n \in 1..Len(asked) : a \in Put(asked[n][1], asked[n][2], asked[n][3]))'
                   <=> \E n \in 1..Len(asked') : a \in Put(asked'[n][1], asked'[n][2], asked'[n][3])
    BY <2>9
  <2> QED BY <1>2, <2>5, <2>6, <2>11, <2>12 DEF GuessInv
<1> QED BY <1>4, <1>5
-----------------------------------------------------------------------------
\* What the invariant is about stays while the other guessers work.
LEMMA GuesserStays ==
  ASSUME IInv, UNCHANGED guesserState
  PROVE  IInv'
<1>1. /\ UNCHANGED input /\ UNCHANGED <<initial, middle, middle_masks, form_tmp, asked, pc>>
  BY DEF guesserState
<1>2. TypeInv' /\ MasksInv'
  <2>1. TypeInv'
    BY <1>1, InputStays DEF IInv, TypeInv
  <2>2. \A k : MaskAt(k)' = MaskAt(k) /\ Past(k)' = Past(k)
    <3>1. \A k : MaskAt(k)' = MaskAt(k)
      BY <1>1 DEF MaskAt
    <3>2. \A k : Past(k)' = Past(k)
      <4> SUFFICES ASSUME NEW k PROVE Past(k)' = Past(k)
        OBVIOUS
      <4>1. Base(initial)' = Base(initial) /\ \A p : Onward(initial, p, k)' = Onward(initial, p, k)
        BY <1>1, InputStays
      <4> QED BY <1>1, <4>1 DEF Past
    <3> QED BY <3>1, <3>2
  <2>3. MasksInv'
    BY <1>1, <2>2, InputStays DEF IInv, MasksInv
  <2> QED BY <2>1, <2>3
<1>3. \A x, y \in Nat : Split(x, y) => (Done(x, y)' <=> Done(x, y))
  BY <1>1 DEF Done
<1>4. AskedInv'
  BY <1>1, <1>3, NothingAsked DEF IInv
<1> QED BY <1>2, <1>4 DEF IInv

LEMMA NextKeeps ==
  ASSUME IInv, Next
  PROVE  IInv'
BY MatchInitialKeeps, MatchMiddleKeeps, NextInitialKeeps, ReturnKeeps DEF Next

LEMMA IInvIsInductive == Spec => []IInv
<1>1. IInv /\ [Next]_vars => IInv'
  BY NextKeeps, GuesserStays DEF vars, guesserState
<1> QED BY InitIInv, <1>1, PTL DEF Spec

LEMMA DoneAskedAll ==
  ASSUME IInv
  PROVE  EverySplitAsked
<1> SUFFICES ASSUME IInv, pc = "done" PROVE EverySplitAsked
  BY DEF EverySplitAsked
<1> DEFINE splits == {s \in (0..Len(form) - 1) \X (1..Len(form) - 1) : s[1] < s[2] /\ Allowed(s[1], s[2]) # {}}
           f == [n \in 1..Len(asked) |-> <<asked[n][1], asked[n][2]>>]
<1>1. AskedInv /\ asked \in Seq(Nat \X Nat \X Seq(Int)) /\ Len(asked) \in Nat /\ DOMAIN asked = 1..Len(asked)
  BY DEF IInv, TypeInv
<1>2. \A x, y : Split(x, y) => <<x, y>> \in splits /\ x \in Nat /\ y \in Nat
  <2>1. Len(form) \in Nat
    BY FormIsSeq DEF IInv, TypeInv
  <2> QED BY <2>1 DEF Split
<1>3. \A s \in splits : Split(s[1], s[2]) /\ s = <<s[1], s[2]>>
  BY DEF Split
<1> HIDE DEF splits
<1>4. \A n \in 1..Len(asked) : f[n] \in splits
  BY <1>1, <1>2 DEF AskedInv
<1>5. \A s \in splits : \E n \in 1..Len(asked) : f[n] = s
  <2> SUFFICES ASSUME NEW s \in splits PROVE \E n \in 1..Len(asked) : f[n] = s
    OBVIOUS
  <2>1. Split(s[1], s[2]) /\ Done(s[1], s[2]) /\ s[1] \in Nat /\ s[2] \in Nat
    BY <1>2, <1>3 DEF Done
  <2>2. PICK n \in 1..Len(asked) : asked[n][1] = s[1] /\ asked[n][2] = s[2]
    BY <1>1, <2>1 DEF AskedInv
  <2> QED BY <1>3, <2>2
<1>6. \A m, n \in 1..Len(asked) : f[m] = f[n] => m = n
  BY <1>1 DEF AskedInv
<1>7. {<<q[1], q[2]>> : q \in Range(asked)} = splits
  <2>1. \A p : p \in {<<q[1], q[2]>> : q \in Range(asked)} <=> \E n \in 1..Len(asked) : p = f[n]
    BY <1>1 DEF Range
  <2> QED BY <1>4, <1>5, <2>1
<1>8. Cardinality(splits) = Len(asked)
  <2>1. f \in Bijection(1..Len(asked), splits)
    BY <1>4, <1>5, <1>6 DEF Bijection, Injection, Surjection, IsInjective
  <2>2. IsFiniteSet(1..Len(asked)) /\ Cardinality(1..Len(asked)) = Len(asked)
    <3>1. 1 \in Int /\ Len(asked) \in Int
      BY <1>1
    <3>2. IsFiniteSet(1..Len(asked)) /\ Cardinality(1..Len(asked)) = IF 1 > Len(asked) THEN 0 ELSE Len(asked) - 1 + 1
      BY <3>1, FS_Interval
    <3> QED BY <1>1, <3>2
  <2> QED BY <2>1, <2>2, FS_Bijection DEF ExistsBijection
<1> QED BY <1>7, <1>8 DEF EverySplitAsked, splits

\* What is guessed at the end is what the dictionary says of the words asked for.
LEMMA GuessInvIsEnough ==
  ASSUME IInv, GuessInv
  PROVE  GuessesAllowed
<1>1. Range(asked) = {asked[n] : n \in 1..Len(asked)}
  BY RangeEquality DEF IInv, TypeInv
<1>2. \A a : a \in UNION {Put(q[1], q[2], q[3]) : q \in Range(asked)}
               <=> \E n \in 1..Len(asked) : a \in Put(asked[n][1], asked[n][2], asked[n][3])
  BY <1>1
<1>3. Range(lemmas) = UNION {Put(q[1], q[2], q[3]) : q \in Range(asked)}
  BY <1>2 DEF GuessInv
<1> QED BY <1>3 DEF GuessesAllowed, Put

LEMMA GuessNext ==
  ASSUME IInv, GuessInv, Next
  PROVE  GuessInv'
<1>1. CASE MatchMiddle
  BY <1>1, GuessStep
<1>2. CASE MatchInitial \/ NextInitial \/ Return
  <2>1. UNCHANGED input /\ UNCHANGED <<form_tmp, asked, lemmas>>
    BY <1>2 DEF MatchInitial, NextInitial, Return
  <2> QED BY <2>1, GuessStays
<1> QED BY <1>1, <1>2 DEF Next
-----------------------------------------------------------------------------
(* The guessers of a morphology.                                            *)

\* A request is one of the calls, and the casings are asked about one after another.
RequestInv == (\E calls \in Calls : request \in calls) /\ turn \in Nat \ {0}

\* What each stage of the Czech analysis may rely on: the one that follows the prefix guesser
\* finds texts, and the last one finds no analysis twice.
StageInv ==
  /\ stage \in {"dictionary", "special"} => asked = <<>> /\ form_tmp = <<>>
  /\ prefix_guesser_guesses => stage \in {"statistical", "end", "converted"}
  /\ stage = "prefix" => GuessInv
  /\ stage = "statistical" /\ prefix_guesser_guesses => lemmas \in Seq(tagged_lemma)
  /\ stage = "end" /\ prefix_guesser_guesses => IsInjective(lemmas)

MorphoInv == IInv /\ RequestInv /\ StageInv

LEMMA CasingsType ==
  ASSUME RequestInv
  PROVE  Casings \in Seq(Seq(Int)) /\ request.text \in Seq(Int)
<1>1. request.text \in Seq(Int) /\ DOMAIN request.text = 1..Len(request.text) /\ Len(request.text) \in Nat
  BY CallsAssumption DEF RequestInv
<1>2. \A k \in 1..Len(request.text) : request.text[k] \in Int /\ lowercase(request.text[k]) \in Int
  BY <1>1, ElementOfSeq, CasingAssumption DEF lowercase, IsUpper
<1>3. form_lc(request.text) \in Seq(Int)
  BY <1>1, <1>2 DEF form_lc
<1>4. form_uclc(request.text) \in Seq(Int)
  BY <1>1, <1>2 DEF form_uclc
<1> DEFINE variant(t) == IF t = <<>> THEN <<>> ELSE <<t>>
<1>5. \A t \in Seq(Int) : variant(t) \in Seq(Seq(Int))
  OBVIOUS
<1>6. Casings = <<request.text>> \o variant(form_uclc(request.text)) \o variant(form_lc(request.text))
  BY DEF Casings, generate_casing_variants
<1>7. <<request.text>> \in Seq(Seq(Int))
  BY <1>1
<1> HIDE DEF variant
<1>8. <<request.text>> \o variant(form_uclc(request.text)) \in Seq(Seq(Int))
  BY <1>4, <1>5, <1>7, ConcatProperties
<1>9. <<request.text>> \o variant(form_uclc(request.text)) \o variant(form_lc(request.text)) \in Seq(Seq(Int))
  BY <1>3, <1>5, <1>8, ConcatProperties
<1> QED BY <1>1, <1>6, <1>9

\* The rules that are found are rules of the table.
LEMMA BestIsLabel ==
  ASSUME NEW text \in Seq(Int), BestLabel(text) # <<>>
  PROVE  BestLabel(text) \in DOMAIN rules
<1> DEFINE ends == {s \in SuffixesOf(text) : Ruled(text, s) # {}}
<1>1. Len(text) \in Nat
  OBVIOUS
<1>2. ends # {} /\ BestLabel(text) = LabelIn(text, Max(ends), Max(Ruled(text, Max(ends))))
  BY DEF BestLabel
<1>3. ends \in SUBSET (0..Len(text))
  BY DEF SuffixesOf
<1>4. Max(ends) \in ends
  <2> HIDE DEF ends
  <2> QED BY <1>1, <1>2, <1>3, GreatestIsMax
<1> DEFINE s == Max(ends)
<1>5. s \in 0..Len(text) /\ Ruled(text, s) # {}
  BY <1>3, <1>4
<1> HIDE DEF s
<1>6. Ruled(text, s) \in SUBSET (0..Len(text) - s) /\ Len(text) - s \in Nat
  BY <1>1, <1>5 DEF Ruled, PrefixesOf
<1>7. Max(Ruled(text, s)) \in Ruled(text, s)
  BY <1>5, <1>6, GreatestIsMax
<1>8. LabelIn(text, s, Max(Ruled(text, s))) \in DOMAIN rules
  BY <1>7 DEF Ruled
<1> QED BY <1>2, <1>8 DEF s

LEMMA ByRuleType ==
  ASSUME NEW rule \in lemma_rules, NEW tags \in Seq(Seq(Int)), NEW text \in Seq(Int), Applies(rule, text)
  PROVE  ByRule(rule, tags, text) \in Seq(tagged_lemma)
<1> DEFINE stem == SubSeq(text, Len(rule.pref_del) + 1, Len(text) - Len(rule.suff_del))
           lemma == rule.pref_add \o stem \o rule.suff_add
<1>1. /\ rule.pref_del \in Seq(Int) /\ rule.pref_add \in Seq(Int) /\ rule.suff_del \in Seq(Int) /\ rule.suff_add \in Seq(Int)
  BY DEF lemma_rules
<1>2. Len(rule.pref_del) \in Nat /\ Len(rule.suff_del) \in Nat /\ Len(text) \in Nat
  BY <1>1
<1>3. stem \in Seq(Int)
  <2>1. \A k \in Len(rule.pref_del) + 1..Len(text) - Len(rule.suff_del) : text[k] \in Int
    <3>1. \A k \in Len(rule.pref_del) + 1..Len(text) - Len(rule.suff_del) : k \in 1..Len(text)
      BY <1>2
    <3> QED BY <3>1, ElementOfSeq
  <2>2. Len(rule.pref_del) + 1 \in Int /\ Len(text) - Len(rule.suff_del) \in Int
    BY <1>2
  <2> QED BY <2>1, <2>2, SubSeqProperties
<1> HIDE DEF stem
<1>4. lemma \in Seq(Int)
  <2>1. rule.pref_add \o stem \in Seq(Int)
    BY <1>1, <1>3, ConcatProperties
  <2> QED BY <1>1, <2>1, ConcatProperties
<1>5. ByRule(rule, tags, text) = [k \in DOMAIN tags |-> Analysis(lemma, tags[k])]
  BY DEF ByRule, stem
<1> HIDE DEF lemma
<1>6. \A k \in 1..Len(tags) : Analysis(lemma, tags[k]) \in tagged_lemma
  <2>1. \A k \in 1..Len(tags) : tags[k] \in Seq(Int)
    BY ElementOfSeq
  <2> QED BY <1>4, <2>1 DEF Analysis, tagged_lemma
<1>7. DOMAIN tags = 1..Len(tags) /\ Len(tags) \in Nat
  OBVIOUS
<1> QED BY <1>5, <1>6, <1>7

\* What the rules yield is made of texts.
LEMMA ByRulesType ==
  ASSUME RequestInv, StatisticalGuesses, NEW text \in Seq(Int)
  PROVE  ByRules(text) \in Seq(tagged_lemma) /\ request.statistical[1].default_tag \in Seq(Int)
<1> DEFINE Rule == [lemma_rule : lemma_rules, tags : Seq(Seq(Int))]
           label == BestLabel(text)
           by(r) == IF Applies(r.lemma_rule, text) THEN ByRule(r.lemma_rule, r.tags, text) ELSE <<>>
           seqs == [k \in DOMAIN rules[label] |-> by(rules[label][k])]
<1>1. request.statistical[1].default_tag \in Seq(Int) /\ \A l \in DOMAIN rules : rules[l] \in Seq(Rule)
  BY CallsAssumption DEF RequestInv, StatisticalGuesses, rules
<1>2. ByRules(text) = IF Len(label) <= 1 \/ label \in used THEN <<>> ELSE FlattenSeq(seqs)
  BY DEF ByRules
<1>3. CASE Len(label) <= 1 \/ label \in used
  BY <1>1, <1>2, <1>3
<1>4. CASE ~ (Len(label) <= 1 \/ label \in used)
  <2>1. label # <<>>
    <3>1. Len(<<>>) <= 1
      OBVIOUS
    <3> HIDE DEF label
    <3> QED BY <1>4, <3>1
  <2>2. rules[label] \in Seq(Rule)
    BY <1>1, <2>1, BestIsLabel
  <2> HIDE DEF label
  <2>3. ASSUME NEW k \in 1..Len(rules[label]) PROVE by(rules[label][k]) \in Seq(tagged_lemma)
    <3>1. rules[label][k] \in Rule
      BY <2>2, ElementOfSeq
    <3>2. rules[label][k].lemma_rule \in lemma_rules /\ rules[label][k].tags \in Seq(Seq(Int))
      BY <3>1
    <3> QED BY <3>2, ByRuleType
  <2>4. Len(rules[label]) \in Nat /\ DOMAIN rules[label] = 1..Len(rules[label])
    BY <2>2
  <2> HIDE DEF by
  <2>5. seqs \in Seq(Seq(tagged_lemma))
    BY <2>3, <2>4
  <2> HIDE DEF seqs
  <2> QED BY <1>1, <1>2, <1>4, <2>5, Flattened
<1> QED BY <1>3, <1>4

LEMMA MorphoInitInv == MorphoInit => MorphoInv
<1> SUFFICES ASSUME MorphoInit PROVE MorphoInv
  OBVIOUS
<1>1. IInv
  BY InitIInv DEF MorphoInit
<1>2. stage \in {"external", "dictionary", "generate"}
  BY DEF MorphoInit
<1>3. asked = <<>> /\ form_tmp = <<>> /\ prefix_guesser_guesses = FALSE /\ turn = 1
  BY DEF MorphoInit, Init
<1>4. RequestInv
  BY <1>3 DEF MorphoInit, RequestInv
<1> QED BY <1>1, <1>2, <1>3, <1>4 DEF MorphoInv, StageInv

\* One step per stage.
LEMMA AskPrefixGuesserKeeps ==
  ASSUME MorphoInv, AskPrefixGuesser
  PROVE  MorphoInv'
<1>1. IInv' /\ GuessInv'
  BY NextKeeps, GuessNext DEF MorphoInv, StageInv, AskPrefixGuesser
<1>2. stage = "prefix" /\ UNCHANGED <<request, stage, turn, prefix_guesser_guesses>>
  BY DEF AskPrefixGuesser
<1>3. RequestInv'
  BY <1>2 DEF MorphoInv, RequestInv
<1>4. ~prefix_guesser_guesses'
  BY <1>2 DEF MorphoInv, StageInv
<1> QED BY <1>1, <1>2, <1>3, <1>4 DEF MorphoInv, StageInv

LEMMA AnalyzeSpecialKeeps ==
  ASSUME MorphoInv, AnalyzeSpecial
  PROVE  MorphoInv'
<1>1. UNCHANGED guesserState /\ UNCHANGED <<request, turn, prefix_guesser_guesses>> /\ stage = "special"
  BY DEF AnalyzeSpecial
<1>2. IInv' /\ asked' = <<>> /\ form_tmp' = <<>>
  <2>1. asked' = asked /\ form_tmp' = form_tmp
    BY <1>1 DEF guesserState
  <2> QED BY <1>1, <2>1, GuesserStays DEF MorphoInv, StageInv
<1>3. RequestInv'
  BY <1>1 DEF MorphoInv, RequestInv
<1>4. ~prefix_guesser_guesses'
  BY <1>1 DEF MorphoInv, StageInv
<1>5. stage' \in {"end", "rules", "prefix"} /\ (stage' = "prefix" => lemmas' = <<>>)
  BY DEF AnalyzeSpecial
<1>6. ASSUME stage' = "prefix" PROVE GuessInv'
  <2>1. lemmas' = <<>> /\ asked' = <<>> /\ form_tmp' = <<>>
    BY <1>2, <1>5, <1>6
  <2>2. lemmas' \in Seq(tagged_lemma) /\ Range(lemmas') = {}
    BY <2>1 DEF Range
  <2>3. Len(asked') = 0
    BY <2>1
  <2>4. form_tmp' \in Seq(Range(form'))
    BY <2>1
  <2> QED BY <2>2, <2>3, <2>4 DEF GuessInv
<1> QED BY <1>2, <1>3, <1>4, <1>5, <1>6 DEF MorphoInv, StageInv

LEMMA EndPrefixGuesserKeeps ==
  ASSUME MorphoInv, EndPrefixGuesser
  PROVE  MorphoInv'
<1>1. /\ UNCHANGED guesserState /\ UNCHANGED <<request, turn, lemmas>> /\ stage = "prefix" /\ stage' = "statistical"
  BY DEF EndPrefixGuesser, vars, guesserState
<1>2. IInv'
  BY <1>1, GuesserStays DEF MorphoInv
<1>3. RequestInv'
  BY <1>1 DEF MorphoInv, RequestInv
<1>4. lemmas' \in Seq(tagged_lemma)
  BY <1>1 DEF MorphoInv, StageInv, GuessInv
<1> QED BY <1>1, <1>2, <1>3, <1>4 DEF MorphoInv, StageInv

LEMMA AskStatisticalGuesserKeeps ==
  ASSUME MorphoInv, AskStatisticalGuesser
  PROVE  MorphoInv'
<1> DEFINE text == Casings[turn]
           default == ByRules(text) = <<>> /\ <<>> \notin used
           last == IF default THEN <<Analysis(text, request.statistical[1].default_tag)>> ELSE <<>>
<1>1. /\ UNCHANGED guesserState /\ UNCHANGED <<request, stage, prefix_guesser_guesses>> /\ turn' = turn + 1
      /\ stage = "statistical" /\ StatisticalGuesses /\ turn <= Len(Casings)
      /\ lemmas' = lemmas \o ByRules(text) \o last
  BY DEF AskStatisticalGuesser
<1>2. IInv'
  BY <1>1, GuesserStays DEF MorphoInv
<1>3. RequestInv'
  BY <1>1 DEF MorphoInv, RequestInv
<1>4. text \in Seq(Int)
  <2>1. Casings \in Seq(Seq(Int))
    BY CasingsType DEF MorphoInv
  <2>2. turn \in 1..Len(Casings)
    BY <1>1, <2>1 DEF MorphoInv, RequestInv
  <2> QED BY <2>1, <2>2, ElementOfSeq
<1> HIDE DEF text, default
<1>5. ByRules(text) \in Seq(tagged_lemma) /\ last \in Seq(tagged_lemma)
  <2>1. ByRules(text) \in Seq(tagged_lemma) /\ request.statistical[1].default_tag \in Seq(Int)
    BY <1>1, <1>4, ByRulesType DEF MorphoInv
  <2>2. Analysis(text, request.statistical[1].default_tag) \in tagged_lemma
    BY <1>4, <2>1 DEF Analysis, tagged_lemma
  <2> QED BY <2>1, <2>2
<1> HIDE DEF last
<1>6. ASSUME prefix_guesser_guesses' PROVE lemmas' \in Seq(tagged_lemma)
  <2>1. lemmas \in Seq(tagged_lemma)
    BY <1>1, <1>6 DEF MorphoInv, StageInv
  <2>2. lemmas \o ByRules(text) \in Seq(tagged_lemma)
    BY <1>5, <2>1, ConcatProperties
  <2>3. lemmas \o ByRules(text) \o last \in Seq(tagged_lemma)
    BY <1>5, <2>2, ConcatProperties
  <2> QED BY <1>1, <2>3
<1> QED BY <1>1, <1>2, <1>3, <1>6 DEF MorphoInv, StageInv

LEMMA EndGuessingKeeps ==
  ASSUME MorphoInv, EndGuessing
  PROVE  MorphoInv'
<1>1. /\ UNCHANGED guesserState /\ UNCHANGED <<request, turn, prefix_guesser_guesses>>
      /\ stage = "statistical" /\ stage' = "end"
      /\ lemmas' = IF lemmas = <<>> THEN <<Analysis(request.text, Tags.unknown_tag)>>
                   ELSE IF prefix_guesser_guesses THEN UniquePairs(lemmas) ELSE lemmas
  BY DEF EndGuessing
<1>2. IInv'
  BY <1>1, GuesserStays DEF MorphoInv
<1>3. RequestInv'
  BY <1>1 DEF MorphoInv, RequestInv
<1>4. ASSUME prefix_guesser_guesses' PROVE IsInjective(lemmas')
  <2>1. CASE lemmas = <<>>
    <3>1. \A x : IsInjective(<<x>>)
      BY DEF IsInjective
    <3> QED BY <1>1, <2>1, <3>1
  <2>2. CASE lemmas # <<>>
    <3>1. lemmas \in Seq(tagged_lemma)
      BY <1>1, <1>4 DEF MorphoInv, StageInv
    <3>2. lemmas' = unique_analyzed(lemmas)
      BY <1>1, <1>4, <2>2 DEF UniquePairs
    <3>3. IsInjective(unique_analyzed(lemmas))
      BY <3>1, UniqueIsInjective
    <3> QED BY <3>2, <3>3
  <2> QED BY <2>1, <2>2
<1> QED BY <1>1, <1>2, <1>3, <1>4 DEF MorphoInv, StageInv

\* The other steps end, or lead to a stage that says nothing yet.
LEMMA OthersKeep ==
  ASSUME MorphoInv,
         AnalyzeByDictionary \/ AskEnglishGuesser \/ Generate \/ AnalyzeExternal \/ GenerateExternal \/ Convert
  PROVE  MorphoInv'
<1>1. UNCHANGED guesserState /\ UNCHANGED <<request, turn, prefix_guesser_guesses>>
  BY DEF AnalyzeByDictionary, AskEnglishGuesser, Generate, AnalyzeExternal, GenerateExternal, Convert, vars, guesserState
<1>2. IInv' /\ asked' = asked /\ form_tmp' = form_tmp
  BY <1>1, GuesserStays DEF MorphoInv, guesserState
<1>3. RequestInv'
  BY <1>1 DEF MorphoInv, RequestInv
<1>4. CASE Convert
  <2>1. stage' = "converted"
    BY <1>4 DEF Convert
  <2> QED BY <1>2, <1>3, <2>1 DEF MorphoInv, StageInv
<1>5. CASE AnalyzeByDictionary
  <2>1. stage = "dictionary" /\ stage' \in {"end", "special"}
    BY <1>5 DEF AnalyzeByDictionary
  <2>2. ~prefix_guesser_guesses'
    BY <1>1, <2>1 DEF MorphoInv, StageInv
  <2>3. asked = <<>> /\ form_tmp = <<>>
    BY <2>1 DEF MorphoInv, StageInv
  <2> QED BY <1>2, <1>3, <2>1, <2>2, <2>3 DEF MorphoInv, StageInv
<1>6. CASE AskEnglishGuesser \/ Generate \/ AnalyzeExternal \/ GenerateExternal
  <2>1. stage \in {"rules", "generate", "external"} /\ stage' \in {"statistical", "end"}
    BY <1>6 DEF AskEnglishGuesser, Generate, AnalyzeExternal, GenerateExternal
  <2>2. ~prefix_guesser_guesses'
    BY <1>1, <2>1 DEF MorphoInv, StageInv
  <2> QED BY <1>2, <1>3, <2>1, <2>2 DEF MorphoInv, StageInv
<1> QED BY <1>4, <1>5, <1>6

LEMMA MorphoStays ==
  ASSUME MorphoInv, UNCHANGED morphoVars
  PROVE  MorphoInv'
<1>1. UNCHANGED guesserState /\ UNCHANGED <<request, stage, turn, prefix_guesser_guesses, lemmas>>
  BY DEF morphoVars, vars, guesserState
<1>2. IInv' /\ UNCHANGED input /\ UNCHANGED <<form_tmp, asked, lemmas>>
  BY <1>1, GuesserStays DEF MorphoInv, guesserState
<1>3. RequestInv'
  BY <1>1 DEF MorphoInv, RequestInv
<1>4. stage = "prefix" => GuessInv'
  BY <1>2, GuessStays DEF MorphoInv, StageInv
<1> QED BY <1>1, <1>2, <1>3, <1>4 DEF MorphoInv, StageInv

LEMMA MorphoInvIsInductive == MorphoSpec => []MorphoInv
<1>1. MorphoInv /\ [MorphoNext]_morphoVars => MorphoInv'
  BY AskPrefixGuesserKeeps, AnalyzeSpecialKeeps, EndPrefixGuesserKeeps, AskStatisticalGuesserKeeps, EndGuessingKeeps,
     OthersKeep, MorphoStays DEF MorphoNext
<1> QED BY MorphoInitInv, <1>1, PTL DEF MorphoSpec

\* When the prefix guesser is done, alone or in a morphology, it has asked the dictionary for
\* every way to cut a form into an initial prefix, middle prefixes and a rest that some filter
\* allows throughout, and for each of them once, whatever the forms, the filters and the prefixes.
THEOREM EverySplitIsAsked == (Spec => []EverySplitAsked) /\ (MorphoSpec => []EverySplitAsked)
<1>1. IInv => EverySplitAsked
  BY DoneAskedAll
<1>2. MorphoInv => EverySplitAsked
  BY DoneAskedAll DEF MorphoInv
<1> QED BY IInvIsInductive, MorphoInvIsInductive, <1>1, <1>2, PTL

\* What the prefix guesser has guessed by then is what the dictionary says of the words that it
\* asked for, with the cut prefix put back, as far as the tags match a filter that all prefixes
\* allow: no analysis is forgotten and none is added, whatever the dictionary says.
THEOREM GuessesAreAllowed == MorphoSpec => [](stage = "prefix" => GuessesAllowed)
<1>1. MorphoInv => (stage = "prefix" => GuessesAllowed)
  BY GuessInvIsEnough DEF MorphoInv, StageInv
<1> QED BY MorphoInvIsInductive, <1>1, PTL

\* No analysis is reported twice when the prefix guesser has something to say, although several
\* splits may lead to one and the statistical guesser may propose it again.
THEOREM AnalysesAreUnique == MorphoSpec => []AnalysesUnique
<1>1. MorphoInv => AnalysesUnique
  BY DEF MorphoInv, StageInv, AnalysesUnique
<1> QED BY MorphoInvIsInductive, <1>1, PTL

-----------------------------------------------------------------------------
(* DerivatorEncoder. *)

InFiles == \E file \in Files : morpho = file[2]
Phases == phase \in {"read", "choose", "mark", "failed", "encode"}
LemmasNamed == NoParent \notin Nodes

\* While the file is read.
ParentsKnown ==
  /\ DOMAIN parents = Nodes
  /\ \A l \in Nodes : parents[l] \subseteq Nodes

\* Afterwards.
ParentChosen == phase # "read" =>
  /\ DOMAIN parent = Nodes /\ DOMAIN marks = Nodes
  /\ \A l \in Nodes : parent[l] \in Nodes \cup {NoParent} /\ marks[l] \in Nat
  /\ todo \subseteq Nodes

NotWalking == phase \in {"read", "choose"} => mark = 0 /\ node = NoNode /\ contains_cycle = FALSE
Unmarked == phase = "choose" => \A l \in Nodes : marks[l] = 0

Shape ==
  /\ InFiles /\ Phases /\ LemmasNamed /\ ParentsKnown /\ ParentChosen
  /\ NotWalking /\ Unmarked
  /\ mark \in Nat /\ node \in Nodes \cup {NoNode} /\ contains_cycle \in BOOLEAN

\* No lemma has a mark of a walk to come, and the walk that goes on is at a lemma of its own mark.
MarksBounded == \A l \in Nodes : marks[l] <= mark
AtOwnMark == node # NoNode => mark > 0 /\ marks[node] = mark

\* What this walk has marked leads up to where it is.
WalkIsPath == node # NoNode =>
  \A l \in Nodes \ {node} : marks[l] = mark => parent[l] \in Nodes /\ marks[parent[l]] = mark

\* Without a report, only the walk that goes on may be on a cycle.
CyclesAhead == contains_cycle = FALSE =>
  \A S \in SUBSET Nodes : Trapped(S) =>
    \A l \in S : marks[l] # 0 => marks[l] = mark /\ node \in S

CycleThere == contains_cycle = TRUE => \E S \in SUBSET Nodes : Trapped(S)
VisitedMarked == \A l \in Nodes \ todo : marks[l] # 0

Marking == phase = "mark" =>
  MarksBounded /\ AtOwnMark /\ WalkIsPath /\ CyclesAhead /\ CycleThere /\ VisitedMarked

CycleInv == Shape /\ Marking /\ CyclesRefused

LEMMA InitCycles == EncoderInit => CycleInv
  <1> SUFFICES ASSUME EncoderInit PROVE CycleInv
    OBVIOUS
  <1>1. Nodes = {}
    BY DEF EncoderInit, Nodes
  <1>2. InFiles
    BY DEF EncoderInit, InFiles
  <1>3. DOMAIN parents = {}
    BY DEF EncoderInit
  <1>4. Shape
    BY <1>1, <1>2, <1>3 DEF EncoderInit, Shape, Phases, LemmasNamed, ParentsKnown, ParentChosen, NotWalking, Unmarked
  <1>5. Marking /\ CyclesRefused
    BY DEF EncoderInit, Marking, CyclesRefused
  <1> QED BY <1>4, <1>5 DEF CycleInv

\* Lemma ids of the file are not empty.
LEMMA MatchedNamed ==
  ASSUME InFiles, NEW column PROVE NoParent \notin DOMAIN matched(column)
  <1>1. PICK file \in Files : morpho = file[2]
    BY DEF InFiles
  <1>2. DOMAIN matched(column) = {Id(l) : l \in Identified(column)}
    BY DEF matched
  <1>3. ASSUME NEW l \in Identified(column) PROVE Id(l) # <<>>
    <2>1. l \in generate(column)
      BY DEF Identified
    <2>2. PICK entry \in morpho : l = entry.lemma
      BY <2>1 DEF generate
    <2> QED BY <1>1, <2>2, FilesAssumption
  <1> QED BY <1>2, <1>3 DEF NoParent

\* A line adds lemmas with names, and parents among the lemmas.
LEMMA ReadLineCycles ==
  ASSUME CycleInv, ReadLine PROVE CycleInv'
  <1>1. /\ phase = "read" /\ Shape
        /\ UNCHANGED <<lines, morpho, phase, parent, children, marks, todo, mark, node, contains_cycle>>
    BY DEF CycleInv, ReadLine
  <1>2. CASE UNCHANGED <<info, parents>>
    BY <1>1, <1>2 DEF Shape, InFiles, Phases, LemmasNamed, ParentsKnown, ParentChosen, NotWalking, Unmarked,
                      CycleInv, Marking, CyclesRefused, Nodes
  <1>3. CASE \E child, above :
               /\ child = matched(lines[row][1]) /\ above = matched(lines[row][2])
               /\ info' = Inserted(Inserted(info, child), above)
               /\ parents' = [l \in DOMAIN Inserted(Inserted(info, child), above) |->
                                (IF l \in DOMAIN info THEN parents[l] ELSE {})
                                  \cup (IF l \in DOMAIN child THEN DOMAIN above ELSE {})]
    <2>1. PICK child, above :
               /\ child = matched(lines[row][1]) /\ above = matched(lines[row][2])
               /\ info' = Inserted(Inserted(info, child), above)
               /\ parents' = [l \in DOMAIN Inserted(Inserted(info, child), above) |->
                                (IF l \in DOMAIN info THEN parents[l] ELSE {})
                                  \cup (IF l \in DOMAIN child THEN DOMAIN above ELSE {})]
      BY <1>3
    <2>2. Nodes' = Nodes \cup DOMAIN child \cup DOMAIN above
      BY <2>1 DEF Inserted, Nodes
    <2>3. NoParent \notin DOMAIN child /\ NoParent \notin DOMAIN above
      BY <1>1, <2>1, MatchedNamed DEF Shape
    <2>4. LemmasNamed'
      BY <1>1, <2>2, <2>3 DEF Shape, LemmasNamed
    <2>5. ParentsKnown'
      <3>1. DOMAIN parents' = Nodes'
        BY <2>1 DEF Nodes
      <3>2. \A l \in Nodes' : parents'[l] = (IF l \in Nodes THEN parents[l] ELSE {})
                                              \cup (IF l \in DOMAIN child THEN DOMAIN above ELSE {})
        BY <2>1, <3>1 DEF Nodes
      <3>3. \A l \in Nodes : parents[l] \subseteq Nodes
        BY <1>1 DEF Shape, ParentsKnown
      <3>4. \A l \in Nodes' : parents'[l] \subseteq Nodes'
        BY <2>2, <3>2, <3>3
      <3> QED BY <3>1, <3>4 DEF ParentsKnown
    <2>6. node' \in Nodes' \cup {NoNode}
      BY <1>1, <2>2 DEF Shape
    <2>7. Shape'
      BY <1>1, <2>4, <2>5, <2>6 DEF Shape, InFiles, Phases, ParentChosen, NotWalking, Unmarked
    <2> QED BY <1>1, <2>7 DEF CycleInv, Marking, CyclesRefused
  <1> QED BY <1>2, <1>3 DEF ReadLine

LEMMA EndReadingCycles ==
  ASSUME CycleInv, EndReading PROVE CycleInv'
  <1>1. /\ phase = "read" /\ Shape /\ phase' = "choose"
        /\ parent' = [l \in Nodes |-> NoParent] /\ marks' = [l \in Nodes |-> 0] /\ todo' = Nodes
        /\ UNCHANGED <<lines, morpho, row, info, parents, mark, node, contains_cycle>>
    BY DEF CycleInv, EndReading
  <1>2. Nodes' = Nodes
    BY <1>1 DEF Nodes
  <1>3. ParentChosen' /\ Unmarked'
    BY <1>1, <1>2 DEF ParentChosen, Unmarked
  <1>4. Shape'
    BY <1>1, <1>2, <1>3 DEF Shape, InFiles, Phases, LemmasNamed, ParentsKnown, NotWalking
  <1> QED BY <1>1, <1>4 DEF CycleInv, Marking, CyclesRefused

LEMMA ChooseParentCycles ==
  ASSUME CycleInv, ChooseParent PROVE CycleInv'
  <1>1. /\ phase = "choose" /\ Shape
        /\ UNCHANGED <<lines, morpho, phase, row, info, parents, marks, mark, node, contains_cycle>>
    BY DEF CycleInv, ChooseParent
  <1>2. Nodes' = Nodes
    BY <1>1 DEF Nodes
  <1>3. PICK l \in todo :
           /\ todo' = todo \ {l}
           /\ \/ UNCHANGED parent
              \/ \E p \in Candidates(l) : parent' = [parent EXCEPT ![l] = p]
    BY DEF ChooseParent
  <1>4. /\ DOMAIN parent = Nodes /\ DOMAIN marks = Nodes /\ todo \subseteq Nodes
        /\ \A k \in Nodes : parent[k] \in Nodes \cup {NoParent} /\ marks[k] \in Nat
    BY <1>1 DEF Shape, ParentChosen
  <1>5. Candidates(l) \subseteq Nodes
    BY <1>1, <1>4 DEF Candidates, Shape, ParentsKnown
  <1>6. DOMAIN parent' = Nodes /\ \A k \in Nodes : parent'[k] \in Nodes \cup {NoParent}
    <2>1. CASE UNCHANGED parent
      BY <1>4, <2>1
    <2>2. CASE \E p \in Candidates(l) : parent' = [parent EXCEPT ![l] = p]
      BY <1>4, <1>5, <2>2
    <2> QED BY <1>3, <2>1, <2>2
  <1>7. ParentChosen' /\ Unmarked'
    BY <1>1, <1>2, <1>3, <1>4, <1>6 DEF ParentChosen, Unmarked, Shape
  <1>8. Shape'
    BY <1>1, <1>2, <1>7 DEF Shape, InFiles, Phases, LemmasNamed, ParentsKnown, NotWalking
  <1> QED BY <1>1, <1>8 DEF CycleInv, Marking, CyclesRefused

\* Before the first walk no lemma has a mark.
LEMMA EndChoosingCycles ==
  ASSUME CycleInv, EndChoosing PROVE CycleInv'
  <1>1. /\ phase = "choose" /\ Shape /\ phase' = "mark" /\ todo' = Nodes
        /\ UNCHANGED <<lines, morpho, row, info, parents, parent, children, marks, mark, node, contains_cycle>>
    BY DEF CycleInv, EndChoosing, derinet
  <1>2. Nodes' = Nodes
    BY <1>1 DEF Nodes
  <1>3. Shape'
    BY <1>1, <1>2 DEF Shape, InFiles, Phases, LemmasNamed, ParentsKnown, ParentChosen, NotWalking, Unmarked
  <1>4. /\ \A l \in Nodes' : marks'[l] = 0
        /\ mark' = 0 /\ node' = NoNode /\ contains_cycle' = FALSE
    BY <1>1, <1>2 DEF Shape, Unmarked, NotWalking
  <1>5. MarksBounded' /\ AtOwnMark' /\ WalkIsPath' /\ CycleThere'
    BY <1>4 DEF MarksBounded, AtOwnMark, WalkIsPath, CycleThere
  <1>6. VisitedMarked' /\ CyclesAhead'
    BY <1>1, <1>2, <1>4 DEF VisitedMarked, CyclesAhead
  <1> QED BY <1>1, <1>3, <1>5, <1>6 DEF CycleInv, Marking, CyclesRefused

\* A walk never changes the parents, so it changes no cycle.
LEMMA SameCycles ==
  ASSUME UNCHANGED <<info, parent>>
  PROVE  Nodes' = Nodes /\ \A S : Trapped(S)' <=> Trapped(S)
  BY DEF Nodes, Trapped

LEMMA BeginWalkCycles ==
  ASSUME CycleInv, BeginWalk PROVE CycleInv'
  <1>1. /\ phase = "mark" /\ Shape /\ node = NoNode
        /\ MarksBounded /\ AtOwnMark /\ WalkIsPath /\ CyclesAhead /\ CycleThere /\ VisitedMarked
    BY DEF CycleInv, BeginWalk, Marking
  <1>2. UNCHANGED <<lines, morpho, phase, row, info, parents, parent, children, contains_cycle>>
    BY DEF BeginWalk
  <1>3. PICK l \in todo : /\ todo' = todo \ {l} /\ mark' = mark + 1
                          /\ marks' = [marks EXCEPT ![l] = mark + 1] /\ node' = l
    BY DEF BeginWalk
  <1>4. /\ DOMAIN parent = Nodes /\ DOMAIN marks = Nodes /\ todo \subseteq Nodes
        /\ \A k \in Nodes : parent[k] \in Nodes \cup {NoParent} /\ marks[k] \in Nat
        /\ mark \in Nat /\ l \in Nodes /\ NoParent \notin Nodes
    BY <1>1, <1>3 DEF Shape, ParentChosen, LemmasNamed
  <1>5. Nodes' = Nodes /\ \A S : Trapped(S)' <=> Trapped(S)
    BY <1>2, SameCycles
  <1>6. DOMAIN marks' = Nodes /\ marks'[l] = mark + 1 /\ \A k \in Nodes \ {l} : marks'[k] = marks[k]
    BY <1>3, <1>4
  <1>7. Shape'
    <2>1. ParentChosen'
      BY <1>2, <1>3, <1>4, <1>5, <1>6 DEF ParentChosen
    <2> QED BY <1>1, <1>2, <1>3, <1>4, <1>5, <2>1
            DEF Shape, InFiles, Phases, LemmasNamed, ParentsKnown, NotWalking, Unmarked
  <1>8. MarksBounded' /\ AtOwnMark'
    BY <1>1, <1>3, <1>4, <1>5, <1>6 DEF MarksBounded, AtOwnMark
  <1>9. WalkIsPath'
    <2>1. \A k \in Nodes \ {l} : marks'[k] # mark'
      BY <1>1, <1>3, <1>4, <1>6 DEF MarksBounded
    <2> QED BY <1>3, <1>5, <2>1 DEF WalkIsPath
  <1>10. CyclesAhead'
    <2> SUFFICES ASSUME contains_cycle = FALSE, NEW S \in SUBSET Nodes, Trapped(S), NEW k \in S, marks'[k] # 0
                 PROVE  marks'[k] = mark' /\ node' \in S
      BY <1>2, <1>5 DEF CyclesAhead
    <2>1. NoNode \notin S
      BY <1>4 DEF NoNode, NoParent
    <2>2. marks[k] = 0
      BY <1>1, <2>1 DEF CyclesAhead
    <2>3. k = l
      BY <1>6, <2>2
    <2> QED BY <1>3, <1>6, <2>3
  <1>11. CycleThere'
    BY <1>1, <1>2, <1>5 DEF CycleThere
  <1>12. VisitedMarked'
    BY <1>1, <1>3, <1>4, <1>5, <1>6 DEF VisitedMarked
  <1>13. Marking'
    BY <1>8, <1>9, <1>10, <1>11, <1>12 DEF Marking
  <1>14. CyclesRefused'
    BY <1>1, <1>2 DEF CyclesRefused
  <1> QED BY <1>7, <1>13, <1>14 DEF CycleInv

\* What the walk did not report, and what it did.
LEMMA WalkUpCycles ==
  ASSUME CycleInv, WalkUp PROVE CycleInv'
  <1>1. /\ phase = "mark" /\ Shape /\ node # NoNode
        /\ MarksBounded /\ AtOwnMark /\ WalkIsPath /\ CyclesAhead /\ CycleThere /\ VisitedMarked
    BY DEF CycleInv, WalkUp, Marking
  <1>2. UNCHANGED <<lines, morpho, phase, row, info, parents, parent, children, todo, mark>>
    BY DEF WalkUp
  <1>3. Nodes' = Nodes /\ \A S : Trapped(S)' <=> Trapped(S)
    BY <1>2, SameCycles
  <1>4. /\ DOMAIN parent = Nodes /\ DOMAIN marks = Nodes /\ todo \subseteq Nodes
        /\ \A k \in Nodes : parent[k] \in Nodes \cup {NoParent} /\ marks[k] \in Nat
        /\ mark \in Nat /\ node \in Nodes /\ NoParent \notin Nodes /\ contains_cycle \in BOOLEAN
        /\ mark > 0 /\ marks[node] = mark
    BY <1>1 DEF Shape, ParentChosen, LemmasNamed, AtOwnMark
  <1> DEFINE p == parent[node]
  <1>5. CyclesRefused'
    BY <1>1, <1>2 DEF CyclesRefused
  <1>6. CASE p = NoParent
    <2>1. node' = NoNode /\ UNCHANGED <<marks, contains_cycle>>
      BY <1>6 DEF WalkUp
    <2>2. Shape'
      BY <1>1, <1>2, <1>3, <2>1
         DEF Shape, InFiles, Phases, LemmasNamed, ParentsKnown, ParentChosen, NotWalking, Unmarked
    <2>3. CyclesAhead'
      <3> SUFFICES ASSUME contains_cycle = FALSE, NEW S \in SUBSET Nodes, Trapped(S), NEW k \in S
                   PROVE  marks[k] = 0
        BY <1>3, <2>1 DEF CyclesAhead
      <3>1. node \notin S
        BY <1>4, <1>6 DEF Trapped
      <3> QED BY <1>1, <3>1 DEF CyclesAhead
    <2>4. MarksBounded' /\ AtOwnMark' /\ WalkIsPath' /\ CycleThere' /\ VisitedMarked'
      BY <1>1, <1>2, <1>3, <2>1 DEF MarksBounded, AtOwnMark, WalkIsPath, CycleThere, VisitedMarked
    <2> QED BY <1>5, <2>2, <2>3, <2>4 DEF CycleInv, Marking
  <1>7. CASE p # NoParent /\ marks[p] # 0
    <2>1. /\ contains_cycle' = (contains_cycle \/ marks[p] = mark)
          /\ node' = NoNode /\ UNCHANGED marks
      BY <1>7 DEF WalkUp, OnThisWalk
    <2>2. Shape'
      BY <1>1, <1>2, <1>3, <2>1
         DEF Shape, InFiles, Phases, LemmasNamed, ParentsKnown, ParentChosen, NotWalking, Unmarked
    <2>3. CyclesAhead'
      <3> SUFFICES ASSUME contains_cycle' = FALSE, NEW S \in SUBSET Nodes, Trapped(S), NEW k \in S
                   PROVE  marks[k] = 0
        BY <1>3, <2>1 DEF CyclesAhead
      <3>1. contains_cycle = FALSE /\ marks[p] # mark
        BY <1>4, <2>1
      <3>2. node \notin S
        BY <1>1, <1>7, <3>1 DEF CyclesAhead, Trapped
      <3> QED BY <1>1, <3>1, <3>2 DEF CyclesAhead
    <2>4. CycleThere'
      <3>1. CASE contains_cycle = TRUE
        BY <1>1, <1>3, <3>1 DEF CycleThere
      <3>2. CASE marks[p] = mark
        <4> DEFINE S == {l \in Nodes : marks[l] = mark}
        <4>1. p \in Nodes
          BY <1>4, <1>7
        <4>2. \A l \in S : parent[l] \in S
          BY <1>1, <3>2, <4>1 DEF WalkIsPath
        <4>3. Trapped(S)
          BY <1>4, <4>2 DEF Trapped
        <4> QED BY <1>3, <4>3 DEF CycleThere
      <3> QED BY <1>4, <2>1, <3>1, <3>2 DEF CycleThere
    <2>5. MarksBounded' /\ AtOwnMark' /\ WalkIsPath' /\ VisitedMarked'
      BY <1>1, <1>2, <1>3, <2>1 DEF MarksBounded, AtOwnMark, WalkIsPath, VisitedMarked
    <2> QED BY <1>5, <2>2, <2>3, <2>4, <2>5 DEF CycleInv, Marking
  <1>8. CASE p # NoParent /\ marks[p] = 0
    <2>1. marks' = [marks EXCEPT ![p] = mark] /\ node' = p /\ UNCHANGED contains_cycle
      BY <1>8 DEF WalkUp
    <2>2. p \in Nodes /\ p # node
      BY <1>4, <1>8
    <2>3. DOMAIN marks' = Nodes /\ marks'[p] = mark /\ \A k \in Nodes \ {p} : marks'[k] = marks[k]
      BY <1>4, <2>1, <2>2
    <2>4. Shape'
      <3>1. ParentChosen'
        BY <1>2, <1>3, <1>4, <2>3 DEF ParentChosen
      <3> QED BY <1>1, <1>2, <1>3, <2>1, <2>2, <3>1
              DEF Shape, InFiles, Phases, LemmasNamed, ParentsKnown, NotWalking, Unmarked
    <2>5. MarksBounded' /\ AtOwnMark' /\ VisitedMarked'
      BY <1>1, <1>2, <1>3, <1>4, <2>1, <2>2, <2>3 DEF MarksBounded, AtOwnMark, VisitedMarked
    <2>6. WalkIsPath'
      <3> SUFFICES ASSUME NEW l \in Nodes \ {p}, marks'[l] = mark
                   PROVE  parent[l] \in Nodes /\ marks'[parent[l]] = mark
        BY <1>2, <1>3, <2>1 DEF WalkIsPath
      <3>1. CASE l = node
        BY <2>2, <2>3, <3>1
      <3>2. CASE l # node
        <4>1. marks[l] = mark
          BY <2>3
        <4>2. parent[l] \in Nodes /\ marks[parent[l]] = mark
          BY <1>1, <3>2, <4>1 DEF WalkIsPath
        <4> QED BY <2>3, <4>2
      <3> QED BY <3>1, <3>2
    <2>7. CyclesAhead'
      <3> SUFFICES ASSUME contains_cycle = FALSE, NEW S \in SUBSET Nodes, Trapped(S), NEW k \in S, marks'[k] # 0
                   PROVE  marks'[k] = mark /\ p \in S
        BY <1>2, <1>3, <2>1 DEF CyclesAhead
      <3>1. CASE k = p
        BY <2>3, <3>1
      <3>2. CASE k # p
        <4>1. marks'[k] = marks[k] /\ marks[k] # 0
          BY <2>3, <3>2
        <4>2. marks[k] = mark /\ node \in S
          BY <1>1, <4>1 DEF CyclesAhead
        <4> QED BY <4>1, <4>2 DEF Trapped
      <3> QED BY <3>1, <3>2
    <2>8. CycleThere'
      BY <1>1, <1>3, <2>1 DEF CycleThere
    <2> QED BY <1>5, <2>4, <2>5, <2>6, <2>7, <2>8 DEF CycleInv, Marking
  <1> QED BY <1>6, <1>7, <1>8

\* When every lemma was visited, a cycle that was not reported would have no mark.
LEMMA EndMarkingCycles ==
  ASSUME CycleInv, EndMarking PROVE CycleInv'
  <1>1. /\ phase = "mark" /\ Shape /\ node = NoNode /\ todo = {}
        /\ CyclesAhead /\ CycleThere /\ VisitedMarked
        /\ phase' = IF contains_cycle THEN "failed" ELSE "encode"
        /\ UNCHANGED <<lines, morpho, row, info, parents, parent, children, marks, todo, mark, node, contains_cycle>>
    BY DEF CycleInv, EndMarking, Marking, derinet
  <1>2. Nodes' = Nodes /\ \A S : Trapped(S)' <=> Trapped(S)
    BY <1>1, SameCycles
  <1>3. Shape'
    BY <1>1, <1>2 DEF Shape, InFiles, Phases, LemmasNamed, ParentsKnown, ParentChosen, NotWalking, Unmarked
  <1>4. CASE contains_cycle = TRUE
    BY <1>1, <1>2, <1>3, <1>4 DEF CycleInv, Marking, CyclesRefused, CycleThere
  <1>5. CASE contains_cycle = FALSE
    <2>1. ASSUME NEW S \in SUBSET Nodes, Trapped(S) PROVE FALSE
      <3>1. PICK l \in S : TRUE
        BY <2>1 DEF Trapped
      <3>2. marks[l] # 0
        BY <1>1, <3>1 DEF VisitedMarked
      <3>3. node \in S
        BY <1>1, <1>5, <2>1, <3>1, <3>2 DEF CyclesAhead
      <3> QED BY <1>1, <3>3 DEF Shape, LemmasNamed, NoNode, NoParent
    <2> QED BY <1>1, <1>2, <1>3, <1>5, <2>1 DEF CycleInv, Marking, CyclesRefused
  <1> QED BY <1>1, <1>4, <1>5 DEF Shape

LEMMA StepCycles == CycleInv /\ [EncoderNext]_encoder => CycleInv'
  <1> SUFFICES ASSUME CycleInv, [EncoderNext]_encoder PROVE CycleInv'
    OBVIOUS
  <1>1. CASE UNCHANGED encoder
    BY <1>1 DEF encoder, derinet, CycleInv, Shape, InFiles, Phases, LemmasNamed, ParentsKnown, ParentChosen, NotWalking,
                Unmarked, Marking, MarksBounded, AtOwnMark, WalkIsPath, CyclesAhead, CycleThere, VisitedMarked,
                CyclesRefused, Trapped, Nodes
  <1>2. CASE EncoderNext
    BY <1>2, ReadLineCycles, EndReadingCycles, ChooseParentCycles, EndChoosingCycles, BeginWalkCycles, WalkUpCycles,
       EndMarkingCycles DEF EncoderNext
  <1> QED BY <1>1, <1>2

\* A file is refused exactly if the chosen parents contain a cycle, for any lemmas and any lines
\* (derivator_dictionary_encoder.cpp marks one walk after the other and never clears a mark).
THEOREM CyclesAreRefused == EncoderSpec => []CyclesRefused
  <1>1. CycleInv => CyclesRefused
    BY DEF CycleInv
  <1> QED BY <1>1, InitCycles, StepCycles, PTL DEF EncoderSpec
=============================================================================
