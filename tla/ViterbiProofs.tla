---------------------------- MODULE ViterbiProofs ----------------------------
(***************************************************************************)
(* The decoder writes no node behind its vector, for any decoding order,   *)
(* sentences and weights, and returns an analysis of every form; the score *)
(* that it keeps up to date turn by turn is that of the window; and for    *)
(* weights that see no further than its states, no choice of tags is better*)
(* than the one it returns.                                                *)
(***************************************************************************)
EXTENDS Viterbi, FiniteSetTheorems, SequenceTheorems, WellFoundedInduction, TLAPS

\* A set of numbers has a least one.
LEMMA LeastIsMin ==
  ASSUME NEW T \in SUBSET Nat, T # {}
  PROVE  Min(T) \in T /\ \A n \in T : Min(T) <= n
<1> DEFINE Below == {p \in Nat \X Nat : p[1] < p[2]}
<1>1. IsWellFoundedOn(Below, Nat)
  BY NatLessThanWellFounded DEF OpToRel
<1>2. \A m, n \in Nat : n < m => <<n, m>> \in Below
  OBVIOUS
<1> HIDE DEF Below
<1>3. PICK m \in T : \A n \in T : ~ (<<n, m>> \in Below)
  BY <1>1, WFMin
<1>4. ASSUME NEW n \in T PROVE m <= n
  <2>1. m \in Nat /\ n \in Nat /\ ~ (n < m)
    BY <1>2, <1>3
  <2> QED BY <2>1
<1>5. Min(T) = CHOOSE k \in T : \A n \in T : k <= n
  BY DEF Min
<1> QED BY <1>4, <1>5

\* Induction up to a bound, for a set of numbers: there is no least counterexample.
LEMMA UpTo ==
  ASSUME NEW bound \in Nat, NEW S, 0 \in S, \A n \in 0..bound - 1 : n \in S => n + 1 \in S
  PROVE  \A n \in 0..bound : n \in S
<1> SUFFICES ASSUME {n \in 0..bound : n \notin S} # {} PROVE FALSE
  OBVIOUS
<1>1. PICK m \in {n \in 0..bound : n \notin S} : \A n \in {n \in 0..bound : n \notin S} : m <= n
  BY LeastIsMin, {n \in 0..bound : n \notin S} \in SUBSET Nat
<1>2. m - 1 \in 0..bound - 1 /\ m - 1 + 1 = m
  BY <1>1
<1> QED BY <1>1, <1>2

\* A bounded set of numbers has a greatest one.
LEMMA GreatestIsMax ==
  ASSUME NEW n \in Nat, NEW T \in SUBSET (0..n), T # {}
  PROVE  Max(T) \in T /\ \A k \in T : k <= Max(T)
<1>1. {n - k : k \in T} \in SUBSET Nat /\ {n - k : k \in T} # {}
  <2>1. PICK m \in T : TRUE
    OBVIOUS
  <2>2. n - m \in {n - k : k \in T}
    BY <2>1
  <2>3. ASSUME NEW k \in T PROVE n - k \in Nat
    <3>1. k \in 0..n
      OBVIOUS
    <3> QED BY <3>1
  <2> QED BY <2>2, <2>3
<1>2. PICK u \in {n - k : k \in T} : \A v \in {n - k : k \in T} : u <= v
  BY <1>1, LeastIsMin
<1>3. \E m \in T : \A k \in T : m >= k
  BY <1>2
<1>4. Max(T) = CHOOSE m \in T : \A k \in T : m >= k
  BY DEF Max
<1> QED BY <1>3, <1>4
-----------------------------------------------------------------------------
(* Histories in order.                                                       *)

\* The histories f and g differ first where f is smaller, up to d.
Less(f, g, d) == \E n \in 0..d : f[n] < g[n] /\ \A m \in 0..n - 1 : f[m] = g[m]

LEMMA LessTransitive ==
  ASSUME NEW d \in Nat, NEW f \in [0..d -> Int], NEW g \in [0..d -> Int], NEW h \in [0..d -> Int],
         Less(f, g, d), Less(g, h, d)
  PROVE  Less(f, h, d)
<1>1. PICK n \in 0..d : f[n] < g[n] /\ \A m \in 0..n - 1 : f[m] = g[m]
  BY DEF Less
<1>2. PICK k \in 0..d : g[k] < h[k] /\ \A m \in 0..k - 1 : g[m] = h[m]
  BY DEF Less
<1>3. CASE n <= k
  <2>1. \A m \in 0..n - 1 : f[m] = h[m]
    BY <1>1, <1>2, <1>3
  <2>2. f[n] < h[n]
    <3>1. f[n] \in Int /\ g[n] \in Int /\ h[n] \in Int
      OBVIOUS
    <3>2. g[n] <= h[n]
      <4>1. CASE n = k
        BY <1>2, <3>1, <4>1
      <4>2. CASE n # k
        <5>1. n \in 0..k - 1
          BY <1>3, <4>2
        <5> QED BY <1>2, <3>1, <5>1
      <4> QED BY <4>1, <4>2
    <3> QED BY <1>1, <3>1, <3>2
  <2> QED BY <2>1, <2>2 DEF Less
<1>4. CASE k < n
  <2>1. \A m \in 0..k - 1 : f[m] = h[m]
    BY <1>1, <1>2, <1>4
  <2>2. f[k] = g[k]
    BY <1>1, <1>4
  <2> QED BY <1>2, <2>1, <2>2 DEF Less
<1> QED BY <1>3, <1>4

LEMMA Scaled ==
  ASSUME NEW a \in Nat, NEW b \in Nat, NEW s \in Nat, NEW t \in Nat, NEW u \in Nat, t < s
  PROVE  /\ a < b => a * s + t < b * s + u /\ a * s + t < b * s
         /\ t < u => a * s + t < a * s + u
         /\ a * s + t \in Nat
OBVIOUS

\* Histories in strict order are no more than the product of how many values each place has.
LEMMA FewHistories ==
  ASSUME NEW d \in Nat, NEW size \in [0..d -> Nat], NEW product \in [0..d -> Nat],
         product[0] = size[0], \A n \in 0..d - 1 : product[n + 1] = product[n] * size[n + 1],
         NEW lo \in Nat, NEW hi \in Nat, lo <= hi, NEW h \in [lo..hi -> [0..d -> Nat]],
         \A p \in lo..hi, n \in 0..d : h[p][n] < size[n],
         \A p, q \in lo..hi : p < q => Less(h[p], h[q], d)
  PROVE  hi - lo < product[d]
<1> DEFINE Numbered(n, v) ==
             /\ \A p \in lo..hi : v[p] < product[n]
             /\ \A p, q \in lo..hi : (\A m \in 0..n : h[p][m] = h[q][m]) => v[p] = v[q]
             /\ \A p, q \in lo..hi : Less(h[p], h[q], n) => v[p] < v[q]
           S == {n \in 0..d : \E v \in [lo..hi -> Nat] : Numbered(n, v)}
<1>0. \A p \in lo..hi, n \in 0..d : h[p][n] \in Nat
  OBVIOUS
<1>1. 0 \in S
  <2> DEFINE v == [p \in lo..hi |-> h[p][0]]
  <2>1. v \in [lo..hi -> Nat]
    BY <1>0
  <2>2. ASSUME NEW p \in lo..hi, NEW q \in lo..hi, Less(h[p], h[q], 0) PROVE v[p] < v[q]
    BY <2>2 DEF Less
  <2>3. Numbered(0, v)
    BY <2>2
  <2>4. \E u \in [lo..hi -> Nat] : Numbered(0, u)
    <3> HIDE DEF v, Numbered
    <3> QED BY <2>1, <2>3
  <2>5. 0 \in 0..d
    OBVIOUS
  <2> HIDE DEF Numbered, v
  <2> QED BY <2>4, <2>5
<1>2. ASSUME NEW n \in 0..d - 1, n \in S PROVE n + 1 \in S
  <2>1. PICK v \in [lo..hi -> Nat] : Numbered(n, v)
    BY <1>2
  <2>2. n \in 0..d /\ n + 1 \in 0..d /\ size[n + 1] \in Nat /\ product[n] \in Nat
       /\ product[n + 1] = product[n] * size[n + 1]
    OBVIOUS
  <2> DEFINE w == [p \in lo..hi |-> v[p] * size[n + 1] + h[p][n + 1]]
  <2>3. ASSUME NEW p \in lo..hi
        PROVE  v[p] \in Nat /\ h[p][n + 1] \in Nat /\ h[p][n + 1] < size[n + 1] /\ v[p] < product[n]
    BY <1>0, <2>1, <2>2
  <2>4. w \in [lo..hi -> Nat]
    BY <2>2, <2>3, Scaled
  <2>5. ASSUME NEW p \in lo..hi PROVE w[p] < product[n + 1]
    <3>1. v[p] * size[n + 1] + h[p][n + 1] < product[n] * size[n + 1]
      BY <2>2, <2>3, Scaled
    <3> QED BY <2>2, <3>1
  <2>6. ASSUME NEW p \in lo..hi, NEW q \in lo..hi, \A m \in 0..n + 1 : h[p][m] = h[q][m]
        PROVE  w[p] = w[q]
    <3>1. v[p] = v[q]
      <4>1. \A m \in 0..n : h[p][m] = h[q][m]
        BY <2>6
      <4> QED BY <2>1, <4>1
    <3> QED BY <2>6, <3>1
  <2>7. ASSUME NEW p \in lo..hi, NEW q \in lo..hi, Less(h[p], h[q], n + 1) PROVE w[p] < w[q]
    <3>1. PICK k \in 0..n + 1 : h[p][k] < h[q][k] /\ \A m \in 0..k - 1 : h[p][m] = h[q][m]
      BY <2>7 DEF Less
    <3>2. CASE k = n + 1
      <4>1. v[p] = v[q]
        <5>1. \A m \in 0..n : h[p][m] = h[q][m]
          BY <3>1, <3>2
        <5> QED BY <2>1, <5>1
      <4>2. v[p] * size[n + 1] + h[p][n + 1] < v[p] * size[n + 1] + h[q][n + 1]
        BY <2>2, <2>3, <3>1, <3>2, Scaled
      <4> QED BY <4>1, <4>2
    <3>3. CASE k \in 0..n
      <4>1. v[p] < v[q]
        BY <2>1, <3>1, <3>3 DEF Less
      <4> QED BY <2>2, <2>3, <4>1, Scaled
    <3> QED BY <3>2, <3>3
  <2>8. Numbered(n + 1, w)
    BY <2>5, <2>6, <2>7
  <2> QED BY <2>2, <2>4, <2>8
<1>3. d \in S
  <2> HIDE DEF S
  <2> QED BY <1>1, <1>2, UpTo, d \in 0..d
<1>4. PICK v \in [lo..hi -> Nat] : Numbered(d, v)
  BY <1>3
<1>5. \A p, q \in lo..hi : p < q => v[p] < v[q]
  BY <1>4
<1> DEFINE T == {n \in 0..hi - lo : v[lo + n] >= n}
<1>6. 0 \in T
  OBVIOUS
<1>7. ASSUME NEW n \in 0..hi - lo - 1, n \in T PROVE n + 1 \in T
  <2>1. lo + n \in lo..hi /\ lo + n + 1 \in lo..hi /\ lo + n < lo + n + 1 /\ lo + n + 1 = lo + (n + 1)
    OBVIOUS
  <2>2. v[lo + n] < v[lo + (n + 1)] /\ v[lo + n] \in Nat /\ v[lo + (n + 1)] \in Nat
    BY <1>5, <2>1
  <2>3. n \in Nat /\ n + 1 \in 0..hi - lo /\ v[lo + n] >= n
    BY <1>7
  <2>4. v[lo + (n + 1)] >= n + 1
    <3> DEFINE x == v[lo + n]
               y == v[lo + (n + 1)]
    <3>1. x < y /\ x \in Nat /\ y \in Nat /\ x >= n
      BY <2>2, <2>3
    <3> HIDE DEF x, y
    <3>2. y >= n + 1
      BY <2>3, <3>1
    <3> QED BY <3>2 DEF y
  <2> QED BY <2>3, <2>4
<1>8. hi - lo \in T
  <2> HIDE DEF T
  <2> QED BY <1>6, <1>7, UpTo, hi - lo \in Nat, hi - lo \in 0..hi - lo
<1>9. lo + (hi - lo) = hi /\ hi \in lo..hi /\ v[hi] < product[d] /\ v[hi] \in Nat /\ product[d] \in Nat
  BY <1>4
<1> QED BY <1>8, <1>9
-----------------------------------------------------------------------------
(* The room of the positions.                                                *)

\* What a recursive definition over 0..bound needs to define a function.
LEMMA Recursion ==
  ASSUME NEW bound \in Nat, NEW first \in Nat, NEW step \in [1..bound -> [Nat -> Nat]]
  PROVE  \E f \in [0..bound -> Nat] : f[0] = first /\ \A n \in 1..bound : f[n] = step[n][f[n - 1]]
<1> DEFINE Steps(f, m) == f[0] = first /\ \A n \in 1..m : f[n] = step[n][f[n - 1]]
           S == {m \in 0..bound : \E f \in [0..m -> Nat] : Steps(f, m)}
<1>1. 0 \in S
  <2>1. [n \in 0..0 |-> first] \in [0..0 -> Nat] /\ Steps([n \in 0..0 |-> first], 0)
    OBVIOUS
  <2>2. 0 \in 0..bound
    OBVIOUS
  <2> HIDE DEF Steps
  <2> QED BY <2>1, <2>2
<1>2. ASSUME NEW m \in 0..bound - 1, m \in S PROVE m + 1 \in S
  <2>1. PICK f \in [0..m -> Nat] : Steps(f, m)
    BY <1>2
  <2> DEFINE g == [n \in 0..m + 1 |-> IF n = m + 1 THEN step[m + 1][f[m]] ELSE f[n]]
  <2>2. m + 1 \in 1..bound /\ m + 1 \in 0..bound /\ m \in 0..m
    OBVIOUS
  <2>3. g \in [0..m + 1 -> Nat]
    <3>1. step[m + 1] \in [Nat -> Nat] /\ f[m] \in Nat
      BY <2>2
    <3>2. \A n \in 0..m + 1 : n # m + 1 => n \in 0..m
      OBVIOUS
    <3> QED BY <3>1, <3>2
  <2>4. ASSUME NEW n \in 1..m + 1 PROVE g[n] = step[n][g[n - 1]]
    <3>1. n - 1 \in 0..m /\ n - 1 # m + 1 /\ n \in 0..m + 1 /\ n - 1 \in 0..m + 1
      OBVIOUS
    <3>2. g[n - 1] = f[n - 1]
      BY <3>1
    <3>3. CASE n = m + 1
      <4>1. g[n] = step[n][f[n - 1]]
        BY <3>1, <3>3
      <4> QED BY <3>2, <4>1
    <3>4. CASE n # m + 1
      <4>1. n \in 1..m
        BY <3>4
      <4>2. g[n] = f[n] /\ f[n] = step[n][f[n - 1]]
        BY <2>1, <3>1, <3>4, <4>1
      <4> QED BY <3>2, <4>2
    <3> QED BY <3>3, <3>4
  <2>5. g[0] = first
    BY <2>1, <2>2
  <2>6. Steps(g, m + 1)
    BY <2>4, <2>5
  <2> HIDE DEF g, Steps
  <2> QED BY <2>2, <2>3, <2>6
<1>3. bound \in S
  <2> HIDE DEF S
  <2> QED BY <1>1, <1>2, UpTo, bound \in 0..bound
<1> QED BY <1>3

LEMMA Quotient ==
  ASSUME NEW x \in Nat, NEW y \in Nat, y # 0
  PROVE  x \div y \in Nat /\ (x * y) \div y = x /\ x * y \in Nat
OBVIOUS

\* Sentences that tag decodes, and how many analyses their forms have.
Word == [form : Nat, tags : Seq(Nat)]
Analyzed(s) == s \in Seq(Word) /\ \A k \in 1..Len(s) : s[k].tags # <<>>
Width(s, k) == Len(s[k].tags)

LEMMA WidthIs ==
  ASSUME NEW s, Analyzed(s), NEW k \in 1..Len(s)
  PROVE  Width(s, k) \in Nat \ {0}
<1>1. s[k] \in Word
  BY DEF Analyzed
<1>2. s[k].tags \in Seq(Nat) /\ s[k].tags # <<>>
  BY <1>1 DEF Analyzed, Word
<1> QED BY <1>2 DEF Width

LEMMA StatesAre ==
  ASSUME NEW s, Analyzed(s)
  PROVE  /\ States(s) \in [0..Len(s) -> Nat] /\ States(s)[0] = 1
         /\ \A k \in 1..Len(s) :
              States(s)[k] = (IF k >= decoding_order THEN States(s)[k - 1] \div Width(s, k - decoding_order + 1)
                              ELSE States(s)[k - 1]) * Width(s, k)
<1>1. Len(s) \in Nat /\ decoding_order \in Nat /\ decoding_order >= 2
  BY OrderAssumption, WindowAssumption DEF Analyzed
<1> DEFINE After(k, n) == (IF k >= decoding_order THEN n \div Len(s[k - decoding_order + 1].tags) ELSE n) * Len(s[k].tags)
           step == [k \in 1..Len(s) |-> [n \in Nat |-> After(k, n)]]
           F(f) == f = [k \in 0..Len(s) |-> IF k = 0 THEN 1 ELSE After(k, f[k - 1])]
           states == CHOOSE f : F(f)
<1>2. ASSUME NEW k \in 1..Len(s), NEW n \in Nat PROVE After(k, n) \in Nat
  <2>1. Len(s[k].tags) \in Nat
    BY WidthIs DEF Width
  <2>2. CASE k >= decoding_order
    <3>1. k - decoding_order + 1 \in 1..Len(s)
      BY <1>1, <2>2
    <3>2. Len(s[k - decoding_order + 1].tags) \in Nat \ {0}
      BY <3>1, WidthIs DEF Width
    <3>3. n \div Len(s[k - decoding_order + 1].tags) \in Nat
      BY <3>2, Quotient
    <3>4. \A m \in Nat : m * Len(s[k].tags) \in Nat
      BY <2>1
    <3> QED BY <2>2, <3>3, <3>4
  <2>3. CASE ~ (k >= decoding_order)
    BY <2>1, <2>3
  <2> QED BY <2>2, <2>3
<1> HIDE DEF After
<1>3. step \in [1..Len(s) -> [Nat -> Nat]]
  BY <1>2
<1>4. PICK f \in [0..Len(s) -> Nat] : f[0] = 1 /\ \A k \in 1..Len(s) : f[k] = step[k][f[k - 1]]
  <2>1. 1 \in Nat
    OBVIOUS
  <2> HIDE DEF step, F, states
  <2> QED BY <1>1, <1>3, <2>1, Recursion, Zenon
<1>5. F(f)
  <2>1. ASSUME NEW k \in 0..Len(s) PROVE f[k] = IF k = 0 THEN 1 ELSE After(k, f[k - 1])
    <3>1. k # 0 => k \in 1..Len(s) /\ f[k - 1] \in Nat
      BY <1>1
    <3> QED BY <1>4, <3>1
  <2> QED BY <2>1
<1>6. F(states)
  BY <1>5
<1>7. States(s) = states
  BY DEF States, After
<1> HIDE DEF states
<1>8. states[0] = 1 /\ \A k \in 1..Len(s) : states[k] = After(k, states[k - 1])
  BY <1>1, <1>6
<1>9. \A k \in 0..Len(s) : states[k] \in Nat
  <2> DEFINE S == {k \in 0..Len(s) : states[k] \in Nat}
  <2>1. 0 \in S
    BY <1>1, <1>8
  <2>2. ASSUME NEW k \in 0..Len(s) - 1, k \in S PROVE k + 1 \in S
    <3>1. k + 1 \in 1..Len(s) /\ k + 1 - 1 = k /\ k + 1 \in 0..Len(s)
      BY <1>1
    <3>2. states[k] \in Nat
      BY <2>2
    <3>3. After(k + 1, states[k]) \in Nat
      BY <1>2, <3>1, <3>2
    <3> QED BY <1>8, <3>1, <3>3
  <2>3. \A k \in 0..Len(s) : k \in S
    <3> HIDE DEF S
    <3> QED BY <1>1, <2>1, <2>2, UpTo
  <2> QED BY <2>3
<1>10. states \in [0..Len(s) -> Nat]
  BY <1>6, <1>9
<1> QED BY <1>7, <1>8, <1>10 DEF After, Width

\* How many nodes the positions up to the k-th need together.
Room(s, k) ==
  LET count[m \in 0..Len(s)] == IF m = 0 THEN 0 ELSE count[m - 1] + States(s)[m] IN count[k]

LEMMA RoomIs ==
  ASSUME NEW s, Analyzed(s)
  PROVE  /\ Allocated(s) = Room(s, Len(s)) /\ Room(s, 0) = 0
         /\ \A k \in 0..Len(s) : Room(s, k) \in Nat
         /\ \A k \in 1..Len(s) : Room(s, k) = Room(s, k - 1) + States(s)[k]
<1>1. Len(s) \in Nat /\ 0 \in Nat
  BY DEF Analyzed
<1>2. \A k \in 0..Len(s) : States(s)[k] \in Nat
  BY StatesAre
<1> DEFINE step == [k \in 1..Len(s) |-> [n \in Nat |-> n + States(s)[k]]]
           F(f) == f = [k \in 0..Len(s) |-> IF k = 0 THEN 0 ELSE f[k - 1] + States(s)[k]]
           count == CHOOSE f : F(f)
<1>3. step \in [1..Len(s) -> [Nat -> Nat]]
  BY <1>1, <1>2
<1>4. PICK f \in [0..Len(s) -> Nat] : f[0] = 0 /\ \A k \in 1..Len(s) : f[k] = step[k][f[k - 1]]
  <2> HIDE DEF step, F, count
  <2> QED BY <1>1, <1>3, Recursion, Zenon
<1>5. F(f)
  <2>1. ASSUME NEW k \in 0..Len(s) PROVE f[k] = IF k = 0 THEN 0 ELSE f[k - 1] + States(s)[k]
    <3>1. k # 0 => k \in 1..Len(s) /\ f[k - 1] \in Nat
      BY <1>1
    <3> QED BY <1>4, <3>1
  <2> QED BY <2>1
<1>6. F(count)
  BY <1>5
<1>7. Allocated(s) = count[Len(s)] /\ \A k \in 0..Len(s) : Room(s, k) = count[k]
  BY DEF Allocated, Room
<1> HIDE DEF count
<1>8. count[0] = 0 /\ \A k \in 1..Len(s) : count[k] = count[k - 1] + States(s)[k]
  BY <1>1, <1>6
<1>9. \A k \in 0..Len(s) : count[k] \in Nat
  <2> DEFINE S == {k \in 0..Len(s) : count[k] \in Nat}
  <2>1. 0 \in S
    BY <1>1, <1>8
  <2>2. ASSUME NEW k \in 0..Len(s) - 1, k \in S PROVE k + 1 \in S
    <3>1. k + 1 \in 1..Len(s) /\ k + 1 - 1 = k /\ k + 1 \in 0..Len(s)
      BY <1>1
    <3> QED BY <1>2, <1>8, <2>2, <3>1
  <2>3. \A k \in 0..Len(s) : k \in S
    <3> HIDE DEF S
    <3> QED BY <1>1, <2>1, <2>2, UpTo
  <2> QED BY <2>3
<1>10. \A k \in 1..Len(s) : k - 1 \in 0..Len(s) /\ k \in 0..Len(s)
  BY <1>1
<1>11. Allocated(s) = Room(s, Len(s)) /\ Room(s, 0) = 0
  BY <1>1, <1>7, <1>8, 0 \in 0..Len(s), Len(s) \in 0..Len(s)
<1>12. ASSUME NEW k \in 1..Len(s) PROVE Room(s, k) = Room(s, k - 1) + States(s)[k]
  BY <1>7, <1>8, <1>10
<1>13. \A k \in 0..Len(s) : Room(s, k) \in Nat
  BY <1>7, <1>9
<1> QED BY <1>11, <1>12, <1>13

\* How far back a history goes, and how many there are of each length for the k-th form.
Depth(k) == IF k < decoding_order - 2 THEN k ELSE decoding_order - 2
Products(s, k) ==
  LET p[n \in 0..k - 1] == IF n = 0 THEN Len(s[k].tags) ELSE p[n - 1] * Len(s[k - n].tags) IN p

LEMMA ProductsAre ==
  ASSUME NEW s, Analyzed(s), NEW k \in 1..Len(s)
  PROVE  /\ Products(s, k) \in [0..k - 1 -> Nat] /\ Products(s, k)[0] = Width(s, k)
         /\ \A n \in 1..k - 1 : Products(s, k)[n] = Products(s, k)[n - 1] * Width(s, k - n)
<1>1. k - 1 \in Nat /\ k \in Nat
  BY DEF Analyzed
<1> DEFINE step == [n \in 1..k - 1 |-> [m \in Nat |-> m * Width(s, k - n)]]
           F(f) == f = [n \in 0..k - 1 |-> IF n = 0 THEN Width(s, k) ELSE f[n - 1] * Width(s, k - n)]
           p == CHOOSE f : F(f)
<1>2. ASSUME NEW n \in 0..k - 1 PROVE Width(s, k - n) \in Nat
  <2>1. k - n \in 1..Len(s)
    BY <1>1 DEF Analyzed
  <2> QED BY <2>1, WidthIs
<1>3. step \in [1..k - 1 -> [Nat -> Nat]]
  <2>1. ASSUME NEW n \in 1..k - 1, NEW m \in Nat PROVE m * Width(s, k - n) \in Nat
    <3>1. Width(s, k - n) \in Nat
      BY <1>2
    <3> QED BY <3>1
  <2> QED BY <2>1
<1>4. PICK f \in [0..k - 1 -> Nat] : f[0] = Width(s, k) /\ \A n \in 1..k - 1 : f[n] = step[n][f[n - 1]]
  <2>1. Width(s, k) \in Nat
    BY WidthIs
  <2> HIDE DEF step, F, p
  <2> QED BY <1>1, <1>3, <2>1, Recursion, Zenon
<1>5. F(f)
  <2>1. ASSUME NEW n \in 0..k - 1 PROVE f[n] = IF n = 0 THEN Width(s, k) ELSE f[n - 1] * Width(s, k - n)
    <3>1. n # 0 => n \in 1..k - 1 /\ f[n - 1] \in Nat
      BY <1>1
    <3> QED BY <1>4, <3>1
  <2> QED BY <2>1
<1>6. F(p)
  BY <1>5
<1>7. Products(s, k) = p
  BY DEF Products, Width
<1> HIDE DEF p
<1>8. p[0] = Width(s, k) /\ \A n \in 1..k - 1 : p[n] = p[n - 1] * Width(s, k - n)
  BY <1>1, <1>6
<1>9. \A n \in 0..k - 1 : p[n] \in Nat
  <2> DEFINE S == {n \in 0..k - 1 : p[n] \in Nat}
  <2>1. 0 \in S
    BY <1>1, <1>8, WidthIs
  <2>2. ASSUME NEW n \in 0..k - 1 - 1, n \in S PROVE n + 1 \in S
    <3>1. n + 1 \in 1..k - 1 /\ n + 1 - 1 = n /\ n + 1 \in 0..k - 1
      BY <1>1
    <3>2. p[n] \in Nat /\ Width(s, k - (n + 1)) \in Nat
      BY <1>2, <2>2, <3>1
    <3>3. p[n] * Width(s, k - (n + 1)) \in Nat
      BY <3>2
    <3> QED BY <1>8, <3>1, <3>3
  <2>3. \A n \in 0..k - 1 : n \in S
    <3> HIDE DEF S
    <3> QED BY <1>1, <2>1, <2>2, UpTo
  <2> QED BY <2>3
<1>10. p \in [0..k - 1 -> Nat]
  BY <1>6, <1>9
<1> QED BY <1>7, <1>8, <1>10

\* The products for one form are those for the form before, by its number of analyses.
LEMMA ProductsGrow ==
  ASSUME NEW s, Analyzed(s), NEW k \in 1..Len(s) - 1
  PROVE  \A n \in 0..k - 1 : Products(s, k + 1)[n + 1] = Width(s, k + 1) * Products(s, k)[n]
<1>1. k \in 1..Len(s) /\ k + 1 \in 1..Len(s) /\ k - 1 \in Nat /\ k + 1 - 1 = k /\ Len(s) \in Nat /\ k \in Nat
  BY DEF Analyzed
<1> DEFINE p == Products(s, k)
           q == Products(s, k + 1)
           w == Width(s, k + 1)
           S == {n \in 0..k - 1 : q[n + 1] = w * p[n]}
<1>2. p \in [0..k - 1 -> Nat] /\ p[0] = Width(s, k) /\ \A n \in 1..k - 1 : p[n] = p[n - 1] * Width(s, k - n)
  BY <1>1, ProductsAre
<1>3. q \in [0..k -> Nat] /\ q[0] = w /\ \A n \in 1..k : q[n] = q[n - 1] * Width(s, k + 1 - n)
  BY <1>1, ProductsAre
<1>4. w \in Nat /\ \A n \in 1..k : Width(s, n) \in Nat
  BY <1>1, WidthIs
<1> HIDE DEF p, q, w
<1>5. 0 \in S
  <2>1. 1 \in 1..k /\ 1 - 1 = 0 /\ k + 1 - 1 = k
    BY <1>1
  <2>2. q[1] = w * Width(s, k)
    BY <1>3, <2>1
  <2> QED BY <1>1, <1>2, <2>2
<1>6. ASSUME NEW n \in 0..k - 1 - 1, n \in S PROVE n + 1 \in S
  <2>1. /\ n + 1 \in 1..k - 1 /\ n + 1 \in 0..k - 1 /\ n + 1 - 1 = n /\ n + 2 \in 1..k /\ n + 2 - 1 = n + 1
        /\ k + 1 - (n + 2) = k - (n + 1) /\ k - (n + 1) \in 1..k /\ n \in 0..k - 1 /\ n + 1 + 1 = n + 2
    BY <1>1
  <2>2. q[n + 2] = q[n + 1] * Width(s, k - (n + 1))
    BY <1>3, <2>1
  <2>3. q[n + 1] = w * p[n]
    BY <1>6
  <2>4. p[n + 1] = p[n] * Width(s, k - (n + 1))
    BY <1>2, <2>1
  <2>5. p[n] \in Nat /\ Width(s, k - (n + 1)) \in Nat
    BY <1>2, <1>4, <2>1
  <2>6. \A a, b, c \in Nat : (a * b) * c = a * (b * c)
    OBVIOUS
  <2>7. q[n + 2] = w * p[n + 1]
    BY <1>4, <2>2, <2>3, <2>4, <2>5, <2>6
  <2> QED BY <2>1, <2>7
<1>7. \A n \in 0..k - 1 : n \in S
  <2> HIDE DEF S
  <2> QED BY <1>1, <1>5, <1>6, UpTo
<1> QED BY <1>7 DEF p, q, w

\* What the code computes by dividing is the product for the longest history of a form.
LEMMA StatesAreProducts ==
  ASSUME NEW s, Analyzed(s)
  PROVE  \A k \in 1..Len(s) : States(s)[k] = Products(s, k)[Depth(k - 1)]
<1>1. Len(s) \in Nat /\ decoding_order \in Nat /\ decoding_order >= 2
  BY OrderAssumption, WindowAssumption DEF Analyzed
<1> DEFINE S == {k \in 0..Len(s) : k > 0 => States(s)[k] = Products(s, k)[Depth(k - 1)]}
<1>2. 0 \in S
  BY <1>1
<1>3. ASSUME NEW k \in 0..Len(s) - 1, k \in S PROVE k + 1 \in S
  <2>1. k + 1 \in 1..Len(s) /\ k + 1 - 1 = k /\ k + 1 \in 0..Len(s) /\ k \in Nat
    BY <1>1
  <2>2. States(s)[k + 1] = (IF k + 1 >= decoding_order THEN States(s)[k] \div Width(s, k + 1 - decoding_order + 1)
                            ELSE States(s)[k]) * Width(s, k + 1)
    <3>1. \A m \in 1..Len(s) :
            States(s)[m] = (IF m >= decoding_order THEN States(s)[m - 1] \div Width(s, m - decoding_order + 1)
                            ELSE States(s)[m - 1]) * Width(s, m)
      BY StatesAre
    <3> DEFINE m == k + 1
    <3>2. m \in 1..Len(s) /\ m - 1 = k
      BY <2>1
    <3> HIDE DEF m
    <3>3. States(s)[m] = (IF m >= decoding_order THEN States(s)[k] \div Width(s, m - decoding_order + 1)
                          ELSE States(s)[k]) * Width(s, m)
      BY <3>1, <3>2
    <3> QED BY <1>1, <2>1, <3>3 DEF m
  <2>3. Width(s, k + 1) \in Nat
    BY <2>1, WidthIs
  <2>4. Products(s, k + 1)[0] = Width(s, k + 1)
    BY <2>1, ProductsAre
  <2>5. CASE k = 0
    <3>1. States(s)[k] = 1
      BY <2>5, StatesAre
    <3>2. ~ (k + 1 >= decoding_order) /\ Depth(k) = 0
      BY <1>1, <2>5 DEF Depth
    <3> QED BY <2>1, <2>2, <2>3, <2>4, <3>1, <3>2
  <2>6. CASE k > 0
    <3>1. k \in 1..Len(s) /\ k \in 1..Len(s) - 1 /\ k - 1 \in Nat
      BY <1>1, <2>6
    <3>2. States(s)[k] = Products(s, k)[Depth(k - 1)]
      BY <1>3, <2>6
    <3>3. /\ Products(s, k) \in [0..k - 1 -> Nat] /\ Products(s, k)[0] = Width(s, k)
          /\ \A n \in 1..k - 1 : Products(s, k)[n] = Products(s, k)[n - 1] * Width(s, k - n)
      BY <3>1, ProductsAre
    <3>4. \A n \in 0..k - 1 : Products(s, k + 1)[n + 1] = Width(s, k + 1) * Products(s, k)[n]
      BY <3>1, ProductsGrow
    <3>5. \A a, b \in Nat : a * b = b * a
      OBVIOUS
    <3>6. CASE k + 1 < decoding_order
      <4>1. Depth(k - 1) = k - 1 /\ Depth(k) = k /\ k - 1 \in 0..k - 1 /\ k - 1 + 1 = k /\ ~ (k + 1 >= decoding_order)
        BY <1>1, <2>1, <3>1, <3>6 DEF Depth
      <4>2. Products(s, k)[k - 1] \in Nat
        BY <3>3, <4>1
      <4>3. States(s)[k + 1] = Products(s, k)[k - 1] * Width(s, k + 1)
        BY <2>2, <3>2, <4>1
      <4>4. Products(s, k + 1)[k] = Width(s, k + 1) * Products(s, k)[k - 1]
        BY <3>4, <4>1
      <4> QED BY <2>1, <2>3, <3>5, <4>1, <4>2, <4>3, <4>4
    <3>7. CASE k + 1 >= decoding_order
      <4> DEFINE d == decoding_order - 2
                 w == Width(s, k - d)
      <4>1. /\ Depth(k - 1) = d /\ Depth(k) = d /\ d \in Nat /\ d \in 0..k - 1 /\ k - d \in 1..Len(s)
            /\ k + 1 - decoding_order + 1 = k - d
        BY <1>1, <2>1, <3>1, <3>7 DEF Depth
      <4>2. w \in Nat /\ w # 0
        BY <4>1, WidthIs
      <4>3. States(s)[k + 1] = (Products(s, k)[d] \div w) * Width(s, k + 1)
        BY <2>2, <3>2, <3>7, <4>1
      <4> HIDE DEF d, w
      <4>4. CASE d = 0
        <5>1. Products(s, k)[d] = 1 * w
          BY <1>1, <3>1, <3>3, <4>2, <4>4 DEF w
        <5>2. (1 * w) \div w = 1
          BY <4>2, Quotient
        <5>3. States(s)[k + 1] = Width(s, k + 1)
          BY <2>3, <4>3, <5>1, <5>2
        <5> QED BY <2>1, <2>4, <4>1, <4>4, <5>3
      <4>5. CASE d # 0
        <5>1. d \in 1..k - 1 /\ d - 1 \in 0..k - 1 /\ d - 1 + 1 = d
          BY <2>1, <4>1, <4>5
        <5>2. Products(s, k)[d] = Products(s, k)[d - 1] * w
          BY <3>3, <5>1 DEF w
        <5>3. Products(s, k)[d - 1] \in Nat
          BY <3>3, <5>1
        <5>4. Products(s, k)[d] \div w = Products(s, k)[d - 1]
          BY <4>2, <5>2, <5>3, Quotient
        <5>5. Products(s, k + 1)[d] = Width(s, k + 1) * Products(s, k)[d - 1]
          BY <3>4, <5>1
        <5> QED BY <2>1, <2>3, <3>5, <4>1, <4>3, <5>3, <5>4, <5>5
      <4> QED BY <4>4, <4>5
    <3> QED BY <1>1, <2>1, <3>6, <3>7
  <2> QED BY <2>1, <2>5, <2>6
<1>4. \A k \in 0..Len(s) : k \in S
  <2> HIDE DEF S
  <2> QED BY <1>1, <1>2, <1>3, UpTo
<1> QED BY <1>4
-----------------------------------------------------------------------------
(* Paths.                                                                    *)

\* Ancestor and TagBack for any vector of nodes.
Back(f, p, n) ==
  LET back[k \in 0..n] == IF k = 0 THEN p
                          ELSE LET q == back[k - 1] IN IF q < 0 THEN -1 ELSE f[q + 1].prev
  IN  back[n]
TagAt(f, p, n) == f[Back(f, p, n) + 1].tag
Before(f, q) == IF q < 0 THEN -1 ELSE f[q + 1].prev

LEMMA BackIs ==
  ASSUME NEW f, NEW p
  PROVE  Back(f, p, 0) = p /\ \A n \in Nat : Back(f, p, n + 1) = Before(f, Back(f, p, n))
<1> DEFINE F(b, n) == b = [k \in 0..n |-> IF k = 0 THEN p ELSE Before(f, b[k - 1])]
           back(n) == CHOOSE b : F(b, n)
<1>1. ASSUME NEW n \in Nat PROVE \E b : F(b, n)
  <2> DEFINE S == {m \in Nat : \E b : F(b, m)}
  <2>1. 0 \in S
    <3>1. F([k \in 0..0 |-> p], 0)
      OBVIOUS
    <3> QED BY <3>1
  <2>2. ASSUME NEW m \in 0..n - 1, m \in S PROVE m + 1 \in S
    <3>1. PICK b : F(b, m)
      BY <2>2
    <3> DEFINE c == [k \in 0..m + 1 |-> IF k = m + 1 THEN Before(f, b[m]) ELSE b[k]]
    <3>2. ASSUME NEW k \in 0..m + 1 PROVE c[k] = IF k = 0 THEN p ELSE Before(f, c[k - 1])
      <4>1. CASE k = m + 1
        BY <4>1
      <4>2. CASE k # m + 1
        <5>1. k \in 0..m /\ (k # 0 => k - 1 \in 0..m + 1 /\ k - 1 # m + 1)
          BY <4>2
        <5>2. b[k] = IF k = 0 THEN p ELSE Before(f, b[k - 1])
          BY <3>1, <5>1
        <5> QED BY <4>2, <5>1, <5>2
      <4> QED BY <4>1, <4>2
    <3>3. F(c, m + 1)
      BY <3>2
    <3> HIDE DEF c, F
    <3>4. m + 1 \in Nat
      OBVIOUS
    <3> QED BY <3>3, <3>4
  <2>3. n \in S
    <3> HIDE DEF S
    <3> QED BY <2>1, <2>2, UpTo, n \in 0..n
  <2> QED BY <2>3
<1>2. ASSUME NEW n \in Nat PROVE F(back(n), n) /\ Back(f, p, n) = back(n)[n]
  <2>1. F(back(n), n)
    <3> HIDE DEF F
    <3> QED BY <1>1
  <2>2. Back(f, p, n) = back(n)[n]
    BY DEF Back, Before
  <2> QED BY <2>1, <2>2
<1>3. ASSUME NEW n \in Nat PROVE back(n)[0] = p /\ \A k \in 0..n - 1 : back(n)[k + 1] = Before(f, back(n)[k])
  <2>1. F(back(n), n)
    BY <1>2
  <2> HIDE DEF back
  <2>2. \A k \in 0..n : back(n)[k] = IF k = 0 THEN p ELSE Before(f, back(n)[k - 1])
    BY <2>1
  <2>3. ASSUME NEW k \in 0..n - 1 PROVE back(n)[k + 1] = Before(f, back(n)[k])
    <3>1. k + 1 \in 0..n /\ k + 1 # 0 /\ k + 1 - 1 = k
      OBVIOUS
    <3> QED BY <2>2, <3>1
  <2> QED BY <2>2, <2>3, 0 \in 0..n
<1> HIDE DEF back, F
<1>4. ASSUME NEW n \in Nat PROVE Back(f, p, n + 1) = Before(f, Back(f, p, n))
  <2> DEFINE S == {k \in Nat : back(n)[k] = back(n + 1)[k]}
  <2>0. n + 1 \in Nat
    OBVIOUS
  <2>1. 0 \in S
    BY <1>3, <2>0
  <2>2. ASSUME NEW k \in 0..n - 1, k \in S PROVE k + 1 \in S
    <3>1. k \in 0..n + 1 - 1 /\ k + 1 \in Nat
      OBVIOUS
    <3>2. back(n)[k + 1] = Before(f, back(n)[k])
      BY <1>3
    <3>3. back(n + 1)[k + 1] = Before(f, back(n + 1)[k])
      BY <1>3, <2>0, <3>1
    <3> QED BY <2>2, <3>1, <3>2, <3>3
  <2>3. n \in S
    <3> HIDE DEF S
    <3> QED BY <2>1, <2>2, UpTo, n \in 0..n
  <2>4. back(n + 1)[n + 1] = Before(f, back(n + 1)[n])
    <3>1. n \in 0..n + 1 - 1
      OBVIOUS
    <3> QED BY <1>3, <2>0, <3>1
  <2> QED BY <1>2, <2>0, <2>3, <2>4
<1>5. Back(f, p, 0) = p
  BY <1>2, <1>3, 0 \in Nat
<1> QED BY <1>4, <1>5

LEMMA BackNext == \A f, p : \A n \in Nat : Back(f, p, n + 1) = Before(f, Back(f, p, n))
BY BackIs

\* The way back from a node is that from the node before it.
LEMMA BackFirst ==
  ASSUME NEW f, NEW p \in Nat
  PROVE  \A n \in Nat : Back(f, p, n + 1) = Back(f, f[p + 1].prev, n)
<1> DEFINE r == f[p + 1].prev
<1> SUFFICES ASSUME NEW n \in Nat PROVE Back(f, p, n + 1) = Back(f, r, n)
  OBVIOUS
<1> HIDE DEF r
<1> DEFINE S == {m \in Nat : Back(f, p, m + 1) = Back(f, r, m)}
<1>1. 0 \in S
  <2>1. Before(f, p) = r /\ Back(f, r, 0) = r
    BY BackIs DEF Before, r
  <2>2. ASSUME NEW m \in Nat, m = 0 PROVE Back(f, p, m + 1) = Back(f, r, m)
    <3>1. Back(f, p, m + 1) = Before(f, Back(f, p, m)) /\ Back(f, p, m) = p
      BY <2>2, BackIs
    <3> QED BY <2>1, <2>2, <3>1
  <2> QED BY <2>2
<1>2. ASSUME NEW m \in 0..n - 1, m \in S PROVE m + 1 \in S
  <2>1. m \in Nat /\ m + 1 \in Nat
    OBVIOUS
  <2>2. Back(f, p, (m + 1) + 1) = Before(f, Back(f, p, m + 1))
    BY <2>1, BackNext
  <2>3. Back(f, r, m + 1) = Before(f, Back(f, r, m))
    BY <2>1, BackNext
  <2> QED BY <1>2, <2>1, <2>2, <2>3
<1>3. n \in S
  <2> HIDE DEF S
  <2> QED BY <1>1, <1>2, UpTo, n \in 0..n
<1> QED BY <1>3

\* A node of position k (from 0): k steps lead back to the start, through indices of analyses.
Path(f, p, s, k) ==
  \A n \in 0..k : Back(f, p, n) \in 0..p /\ TagAt(f, p, n) \in Nat /\ TagAt(f, p, n) < Width(s, k - n + 1)

\* The nodes before p are the same, and p is a node for the tag t behind r.
KeptBefore(f, g, p) == \A q \in 0..p - 1 : g[q + 1] = f[q + 1]
NodeAt(f, p, t, r) == f[p + 1].tag = t /\ f[p + 1].prev = r

\* What is written behind a node does not change its path.
LEMMA PathKept ==
  ASSUME NEW f, NEW g, NEW q \in Nat, KeptBefore(f, g, q), NEW p \in 0..q - 1, NEW s, NEW k \in Nat, Path(f, p, s, k)
  PROVE  Path(g, p, s, k) /\ \A n \in 0..k : TagAt(g, p, n) = TagAt(f, p, n)
<1> DEFINE S == {n \in Nat : Back(g, p, n) = Back(f, p, n)}
<1>0. \A r \in 0..p : g[r + 1] = f[r + 1]
  BY DEF KeptBefore
<1>1. 0 \in S
  BY BackIs
<1>2. ASSUME NEW n \in 0..k - 1, n \in S PROVE n + 1 \in S
  <2>1. n \in Nat /\ n + 1 \in Nat /\ n \in 0..k
    OBVIOUS
  <2>2. Back(f, p, n) \in 0..p
    BY <2>1 DEF Path
  <2>3. Before(g, Back(f, p, n)) = Before(f, Back(f, p, n))
    BY <1>0, <2>2 DEF Before
  <2>4. Back(f, p, n + 1) = Before(f, Back(f, p, n)) /\ Back(g, p, n + 1) = Before(g, Back(g, p, n))
    BY <2>1, BackNext
  <2> QED BY <1>2, <2>1, <2>3, <2>4
<1>3. \A n \in 0..k : n \in S
  <2> HIDE DEF S
  <2> QED BY <1>1, <1>2, UpTo
<1>4. ASSUME NEW n \in 0..k PROVE Back(g, p, n) = Back(f, p, n) /\ TagAt(g, p, n) = TagAt(f, p, n)
  <2>1. Back(g, p, n) = Back(f, p, n) /\ Back(f, p, n) \in 0..p
    BY <1>3 DEF Path
  <2> QED BY <1>0, <2>1 DEF TagAt
<1> QED BY <1>4 DEF Path

\* The n-th tag back from a node for the tag t behind the node r, and that the path to p in g is such.
Entry(f, t, r, n) == IF n = 0 THEN t ELSE TagAt(f, r, n - 1)
Continues(g, p, f, t, r, k) == \A n \in 0..k : TagAt(g, p, n) = Entry(f, t, r, n)

\* A node behind another one.
LEMMA PathGrows ==
  ASSUME NEW f, NEW p \in Nat, NEW r \in 0..p - 1, NEW t \in Nat, NEW s, NEW k \in Nat \ {0}, Path(f, r, s, k - 1),
         NodeAt(f, p, t, r), t < Width(s, k + 1)
  PROVE  Path(f, p, s, k) /\ Continues(f, p, f, t, r, k)
<1>1. Back(f, p, 0) = p /\ p \in 0..p
  BY BackIs
<1>2. TagAt(f, p, 0) = t
  BY <1>1 DEF TagAt, NodeAt
<1>3. ASSUME NEW n \in 1..k
      PROVE  /\ Back(f, p, n) \in 0..p /\ TagAt(f, p, n) = TagAt(f, r, n - 1)
             /\ TagAt(f, p, n) \in Nat /\ TagAt(f, p, n) < Width(s, k - n + 1)
  <2>1. n - 1 \in Nat /\ n - 1 + 1 = n /\ n - 1 \in 0..k - 1 /\ (k - 1) - (n - 1) + 1 = k - n + 1
    OBVIOUS
  <2>2. Back(f, p, n) = Back(f, r, n - 1)
    <3>1. f[p + 1].prev = r
      BY DEF NodeAt
    <3>2. \A m \in Nat : Back(f, p, m + 1) = Back(f, r, m)
      BY <3>1, BackFirst
    <3> DEFINE m == n - 1
    <3>3. m \in Nat /\ n = m + 1
      BY <2>1
    <3> HIDE DEF m
    <3>4. Back(f, p, n) = Back(f, r, m)
      BY <3>2, <3>3
    <3> QED BY <3>4 DEF m
  <2>3. Back(f, r, n - 1) \in 0..r /\ TagAt(f, r, n - 1) \in Nat /\ TagAt(f, r, n - 1) < Width(s, (k - 1) - (n - 1) + 1)
    BY <2>1 DEF Path
  <2>4. Back(f, r, n - 1) \in 0..p
    BY <2>3
  <2> QED BY <2>1, <2>2, <2>3, <2>4 DEF TagAt
<1>4. ASSUME NEW n \in 0..k PROVE Back(f, p, n) \in 0..p /\ TagAt(f, p, n) \in Nat /\ TagAt(f, p, n) < Width(s, k - n + 1)
  <2>1. CASE n = 0
    BY <1>1, <1>2, <2>1
  <2>2. CASE n \in 1..k
    BY <1>3, <2>2
  <2> QED BY <2>1, <2>2
<1>5. ASSUME NEW n \in 0..k PROVE TagAt(f, p, n) = Entry(f, t, r, n)
  <2>1. n = 0 \/ n \in 1..k
    OBVIOUS
  <2> QED BY <1>2, <1>3, <2>1 DEF Entry
<1> QED BY <1>4, <1>5 DEF Path, Continues

LEMMA PathBegins ==
  ASSUME NEW f, NEW p \in Nat, NEW t \in Nat, NEW r, NEW s, NodeAt(f, p, t, r), t < Width(s, 1)
  PROVE  Path(f, p, s, 0) /\ \A g : Continues(f, p, g, t, r, 0)
<1>1. Back(f, p, 0) = p /\ p \in 0..p
  BY BackIs
<1>2. TagAt(f, p, 0) = t
  BY <1>1 DEF TagAt, NodeAt
<1>3. ASSUME NEW g PROVE Continues(f, p, g, t, r, 0)
  BY <1>2 DEF Continues, Entry
<1> QED BY <1>1, <1>2, <1>3 DEF Path
-----------------------------------------------------------------------------
(* The nodes of a position.                                                  *)

\* The nodes lo .. hi - 1 of a position (from 0): each is the end of a path, and they are in
\* strict order of their last decoding_order - 1 tags.
Hist(f, p, k) == [n \in 0..Depth(k) |-> TagAt(f, p, n)]
Level(f, s, lo, hi, k) ==
  /\ \A p \in lo..hi - 1 : Path(f, p, s, k)
  /\ \A p, q \in lo..hi - 1 : p < q => Less(Hist(f, p, k), Hist(f, q, k), Depth(k))

\* The history that a node for the tag t behind the node r would have.
Candidate(f, t, r, k) == [n \in 0..Depth(k) |-> Entry(f, t, r, n)]

\* The position k, its tag t, and the node r before it, one of a .. b - 1.
Turn(f, s, a, b, k, t, r) ==
  /\ Analyzed(s) /\ k \in 0..Len(s) - 1
  /\ t \in Nat /\ t < Width(s, k + 1)
  /\ r \in Int /\ a <= r /\ r < b /\ b \in Nat
  /\ \/ k = 0 /\ a = -1 /\ b = 0
     \/ k # 0 /\ a \in Nat /\ Level(f, s, a, b, k - 1)

LEMMA DepthIs ==
  ASSUME NEW k \in Nat
  PROVE  /\ Depth(k) \in 0..k /\ Depth(k) <= decoding_order - 2 /\ decoding_order \in Nat /\ decoding_order >= 2
         /\ k # 0 => Depth(k) <= Depth(k - 1) + 1
         /\ Depth(k) = k \/ Depth(k) = decoding_order - 2
         /\ window_size \in Nat /\ decoding_order <= window_size
BY OrderAssumption, WindowAssumption DEF Depth

LEMMA CandidateIs ==
  ASSUME NEW f, NEW s, NEW a \in Int, NEW b, NEW k, NEW t, NEW r, Turn(f, s, a, b, k, t, r)
  PROVE  /\ Candidate(f, t, r, k) \in [0..Depth(k) -> Nat]
         /\ \A n \in 0..k : Entry(f, t, r, n) \in Nat /\ Entry(f, t, r, n) < Width(s, k - n + 1)
<1>1. k \in Nat
  BY DEF Turn, Analyzed
<1>2. ASSUME NEW n \in 0..k PROVE Entry(f, t, r, n) \in Nat /\ Entry(f, t, r, n) < Width(s, k - n + 1)
  <2>1. CASE n = 0
    BY <1>1, <2>1 DEF Entry, Turn
  <2>2. CASE n # 0
    <3>1. k # 0 /\ r \in a..b - 1 /\ Level(f, s, a, b, k - 1)
      BY <1>1, <2>2 DEF Turn
    <3>2. Path(f, r, s, k - 1)
      BY <3>1 DEF Level
    <3>3. n - 1 \in 0..k - 1 /\ (k - 1) - (n - 1) + 1 = k - n + 1
      BY <1>1, <2>2
    <3>4. TagAt(f, r, n - 1) \in Nat /\ TagAt(f, r, n - 1) < Width(s, (k - 1) - (n - 1) + 1)
      BY <3>2, <3>3 DEF Path
    <3> QED BY <2>2, <3>3, <3>4 DEF Entry
  <2> QED BY <2>1, <2>2
<1>3. \A n \in 0..Depth(k) : n \in 0..k
  BY <1>1, DepthIs
<1> QED BY <1>2, <1>3 DEF Candidate

LEMMA HistoryType ==
  ASSUME NEW f, NEW s, NEW lo \in Nat, NEW hi \in Nat, NEW k \in Nat, Level(f, s, lo, hi, k), NEW p \in lo..hi - 1
  PROVE  /\ Hist(f, p, k) \in [0..Depth(k) -> Nat]
         /\ \A n \in 0..Depth(k) : TagAt(f, p, n) \in Nat /\ TagAt(f, p, n) < Width(s, k - n + 1)
<1>1. Path(f, p, s, k) /\ \A n \in 0..Depth(k) : n \in 0..k
  BY DepthIs DEF Level
<1> QED BY <1>1 DEF Path, Hist

\* From one turn to the next the candidates grow, or stay the same as far as histories go.
LEMMA TurnsAscend ==
  ASSUME NEW f, NEW s, NEW a \in Int, NEW b, NEW k, NEW t, NEW r, NEW t2, NEW r2,
         Turn(f, s, a, b, k, t, r), Turn(f, s, a, b, k, t2, r2),
         t < t2 \/ (t = t2 /\ r < r2)
  PROVE  \/ Less(Candidate(f, t, r, k), Candidate(f, t2, r2, k), Depth(k))
         \/ Depth(k) = decoding_order - 2 /\ \A n \in 0..Depth(k) : Entry(f, t, r, n) = Entry(f, t2, r2, n)
<1>1. k \in Nat /\ t \in Nat /\ t2 \in Nat
  BY DEF Turn, Analyzed
<1>2. Depth(k) \in 0..k /\ 0 \in 0..Depth(k)
  BY <1>1, DepthIs
<1>3. CASE t < t2
  <2>1. Candidate(f, t, r, k)[0] = t /\ Candidate(f, t2, r2, k)[0] = t2
    BY <1>2 DEF Candidate, Entry
  <2> QED BY <1>2, <1>3, <2>1 DEF Less
<1>4. CASE t = t2 /\ r < r2
  <2>1. k # 0 /\ a \in Nat /\ b \in Nat /\ Level(f, s, a, b, k - 1) /\ r \in a..b - 1 /\ r2 \in a..b - 1 /\ k - 1 \in Nat
    BY <1>1, <1>4 DEF Turn
  <2>2. Less(Hist(f, r, k - 1), Hist(f, r2, k - 1), Depth(k - 1))
    BY <1>4, <2>1 DEF Level
  <2>3. PICK m \in 0..Depth(k - 1) : /\ TagAt(f, r, m) < TagAt(f, r2, m)
                                     /\ \A n \in 0..m - 1 : TagAt(f, r, n) = TagAt(f, r2, n)
    <3>1. PICK m \in 0..Depth(k - 1) : /\ Hist(f, r, k - 1)[m] < Hist(f, r2, k - 1)[m]
                                       /\ \A n \in 0..m - 1 : Hist(f, r, k - 1)[n] = Hist(f, r2, k - 1)[n]
      BY <2>2 DEF Less
    <3>2. Depth(k - 1) \in Nat
      BY <2>1, DepthIs
    <3>3. \A n \in 0..m - 1 : n \in 0..Depth(k - 1)
      BY <3>2
    <3> QED BY <3>1, <3>3 DEF Hist
  <2>4. Depth(k - 1) \in 0..k - 1 /\ Depth(k) <= Depth(k - 1) + 1 /\ Depth(k) \in Nat
    BY <1>1, <2>1, DepthIs
  <2>5. \A n \in 0..m : Entry(f, t, r, n) = Entry(f, t2, r2, n)
    <3> SUFFICES ASSUME NEW n \in 0..m, n # 0 PROVE Entry(f, t, r, n) = Entry(f, t2, r2, n)
      BY <1>4 DEF Entry
    <3>1. n - 1 \in 0..m - 1
      BY <2>4
    <3> QED BY <2>3, <3>1 DEF Entry
  <2>6. CASE m + 1 <= Depth(k)
    <3>1. m + 1 \in 0..Depth(k) /\ m + 1 # 0 /\ m + 1 - 1 = m
      BY <2>4, <2>6
    <3>2. Candidate(f, t, r, k)[m + 1] < Candidate(f, t2, r2, k)[m + 1]
      BY <2>3, <3>1 DEF Candidate, Entry
    <3>3. \A n \in 0..(m + 1) - 1 : n \in 0..m /\ n \in 0..Depth(k)
      BY <2>4, <3>1
    <3>4. \A n \in 0..(m + 1) - 1 : Candidate(f, t, r, k)[n] = Candidate(f, t2, r2, k)[n]
      BY <2>5, <3>3 DEF Candidate
    <3> QED BY <3>1, <3>2, <3>4 DEF Less
  <2>7. CASE ~ (m + 1 <= Depth(k))
    <3>1. \A n \in 0..Depth(k) : n \in 0..m
      BY <2>4, <2>7
    <3>2. Depth(k) # k
      BY <1>1, <2>1, <2>4, <2>7
    <3>3. Depth(k) = decoding_order - 2
      BY <1>1, <3>2, DepthIs
    <3> QED BY <2>5, <3>1, <3>3
  <2> QED BY <2>6, <2>7
<1> QED BY <1>3, <1>4

\* However many nodes there are, with one more of a later history they still have room.
LEMMA RoomForOneMore ==
  ASSUME NEW f, NEW s, NEW a \in Int, NEW b \in Nat, NEW c \in Nat, b <= c, NEW k, NEW t, NEW r,
         Turn(f, s, a, b, k, t, r), Level(f, s, b, c, k),
         b = c \/ Less(Hist(f, c - 1, k), Candidate(f, t, r, k), Depth(k)),
         b <= Room(s, k)
  PROVE  c < Room(s, k + 1) /\ Room(s, k + 1) <= Room(s, Len(s))
<1>1. k \in Nat /\ Analyzed(s) /\ k + 1 \in 1..Len(s) /\ k + 1 - 1 = k /\ k \in 0..Len(s) /\ k + 1 \in 0..Len(s)
  BY DEF Turn, Analyzed
<1> DEFINE d == Depth(k)
           size == [n \in 0..d |-> Width(s, k - n + 1)]
           product == [n \in 0..d |-> Products(s, k + 1)[n]]
           h == [p \in b..c |-> IF p < c THEN Hist(f, p, k) ELSE Candidate(f, t, r, k)]
<1>2. d \in Nat /\ d <= k /\ d \in 0..k
  BY <1>1, DepthIs
<1>3. /\ Products(s, k + 1) \in [0..k -> Nat] /\ Products(s, k + 1)[0] = Width(s, k + 1)
      /\ \A n \in 1..k : Products(s, k + 1)[n] = Products(s, k + 1)[n - 1] * Width(s, k + 1 - n)
  BY <1>1, ProductsAre
<1>4. size \in [0..d -> Nat] /\ product \in [0..d -> Nat]
  <2>1. ASSUME NEW n \in 0..d PROVE n \in 0..k /\ Width(s, k - n + 1) \in Nat
    <3>1. k - n + 1 \in 1..Len(s) /\ n \in 0..k
      BY <1>1, <1>2
    <3> QED BY <1>1, <3>1, WidthIs
  <2> QED BY <1>3, <2>1
<1>5. product[0] = size[0] /\ \A n \in 0..d - 1 : product[n + 1] = product[n] * size[n + 1]
  <2>1. product[0] = size[0]
    BY <1>1, <1>2, <1>3, 0 \in 0..d, k - 0 + 1 = k + 1
  <2>2. ASSUME NEW n \in 0..d - 1 PROVE product[n + 1] = product[n] * size[n + 1]
    <3> DEFINE m == n + 1
    <3>1. m \in 1..k /\ m - 1 = n /\ k + 1 - m = k - m + 1 /\ m \in 0..d /\ n \in 0..d
      BY <1>1, <1>2
    <3> HIDE DEF m
    <3>2. Products(s, k + 1)[m] = Products(s, k + 1)[n] * Width(s, k - m + 1)
      BY <1>3, <3>1
    <3>3. product[m] = product[n] * size[m]
      BY <3>1, <3>2
    <3> QED BY <3>3 DEF m
  <2> QED BY <2>1, <2>2
<1>6. ASSUME NEW p \in b..c
      PROVE  h[p] \in [0..d -> Nat] /\ \A n \in 0..d : h[p][n] < size[n]
  <2>1. CASE p < c
    <3>1. p \in b..c - 1 /\ h[p] = Hist(f, p, k)
      BY <2>1
    <3>2. Hist(f, p, k) \in [0..d -> Nat] /\ \A n \in 0..d : TagAt(f, p, n) < Width(s, k - n + 1)
      BY <1>1, <3>1, HistoryType
    <3>3. \A n \in 0..d : Hist(f, p, k)[n] = TagAt(f, p, n)
      BY DEF Hist
    <3> QED BY <3>1, <3>2, <3>3
  <2>2. CASE ~ (p < c)
    <3>1. h[p] = Candidate(f, t, r, k)
      BY <2>2
    <3>2. Candidate(f, t, r, k) \in [0..d -> Nat] /\ \A n \in 0..k : Entry(f, t, r, n) < Width(s, k - n + 1)
      BY CandidateIs
    <3>3. \A n \in 0..d : n \in 0..k /\ Candidate(f, t, r, k)[n] = Entry(f, t, r, n)
      BY <1>1, <1>2 DEF Candidate
    <3> QED BY <3>1, <3>2, <3>3
  <2> QED BY <2>1, <2>2
<1>7. ASSUME NEW p \in b..c, NEW q \in b..c, p < q PROVE Less(h[p], h[q], d)
  <2>1. p \in b..c - 1 /\ h[p] = Hist(f, p, k)
    BY <1>7
  <2>2. CASE q < c
    <3>1. q \in b..c - 1 /\ h[q] = Hist(f, q, k)
      BY <2>2
    <3> QED BY <1>7, <2>1, <3>1 DEF Level
  <2>3. CASE ~ (q < c)
    <3>1. h[q] = Candidate(f, t, r, k) /\ b # c /\ c - 1 \in b..c - 1
      BY <1>7, <2>3
    <3>2. Less(Hist(f, c - 1, k), h[q], d)
      BY <3>1
    <3>3. CASE p = c - 1
      BY <2>1, <3>2, <3>3
    <3>4. CASE p # c - 1
      <4>1. p < c - 1
        BY <2>1, <3>4
      <4>2. Less(Hist(f, p, k), Hist(f, c - 1, k), d)
        BY <2>1, <3>1, <4>1 DEF Level
      <4>3. /\ Hist(f, p, k) \in [0..d -> Int] /\ Hist(f, c - 1, k) \in [0..d -> Int]
            /\ h[q] \in [0..d -> Int]
        <5>1. Hist(f, p, k) \in [0..d -> Nat] /\ Hist(f, c - 1, k) \in [0..d -> Nat]
          BY <1>1, <2>1, <3>1, HistoryType
        <5>2. h[q] \in [0..d -> Nat]
          BY <1>6
        <5>3. \A x \in [0..d -> Nat] : x \in [0..d -> Int]
          OBVIOUS
        <5> HIDE DEF h, d
        <5> QED BY <5>1, <5>2, <5>3
      <4> HIDE DEF h, d
      <4> QED BY <1>2, <2>1, <3>2, <4>2, <4>3, LessTransitive, Zenon
    <3> QED BY <3>3, <3>4
  <2> QED BY <2>2, <2>3
<1>8. h \in [b..c -> [0..d -> Nat]]
  <2>1. h = [p \in b..c |-> h[p]]
    OBVIOUS
  <2> HIDE DEF h, d, size
  <2> QED BY <1>6, <2>1
<1>9. c - b < product[d]
  <2> HIDE DEF h, d, size, product
  <2> QED BY <1>2, <1>4, <1>5, <1>6, <1>7, <1>8, FewHistories
<1>10. product[d] = States(s)[k + 1]
  <2>1. product[d] = Products(s, k + 1)[d]
    BY <1>2, d \in 0..d
  <2>2. States(s)[k + 1] = Products(s, k + 1)[Depth(k + 1 - 1)]
    BY <1>1, StatesAreProducts
  <2> QED BY <1>1, <2>1, <2>2
<1>11. Room(s, k + 1) = Room(s, k) + States(s)[k + 1] /\ Room(s, k) \in Nat
  <2>1. Room(s, k + 1) = Room(s, k + 1 - 1) + States(s)[k + 1]
    BY <1>1, RoomIs
  <2> QED BY <1>1, <2>1, RoomIs
<1>12. product[d] \in Nat
  BY <1>2, <1>4, d \in 0..d
<1>13. Room(s, k + 1) <= Room(s, Len(s))
  <2>1. Len(s) \in Nat
    BY <1>1 DEF Analyzed
  <2> DEFINE S == {n \in Nat : k + 1 + n <= Len(s) => Room(s, k + 1) <= Room(s, k + 1 + n)}
  <2>2. 0 \in S
    <3>1. Room(s, k + 1) \in Nat
      BY <1>1, RoomIs
    <3>2. k + 1 + 0 = k + 1
      BY <1>1
    <3> QED BY <3>1, <3>2
  <2>3. ASSUME NEW n \in 0..Len(s) - 1, n \in S PROVE n + 1 \in S
    <3> SUFFICES ASSUME k + 1 + (n + 1) <= Len(s) PROVE Room(s, k + 1) <= Room(s, k + 1 + (n + 1))
      BY <2>3
    <3> DEFINE m == k + 1 + (n + 1)
    <3>1. m \in 1..Len(s) /\ m - 1 = k + 1 + n /\ m \in 0..Len(s) /\ k + 1 + n \in 0..Len(s) /\ k + 1 + n <= Len(s)
      BY <1>1, <2>1
    <3> HIDE DEF m
    <3>2. Room(s, m) = Room(s, m - 1) + States(s)[m] /\ Room(s, k + 1) \in Nat /\ Room(s, k + 1 + n) \in Nat
      BY <1>1, <3>1, RoomIs
    <3>3. States(s)[m] \in Nat
      BY <1>1, <3>1, StatesAre
    <3>4. Room(s, k + 1) <= Room(s, k + 1 + n)
      BY <2>3, <3>1
    <3>5. Room(s, k + 1) <= Room(s, m)
      BY <3>1, <3>2, <3>3, <3>4
    <3> QED BY <3>5 DEF m
  <2>4. \A n \in 0..Len(s) : n \in S
    <3> HIDE DEF S
    <3> QED BY <2>1, <2>2, <2>3, UpTo
  <2>5. Len(s) - (k + 1) \in 0..Len(s) /\ k + 1 + (Len(s) - (k + 1)) = Len(s)
    BY <1>1, <2>1
  <2> QED BY <2>1, <2>4, <2>5
<1> QED BY <1>9, <1>10, <1>11, <1>12, <1>13

\* Any vector of nodes.
LEMMA SeqIsNodes ==
  ASSUME NEW X, NEW f \in Seq(X)
  PROVE  f \in Seq(Range(f)) /\ Len(f) \in Nat /\ DOMAIN f = 1..Len(f)
<1>1. f \in [1..Len(f) -> Range(f)] /\ Len(f) \in Nat
  BY DEF Range
<1> QED BY <1>1

\* The histories of a turn are the same in g as in f.
SameEntries(f, g, t, r, k) == \A n \in 0..Depth(k) : Entry(g, t, r, n) = Entry(f, t, r, n)

\* A node is written behind the others of its position, or in place of the last one.
LEMMA NodeWritten ==
  ASSUME NEW f, NEW s, NEW a \in Int, NEW b \in Nat, NEW c \in Nat, NEW k, NEW t, NEW r,
         Turn(f, s, a, b, k, t, r), Level(f, s, b, c, k),
         NEW place \in b..c,
         place = b \/ Less(Hist(f, place - 1, k), Candidate(f, t, r, k), Depth(k)),
         NEW g, NodeAt(g, place, t, r), KeptBefore(f, g, place)
  PROVE  /\ Level(g, s, b, place + 1, k)
         /\ k # 0 => Level(g, s, a, b, k - 1)
         /\ Continues(g, place, f, t, r, k)
         /\ SameEntries(f, g, t, r, k)
<1>1. k \in Nat /\ t \in Nat /\ Depth(k) \in Nat /\ Depth(k) \in 0..k /\ r \in Int /\ a <= r /\ r < b
  <2>1. k \in Nat /\ t \in Nat /\ r \in Int /\ a <= r /\ r < b
    BY DEF Turn, Analyzed
  <2> QED BY <2>1, DepthIs
<1>5. ASSUME NEW p \in 0..place - 1, NEW j \in Nat, Path(f, p, s, j)
      PROVE  Path(g, p, s, j) /\ \A n \in 0..j : TagAt(g, p, n) = TagAt(f, p, n)
  <2> place \in Nat
    OBVIOUS
  <2> QED BY <1>5, PathKept
<1>6. ASSUME NEW p \in 0..place - 1, NEW j \in Nat, Path(f, p, s, j)
      PROVE  Hist(g, p, j) = Hist(f, p, j)
  <2>1. \A n \in 0..Depth(j) : n \in 0..j
    BY DepthIs
  <2> QED BY <1>5, <1>6, <2>1 DEF Hist
<1>7. ASSUME k # 0 PROVE Level(g, s, a, b, k - 1)
  <2>1. a \in Nat /\ Level(f, s, a, b, k - 1) /\ k - 1 \in Nat
    BY <1>1, <1>7 DEF Turn
  <2>2. \A p \in a..b - 1 : p \in 0..place - 1 /\ Path(f, p, s, k - 1)
    BY <2>1 DEF Level
  <2>3. \A p \in a..b - 1 : Path(g, p, s, k - 1) /\ Hist(g, p, k - 1) = Hist(f, p, k - 1)
    BY <1>5, <1>6, <2>1, <2>2
  <2> QED BY <2>1, <2>3 DEF Level
<1>8. Path(g, place, s, k) /\ Continues(g, place, f, t, r, k)
  <2>1. place \in Nat /\ t < Width(s, k + 1)
    BY DEF Turn
  <2>2. CASE k = 0
    <3>1. Path(g, place, s, 0) /\ Continues(g, place, f, t, r, 0)
      BY <1>1, <2>1, <2>2, PathBegins
    <3> QED BY <2>2, <3>1
  <2>3. CASE k # 0
    <3>1. r \in 0..place - 1 /\ r \in a..b - 1 /\ Level(f, s, a, b, k - 1) /\ k - 1 \in Nat /\ k \in Nat \ {0}
      BY <1>1, <2>3 DEF Turn
    <3>2. Path(f, r, s, k - 1)
      BY <3>1 DEF Level
    <3>3. Path(g, r, s, k - 1) /\ \A n \in 0..k - 1 : TagAt(g, r, n) = TagAt(f, r, n)
      BY <1>5, <3>1, <3>2
    <3>4. Path(g, place, s, k) /\ Continues(g, place, g, t, r, k)
      BY <1>1, <2>1, <3>1, <3>3, PathGrows
    <3>5. ASSUME NEW n \in 0..k PROVE Entry(g, t, r, n) = Entry(f, t, r, n)
      <4>1. n = 0 \/ n - 1 \in 0..k - 1
        BY <1>1
      <4> QED BY <3>3, <4>1 DEF Entry
    <3> QED BY <3>4, <3>5 DEF Continues
  <2> QED BY <2>2, <2>3
<1>9. Hist(g, place, k) = Candidate(f, t, r, k)
  <2>1. \A n \in 0..Depth(k) : n \in 0..k
    BY <1>1
  <2> QED BY <1>8, <2>1 DEF Hist, Candidate, Continues
<1>10. Level(g, s, b, place + 1, k)
  <2>1. \A p \in b..place - 1 : p \in b..c - 1 /\ p \in 0..place - 1
    OBVIOUS
  <2>2. \A p \in b..place - 1 : Path(f, p, s, k)
    BY <2>1 DEF Level
  <2>3. \A p \in b..place - 1 : Path(g, p, s, k) /\ Hist(g, p, k) = Hist(f, p, k)
    BY <1>1, <1>5, <1>6, <2>1, <2>2
  <2>4. \A p \in b..(place + 1) - 1 : p \in b..place - 1 \/ p = place
    OBVIOUS
  <2>5. \A p \in b..(place + 1) - 1 : Path(g, p, s, k)
    BY <1>8, <2>3, <2>4
  <2>6. ASSUME NEW p \in b..(place + 1) - 1, NEW q \in b..(place + 1) - 1, p < q
        PROVE  Less(Hist(g, p, k), Hist(g, q, k), Depth(k))
    <3>1. p \in b..place - 1
      BY <2>6
    <3>2. CASE q \in b..place - 1
      <4>1. Less(Hist(f, p, k), Hist(f, q, k), Depth(k))
        BY <2>1, <2>6, <3>1, <3>2 DEF Level
      <4> QED BY <2>3, <3>1, <3>2, <4>1
    <3>3. CASE q = place
      <4>1. place # b /\ place - 1 \in b..place - 1 /\ place - 1 \in b..c - 1
        BY <2>6, <3>1, <3>3
      <4>2. Less(Hist(f, place - 1, k), Candidate(f, t, r, k), Depth(k))
        BY <4>1
      <4>3. CASE p = place - 1
        BY <1>9, <2>3, <3>1, <3>3, <4>2, <4>3
      <4>4. CASE p # place - 1
        <5>1. p < place - 1 /\ p \in b..c - 1
          BY <3>1, <4>4
        <5>2. Less(Hist(f, p, k), Hist(f, place - 1, k), Depth(k))
          BY <4>1, <5>1 DEF Level
        <5>3. /\ Hist(f, p, k) \in [0..Depth(k) -> Int] /\ Hist(f, place - 1, k) \in [0..Depth(k) -> Int]
              /\ Candidate(f, t, r, k) \in [0..Depth(k) -> Int]
          <6>1. Hist(f, p, k) \in [0..Depth(k) -> Nat] /\ Hist(f, place - 1, k) \in [0..Depth(k) -> Nat]
            BY <1>1, <4>1, <5>1, HistoryType
          <6>2. Candidate(f, t, r, k) \in [0..Depth(k) -> Nat]
            BY CandidateIs
          <6>3. \A x \in [0..Depth(k) -> Nat] : x \in [0..Depth(k) -> Int]
            OBVIOUS
          <6> QED BY <6>1, <6>2, <6>3
        <5>4. Less(Hist(f, p, k), Candidate(f, t, r, k), Depth(k))
          BY <1>1, <4>2, <5>2, <5>3, LessTransitive
        <5> QED BY <1>9, <2>3, <3>1, <3>3, <5>4
      <4> QED BY <4>3, <4>4
    <3> QED BY <2>4, <3>2, <3>3
  <2> QED BY <2>5, <2>6 DEF Level
<1>11. ASSUME NEW n \in 0..Depth(k) PROVE Entry(g, t, r, n) = Entry(f, t, r, n)
  <2>1. CASE n = 0
    BY <2>1 DEF Entry
  <2>2. CASE n # 0
    <3>1. k # 0
      BY <1>1, <2>2
    <3>2. a \in Nat /\ Level(f, s, a, b, k - 1) /\ k - 1 \in Nat /\ n - 1 \in 0..k - 1
      BY <1>1, <2>2, <3>1 DEF Turn
    <3>3. r \in a..b - 1 /\ r \in 0..place - 1
      BY <1>1, <3>2
    <3>4. Path(f, r, s, k - 1)
      BY <3>2, <3>3 DEF Level
    <3>5. TagAt(g, r, n - 1) = TagAt(f, r, n - 1)
      BY <1>5, <3>2, <3>3, <3>4
    <3> QED BY <2>2, <3>5 DEF Entry
  <2> QED BY <2>1, <2>2
<1> QED BY <1>7, <1>8, <1>10, <1>11 DEF SameEntries

LEMMA LesserOfTwo ==
  ASSUME NEW m \in Nat, NEW n \in Nat
  PROVE  Min({m, n}) = IF m <= n THEN m ELSE n
<1>1. {m, n} \in SUBSET Nat /\ {m, n} # {}
  OBVIOUS
<1>2. Min({m, n}) \in {m, n} /\ \A k \in {m, n} : Min({m, n}) <= k
  BY <1>1, LeastIsMin
<1> QED BY <1>2

\* The places up to which two windows agree.
Agreeing(v, w, k) == {n \in 1..Min({window_size, k + 1}) : \A m \in 1..n : v[m] = w[m]}

\* The leading tags that two windows have in common are as many as a history has tags exactly
\* when the histories are of full length and equal.
LEMMA SameHistories ==
  ASSUME NEW v, NEW w, NEW k \in Nat
  PROVE  Cardinality(Agreeing(v, w, k)) >= decoding_order - 1
           <=> Depth(k) = decoding_order - 2 /\ \A n \in 0..Depth(k) : v[n + 1] = w[n + 1]
<1> DEFINE N == Min({window_size, k + 1})
           same == {n \in 1..N : \A m \in 1..n : v[m] = w[m]}
           d == decoding_order
<1>1. d \in Nat /\ d >= 2 /\ window_size \in Nat /\ d <= window_size /\ Depth(k) \in 0..k /\ Depth(k) <= d - 2
      /\ (Depth(k) = k \/ Depth(k) = d - 2)
  BY DepthIs
<1>2. N \in Nat /\ N <= window_size /\ N <= k + 1 /\ (N = window_size \/ N = k + 1)
  BY <1>1, LesserOfTwo
<1> HIDE DEF N
<1>3. IsFiniteSet(1..N) /\ Cardinality(1..N) = N
  BY <1>2, FS_Interval
<1>4. IsFiniteSet(same) /\ Cardinality(same) \in Nat /\ Cardinality(same) <= N
  <2>1. same \subseteq 1..N
    OBVIOUS
  <2> HIDE DEF same
  <2> QED BY <1>3, <2>1, FS_Subset, FS_CardinalityType
<1>5. ASSUME Depth(k) = d - 2, \A n \in 0..Depth(k) : v[n + 1] = w[n + 1] PROVE Cardinality(same) >= d - 1
  <2>1. 1..d - 1 \subseteq same
    <3> SUFFICES ASSUME NEW n \in 1..d - 1 PROVE n \in same
      OBVIOUS
    <3>1. n \in 1..N
      BY <1>1, <1>2, <1>5
    <3>2. ASSUME NEW m \in 1..n PROVE v[m] = w[m]
      <4>1. m - 1 \in 0..Depth(k) /\ m - 1 + 1 = m
        BY <1>1, <1>5
      <4> QED BY <1>5, <4>1
    <3> QED BY <3>1, <3>2
  <2>2. Cardinality(1..d - 1) = d - 1
    <3>1. Cardinality(1..d - 1) = IF 1 > d - 1 THEN 0 ELSE (d - 1) - 1 + 1
      BY <1>1, FS_Interval
    <3> QED BY <1>1, <3>1
  <2>3. Cardinality(1..d - 1) <= Cardinality(same)
    <3> HIDE DEF same
    <3> QED BY <1>4, <2>1, FS_Subset
  <2> QED BY <1>1, <1>4, <2>2, <2>3
<1>6. ASSUME Depth(k) # d - 2 PROVE ~ (Cardinality(same) >= d - 1)
  BY <1>1, <1>2, <1>4, <1>6
<1>7. ASSUME NEW n \in 0..Depth(k), v[n + 1] # w[n + 1] PROVE ~ (Cardinality(same) >= d - 1)
  <2>1. same \subseteq 1..n
    <3> SUFFICES ASSUME NEW m \in same, m > n PROVE FALSE
      BY <1>1
    <3>1. n + 1 \in 1..m
      BY <1>1
    <3> QED BY <1>7, <3>1
  <2>2. n \in Nat /\ IsFiniteSet(1..n) /\ Cardinality(1..n) = n
    BY <1>1, FS_Interval
  <2>3. Cardinality(same) <= n
    <3> HIDE DEF same
    <3> QED BY <2>1, <2>2, FS_Subset
  <2> QED BY <1>1, <1>4, <2>2, <2>3
<1>8. Agreeing(v, w, k) = same
  BY DEF Agreeing, N
<1> QED BY <1>5, <1>6, <1>7, <1>8
-----------------------------------------------------------------------------
(* The invariant, and the steps that keep it.                                *)

\* Whether a turn of the position is done, and which was the last one.
Begun == tag # 0 \/ prev # nodes_prev
LastTag == IF prev > nodes_prev THEN tag ELSE tag - 1
LastPrev == IF prev > nodes_prev THEN prev - 1 ELSE nodes_now - 1

\* The window is that of the last turn, and the newest node has its history.
WindowInv ==
  /\ window \in Seq(Int) /\ Len(window) = window_size
  /\ ~ Begun => nodes_next = nodes_now /\ window = NoWindow
  /\ Begun => /\ nodes_now < nodes_next
              /\ \A n \in 0..Depth(i) : /\ window[n + 1] = Entry(nodes, LastTag, LastPrev, n)
                                        /\ TagAt(nodes, nodes_next - 1, n) = window[n + 1]

\* The loops are at a turn, or past the last one.
LoopInv ==
  /\ Analyzed(sentence) /\ i \in 0..Len(sentence) - 1
  /\ tag \in 0..Width(sentence, i + 1)
  /\ prev \in Int /\ nodes_prev \in Int /\ nodes_now \in Nat
  /\ nodes_prev <= prev /\ prev < nodes_now /\ nodes_now <= nodes_next
  /\ tag = Width(sentence, i + 1) => prev = nodes_prev
  /\ \/ i = 0 /\ nodes_prev = -1 /\ nodes_now = 0
     \/ i # 0 /\ nodes_prev \in Nat /\ Level(nodes, sentence, nodes_prev, nodes_now, i - 1)

\* The nodes of the position, and how many the positions so far can have.
RoomInv ==
  /\ Level(nodes, sentence, nodes_now, nodes_next, i)
  /\ nodes_now <= Room(sentence, i) /\ nodes_next <= Room(sentence, i + 1)
  /\ Room(sentence, Len(sentence)) <= Len(nodes)

\* The nodes of the last form.
EndInv ==
  /\ Analyzed(sentence) /\ Len(sentence) # 0
  /\ nodes_prev \in Nat /\ nodes_now \in Nat /\ nodes_prev < nodes_now
  /\ Level(nodes, sentence, nodes_prev, nodes_now, Len(sentence) - 1)

TagsInv == \A k \in DOMAIN sentence : tags[k] \in Nat /\ tags[k] < Width(sentence, k)

IInv ==
  /\ nodes \in Seq(Range(nodes)) /\ nodes_next \in Nat /\ nodes_next <= Len(nodes)
  /\ pc = "node" => LoopInv /\ WindowInv /\ RoomInv
  /\ pc = "trace" => EndInv
  /\ pc = "done" => TagsInv

LEMMA TurnNow ==
  ASSUME LoopInv, tag < Size(i)
  PROVE  Turn(nodes, sentence, nodes_prev, nodes_now, i, tag, prev) /\ Size(i) = Width(sentence, i + 1)
<1>1. Size(i) = Width(sentence, i + 1)
  BY DEF Size, Width
<1>2. i \in Nat /\ i + 1 \in 1..Len(sentence)
  BY DEF LoopInv, Analyzed
<1>3. tag \in Nat
  <2>1. Width(sentence, i + 1) \in Nat
    BY <1>2, WidthIs DEF LoopInv
  <2> QED BY <2>1 DEF LoopInv
<1> QED BY <1>1, <1>3 DEF LoopInv, Turn

\* The window of a turn holds its tag and the tags of the path to the node before it.
LEMMA WindowIs ==
  ASSUME NEW t, NEW p, Turn(nodes, sentence, nodes_prev, nodes_now, i, t, p), nodes_prev \in Int,
         window \in Seq(Int), Len(window) = window_size
  PROVE  /\ NextWindow(t, p) \in Seq(Int) /\ Len(NextWindow(t, p)) = window_size
         /\ \A n \in 0..Depth(i) : NextWindow(t, p)[n + 1] = Entry(nodes, t, p, n)
         /\ \A n \in 0..i : n < window_size => NextWindow(t, p)[n + 1] = Entry(nodes, t, p, n)
<1>1. i \in Nat /\ t \in Nat /\ window_size \in Nat /\ window_size # 0 /\ Depth(i) \in 0..i /\ Depth(i) < window_size
  <2>1. i \in Nat /\ t \in Nat
    BY DEF Turn, Analyzed
  <2> QED BY <2>1, DepthIs, WindowAssumption
<1> DEFINE N == Min({window_size - 1, i})
<1>2. N \in Nat /\ N <= window_size - 1 /\ N <= i /\ (N = window_size - 1 \/ N = i)
  BY <1>1, LesserOfTwo
<1>3. Chain(p) = [n \in 1..N |-> TagBack(p, n - 1)]
  BY DEF Chain
<1> HIDE DEF N
<1>4. \A n \in Nat : TagBack(p, n) = TagAt(nodes, p, n)
  BY DEF TagBack, Ancestor, TagAt, Back
<1>5. ASSUME NEW n \in 1..N PROVE TagBack(p, n - 1) \in Int /\ TagBack(p, n - 1) = Entry(nodes, t, p, n)
  <2>1. n \in 0..i /\ n # 0 /\ n - 1 \in Nat
    BY <1>1, <1>2
  <2>2. Entry(nodes, t, p, n) \in Nat
    BY <2>1, CandidateIs
  <2>3. Entry(nodes, t, p, n) = TagAt(nodes, p, n - 1)
    BY <2>1 DEF Entry
  <2> QED BY <1>4, <2>1, <2>2, <2>3
<1>6. Chain(p) \in Seq(Int) /\ Len(Chain(p)) = N /\ \A n \in 1..N : Chain(p)[n] = Entry(nodes, t, p, n)
  <2> DEFINE chain == [n \in 1..N |-> TagBack(p, n - 1)]
  <2>1. chain \in [1..N -> Int] /\ DOMAIN chain = 1..N /\ \A n \in 1..N : chain[n] = Entry(nodes, t, p, n)
    BY <1>5
  <2>2. Chain(p) = chain
    BY <1>3
  <2> HIDE DEF chain
  <2> QED BY <1>2, <2>1, <2>2
<1> DEFINE new == <<t>> \o Chain(p)
           old == SubSeq(window, Len(new) + 1, window_size)
<1>7. /\ new \in Seq(Int) /\ Len(new) = N + 1 /\ new[1] = t
      /\ \A n \in 1..N : new[n + 1] = Entry(nodes, t, p, n)
  <2>1. <<t>> \in Seq(Int) /\ Len(<<t>>) = 1 /\ <<t>>[1] = t
    BY <1>1
  <2>2. new \in Seq(Int) /\ Len(new) = N + 1
    BY <1>2, <1>6, <2>1
  <2>3. new[1] = t
    BY <1>1, <1>2, <1>6
  <2>4. ASSUME NEW n \in 1..N PROVE new[n + 1] = Chain(p)[n]
    BY <1>2, <1>6, <2>1
  <2> QED BY <1>6, <2>2, <2>3, <2>4
<1>8. NextWindow(t, p) = new \o old
  BY DEF NextWindow
<1> HIDE DEF new
<1>9. old \in Seq(Int) /\ Len(old) = window_size - (N + 1)
  BY <1>1, <1>2, <1>7
<1> HIDE DEF old
<1>10. NextWindow(t, p) \in Seq(Int) /\ Len(NextWindow(t, p)) = window_size
  <2>1. new \o old \in Seq(Int) /\ Len(new \o old) = Len(new) + Len(old)
    BY <1>7, <1>9
  <2>2. Len(new) + Len(old) = window_size
    BY <1>1, <1>2, <1>7, <1>9
  <2> QED BY <1>8, <2>1, <2>2
<1>11. ASSUME NEW n \in 0..i, n < window_size PROVE NextWindow(t, p)[n + 1] = Entry(nodes, t, p, n)
  <2>1. n + 1 \in 1..Len(new) /\ (n = 0 \/ n \in 1..N)
    BY <1>1, <1>2, <1>7, <1>11
  <2>2. (new \o old)[n + 1] = new[n + 1]
    BY <1>7, <1>9, <2>1
  <2>3. new[n + 1] = Entry(nodes, t, p, n)
    <3>1. CASE n = 0
      BY <1>7, <3>1 DEF Entry
    <3>2. CASE n \in 1..N
      BY <1>7, <3>2
    <3> QED BY <2>1, <3>1, <3>2
  <2> QED BY <1>8, <2>2, <2>3
<1>12. \A n \in 0..Depth(i) : n \in 0..i /\ n < window_size
  BY <1>1
<1> QED BY <1>10, <1>11, <1>12

LEMMA InitInv == Init => IInv
<1> SUFFICES ASSUME Init PROVE IInv
  OBVIOUS
<1>1. nodes \in Seq(Int) /\ Len(nodes) = 0
  BY DEF Init
<1>2. nodes \in Seq(Range(nodes))
  BY <1>1, SeqIsNodes
<1>3. pc # "node" /\ pc # "trace" /\ pc # "done"
  BY DEF Init
<1>4. nodes_next \in Nat /\ nodes_next <= Len(nodes)
  BY <1>1 DEF Init
<1> QED BY <1>2, <1>3, <1>4 DEF IInv

LEMMA WindowEmpty == NoWindow \in Seq(Int) /\ Len(NoWindow) = window_size
<1>1. window_size \in Nat
  BY WindowAssumption
<1> QED BY <1>1 DEF NoWindow

LEMMA TagInv ==
  ASSUME IInv, NEW s \in Sentences, Tag(s)
  PROVE  IInv'
<1>1. CASE s = <<>> \/ \E k \in DOMAIN s : s[k].tags = <<>>
  <2>1. pc = "idle" /\ UNCHANGED <<nodes, pc, nodes_next>>
    BY <1>1 DEF Tag, loop
  <2>2. nodes' \in Seq(Range(nodes')) /\ nodes_next' \in Nat /\ nodes_next' <= Len(nodes')
    BY <2>1 DEF IInv
  <2>3. pc' # "node" /\ pc' # "trace" /\ pc' # "done"
    BY <2>1
  <2> QED BY <2>2, <2>3 DEF IInv
<1>2. CASE ~ (s = <<>> \/ \E k \in DOMAIN s : s[k].tags = <<>>)
  <2>1. /\ sentence' = s /\ i' = 0 /\ tag' = 0 /\ prev' = -1 /\ nodes_prev' = -1 /\ nodes_now' = 0 /\ nodes_next' = 0
        /\ window' = NoWindow /\ pc' = "node"
        /\ nodes' = nodes \o [k \in 1..(Allocated(s) - Len(nodes)) |-> NoNode]
    BY <1>2 DEF Tag
  <2>2. s \in Seq(Word) /\ Len(s) \in Nat /\ Len(s) # 0 /\ DOMAIN s = 1..Len(s)
    <3>1. s \in Seq(Word)
      BY SentencesAssumption DEF Word
    <3> QED BY <1>2, <3>1
  <2>3. Analyzed(s)
    BY <1>2, <2>2 DEF Analyzed
  <2>4. /\ Allocated(s) = Room(s, Len(s)) /\ Room(s, 0) = 0
        /\ Allocated(s) \in Nat /\ Room(s, 1) \in Nat
    <3>1. Len(s) \in 0..Len(s) /\ 1 \in 0..Len(s)
      BY <2>2
    <3> QED BY <2>3, <3>1, RoomIs
  <2>5. nodes' \in Seq(Range(nodes')) /\ Len(nodes') \in Nat /\ Allocated(s) <= Len(nodes')
    <3> DEFINE added == [k \in 1..(Allocated(s) - Len(nodes)) |-> NoNode]
               X == Range(nodes) \cup {NoNode}
    <3>1. nodes \in Seq(X) /\ Len(nodes) \in Nat
      <4>1. nodes \in Seq(Range(nodes))
        BY DEF IInv
      <4>2. Len(nodes) \in Nat /\ nodes \in [1..Len(nodes) -> Range(nodes)]
        BY <4>1
      <4>3. nodes \in [1..Len(nodes) -> X]
        BY <4>2
      <4> HIDE DEF X
      <4> QED BY <4>2, <4>3
    <3>2. added \in Seq(X) /\ Len(added) \in Nat /\ Allocated(s) <= Len(nodes) + Len(added)
      <4>1. CASE Allocated(s) - Len(nodes) \in Nat
        <5>1. added \in [1..(Allocated(s) - Len(nodes)) -> X]
          OBVIOUS
        <5>2. added \in Seq(X) /\ Len(added) = Allocated(s) - Len(nodes)
          <6>1. DOMAIN added = 1..(Allocated(s) - Len(nodes))
            OBVIOUS
          <6> HIDE DEF added, X
          <6> QED BY <4>1, <5>1, <6>1
        <5> HIDE DEF added, X
        <5> QED BY <2>4, <3>1, <4>1, <5>2
      <4>2. CASE Allocated(s) < Len(nodes)
        <5>1. 1..(Allocated(s) - Len(nodes)) = 1..0
          BY <2>4, <3>1, <4>2
        <5>2. added \in [1..0 -> X] /\ DOMAIN added = 1..0
          BY <5>1
        <5>3. added \in Seq(X) /\ Len(added) = 0
          <6> HIDE DEF added, X
          <6> QED BY <5>2
        <5> HIDE DEF added, X
        <5> QED BY <2>4, <3>1, <4>2, <5>3
      <4> HIDE DEF added, X
      <4> QED BY <2>4, <3>1, <4>1, <4>2
    <3>3. nodes' = nodes \o added
      BY <2>1
    <3> HIDE DEF added, X
    <3>4. nodes' \in Seq(X) /\ Len(nodes') = Len(nodes) + Len(added)
      BY <3>1, <3>2, <3>3
    <3>5. nodes' \in Seq(Range(nodes'))
      BY <3>4, SeqIsNodes
    <3> QED BY <3>1, <3>2, <3>4, <3>5
  <2>6. LoopInv'
    <3>1. 1 \in 1..Len(s)
      BY <2>2
    <3>2. Width(s, 1) \in Nat \ {0}
      BY <2>3, <3>1, WidthIs
    <3>3. i' = 0 /\ i' + 1 = 1
      BY <2>1
    <3> QED BY <2>1, <2>2, <2>3, <3>2, <3>3 DEF LoopInv
  <2>7. WindowInv'
    <3>1. ~ Begun'
      BY <2>1 DEF Begun
    <3>2. NoWindow' = NoWindow
      BY DEF NoWindow
    <3> QED BY <2>1, <3>1, <3>2, WindowEmpty DEF WindowInv
  <2>8. RoomInv'
    <3>1. Level(nodes', s, 0, 0, 0)
      BY DEF Level
    <3>2. sentence' = s /\ i' = 0 /\ i' + 1 = 1 /\ nodes_now' = 0 /\ nodes_next' = 0
      BY <2>1
    <3>3. Level(nodes', sentence', nodes_now', nodes_next', i')
      BY <3>1, <3>2
    <3>4. nodes_now' <= Room(sentence', i') /\ nodes_next' <= Room(sentence', i' + 1)
      BY <2>4, <3>2
    <3>5. Room(sentence', Len(sentence')) <= Len(nodes')
      BY <2>4, <2>5, <3>2
    <3> QED BY <3>3, <3>4, <3>5 DEF RoomInv
  <2>9. nodes_next' \in Nat /\ nodes_next' <= Len(nodes') /\ pc' # "trace" /\ pc' # "done"
    <3>1. nodes_next' = 0 /\ pc' # "trace" /\ pc' # "done"
      BY <2>1
    <3> QED BY <2>5, <3>1
  <2> QED BY <2>5, <2>6, <2>7, <2>8, <2>9 DEF IInv
<1> QED BY <1>1, <1>2

LEMMA NextFormInv ==
  ASSUME IInv, NextForm
  PROVE  IInv'
<1>1. /\ pc = "node" /\ tag = Size(i)
      /\ nodes_prev' = nodes_now /\ nodes_now' = nodes_next /\ nodes_next' = nodes_next
      /\ i' = i + 1 /\ tag' = 0 /\ prev' = nodes_now /\ window' = NoWindow
      /\ nodes' = nodes /\ sentence' = sentence
  BY DEF NextForm
<1>2. LoopInv /\ WindowInv /\ RoomInv /\ nodes \in Seq(Range(nodes)) /\ nodes_next \in Nat /\ nodes_next <= Len(nodes)
  BY <1>1 DEF IInv
<1>3. Analyzed(sentence) /\ Len(sentence) \in Nat /\ i \in Nat /\ i + 1 \in 1..Len(sentence) /\ i + 1 - 1 = i
  BY <1>2 DEF LoopInv, Analyzed
<1>4. nodes_now < nodes_next /\ nodes_now \in Nat
  <2>1. Width(sentence, i + 1) \in Nat \ {0} /\ tag = Width(sentence, i + 1)
    BY <1>1, <1>3, WidthIs DEF Size, Width
  <2>2. Begun
    BY <2>1 DEF Begun
  <2> QED BY <1>2, <2>2 DEF WindowInv, LoopInv
<1>5. Level(nodes, sentence, nodes_now, nodes_next, i) /\ nodes_next <= Room(sentence, i + 1)
      /\ Room(sentence, Len(sentence)) <= Len(nodes)
  BY <1>2 DEF RoomInv
<1>6. CASE i + 1 = Len(sentence)
  <2>1. pc' = "trace"
    BY <1>6 DEF NextForm
  <2>2. EndInv'
    BY <1>1, <1>2, <1>3, <1>4, <1>5, <1>6 DEF EndInv
  <2> QED BY <1>1, <1>2, <2>1, <2>2 DEF IInv
<1>7. CASE i + 1 # Len(sentence)
  <2>1. pc' = "node"
    BY <1>7 DEF NextForm
  <2> DEFINE k == i + 1
  <2>2. k \in 1..Len(sentence) - 1 /\ k + 1 \in 1..Len(sentence) /\ k + 1 - 1 = k /\ k \in 0..Len(sentence) /\ k \in Nat
        /\ k - 1 = i /\ k # 0 /\ k \in 0..Len(sentence) - 1
    BY <1>3, <1>7
  <2>3. i' = k
    BY <1>1
  <2>4. nodes_next <= Room(sentence, k)
    BY <1>5
  <2> HIDE DEF k
  <2>5. Width(sentence, k + 1) \in Nat \ {0}
    BY <1>3, <2>2, WidthIs
  <2>6. Level(nodes, sentence, nodes_now, nodes_next, k - 1)
    BY <1>5, <2>2
  <2>7. LoopInv'
    BY <1>1, <1>2, <1>3, <1>4, <2>2, <2>3, <2>5, <2>6 DEF LoopInv
  <2>8. WindowInv'
    <3>1. ~ Begun'
      BY <1>1 DEF Begun
    <3>2. NoWindow' = NoWindow
      BY DEF NoWindow
    <3> QED BY <1>1, <3>1, <3>2, WindowEmpty DEF WindowInv
  <2>9. RoomInv'
    <3>1. Level(nodes, sentence, nodes_next, nodes_next, k)
      BY <1>2 DEF Level
    <3>2. Room(sentence, k + 1) = Room(sentence, k + 1 - 1) + States(sentence)[k + 1]
      BY <1>3, <2>2, RoomIs
    <3>3. k + 1 \in 0..Len(sentence)
      BY <2>2
    <3>4. Room(sentence, k) \in Nat /\ States(sentence)[k + 1] \in Nat
      BY <1>3, <2>2, <3>3, RoomIs, StatesAre
    <3>5. nodes_next <= Room(sentence, k + 1)
      BY <1>2, <2>2, <2>4, <3>2, <3>4
    <3> QED BY <1>1, <1>5, <2>3, <2>4, <3>1, <3>5 DEF RoomInv
  <2>10. pc' # "trace" /\ pc' # "done"
    BY <2>1
  <2> QED BY <1>1, <1>2, <2>7, <2>8, <2>9, <2>10 DEF IInv
<1> QED BY <1>6, <1>7

LEMMA TraceInv ==
  ASSUME IInv, Trace
  PROVE  IInv'
<1>1. /\ pc = "trace" /\ pc' = "done" /\ nodes' = nodes /\ nodes_next' = nodes_next /\ sentence' = sentence
  BY DEF Trace, loop
<1>2. PICK best \in Ending : tags' = [k \in DOMAIN sentence |-> TagBack(best, Len(sentence) - k)]
  BY DEF Trace
<1>3. EndInv
  BY <1>1 DEF IInv
<1>4. Len(sentence) \in Nat /\ Len(sentence) # 0 /\ DOMAIN sentence = 1..Len(sentence)
  BY <1>3 DEF EndInv, Analyzed
<1>5. Path(nodes, best, sentence, Len(sentence) - 1)
  BY <1>2, <1>3 DEF EndInv, Level, Ending
<1>6. ASSUME NEW k \in DOMAIN sentence PROVE tags'[k] \in Nat /\ tags'[k] < Width(sentence, k)
  <2> DEFINE n == Len(sentence) - k
  <2>1. n \in 0..Len(sentence) - 1 /\ (Len(sentence) - 1) - n + 1 = k
    BY <1>4
  <2>2. tags'[k] = TagBack(best, n)
    BY <1>2
  <2> HIDE DEF n
  <2>3. tags'[k] = TagAt(nodes, best, n)
    BY <2>2 DEF TagBack, Ancestor, TagAt, Back
  <2>4. TagAt(nodes, best, n) \in Nat /\ TagAt(nodes, best, n) < Width(sentence, (Len(sentence) - 1) - n + 1)
    BY <1>5, <2>1 DEF Path
  <2> QED BY <2>1, <2>3, <2>4
<1>7. TagsInv'
  BY <1>1, <1>6 DEF TagsInv
<1>8. pc' # "node" /\ pc' # "trace"
  BY <1>1
<1> QED BY <1>1, <1>7, <1>8 DEF IInv

\* The turn before this one.
LEMMA TurnBefore ==
  ASSUME LoopInv, Begun, tag < Size(i)
  PROVE  /\ Turn(nodes, sentence, nodes_prev, nodes_now, i, LastTag, LastPrev)
         /\ LastTag < tag \/ (LastTag = tag /\ LastPrev < prev)
<1>1. Turn(nodes, sentence, nodes_prev, nodes_now, i, tag, prev)
  BY TurnNow
<1>2. tag \in Nat /\ Width(sentence, i + 1) \in Nat
  <2>1. i + 1 \in 1..Len(sentence)
    BY DEF LoopInv, Analyzed
  <2>2. Width(sentence, i + 1) \in Nat
    BY <2>1, WidthIs DEF LoopInv
  <2> QED BY <2>2 DEF LoopInv
<1>3. /\ LastTag \in Nat /\ LastTag <= tag /\ LastPrev \in Int /\ nodes_prev <= LastPrev /\ LastPrev < nodes_now
      /\ LastTag < tag \/ (LastTag = tag /\ LastPrev < prev)
  BY <1>2 DEF LoopInv, Begun, LastTag, LastPrev
<1>4. LastTag < Width(sentence, i + 1)
  BY <1>1, <1>2, <1>3 DEF Turn
<1> HIDE DEF LastTag, LastPrev
<1> QED BY <1>1, <1>3, <1>4 DEF Turn

\* After a turn: the nodes g up to high, the window of the turn.
LEMMA TurnDone ==
  ASSUME IInv, pc = "node", tag < Size(i),
         UNCHANGED <<sentence, pc, i, nodes_prev, nodes_now>>,
         IF prev + 1 < nodes_now THEN prev' = prev + 1 /\ tag' = tag ELSE prev' = nodes_prev /\ tag' = tag + 1,
         nodes' \in Seq(Range(nodes')), Len(nodes') = Len(nodes),
         nodes_next' \in Nat, nodes_now < nodes_next', nodes_next' <= Len(nodes), nodes_next' <= Room(sentence, i + 1),
         Level(nodes', sentence, nodes_now, nodes_next', i),
         i # 0 => Level(nodes', sentence, nodes_prev, nodes_now, i - 1),
         window' \in Seq(Int), Len(window') = window_size,
         \A n \in 0..Depth(i) : /\ window'[n + 1] = Entry(nodes', tag, prev, n)
                                /\ TagAt(nodes', nodes_next' - 1, n) = window'[n + 1]
  PROVE  IInv'
<1>1. LoopInv /\ RoomInv
  BY DEF IInv
<1>2. Turn(nodes, sentence, nodes_prev, nodes_now, i, tag, prev) /\ Size(i) = Width(sentence, i + 1)
  BY <1>1, TurnNow
<1>3. tag \in Nat /\ Width(sentence, i + 1) \in Nat /\ tag < Width(sentence, i + 1)
  <2>1. i + 1 \in 1..Len(sentence)
    BY <1>1 DEF LoopInv, Analyzed
  <2>2. Width(sentence, i + 1) \in Nat
    BY <1>1, <2>1, WidthIs DEF LoopInv
  <2> QED BY <1>2, <2>2 DEF Turn
<1>4. /\ prev \in Int /\ nodes_prev \in Int /\ nodes_now \in Nat /\ nodes_prev <= prev /\ prev < nodes_now
  BY <1>1 DEF LoopInv
<1>5. /\ tag' \in 0..Width(sentence, i + 1) /\ prev' \in Int /\ nodes_prev <= prev' /\ prev' < nodes_now
      /\ tag' = Width(sentence, i + 1) => prev' = nodes_prev
      /\ tag' # 0 \/ prev' # nodes_prev
      /\ (IF prev' > nodes_prev THEN tag' ELSE tag' - 1) = tag
      /\ (IF prev' > nodes_prev THEN prev' - 1 ELSE nodes_now - 1) = prev
  <2>1. CASE prev + 1 < nodes_now
    <3>1. prev' = prev + 1 /\ tag' = tag
      BY <2>1
    <3> QED BY <1>3, <1>4, <2>1, <3>1
  <2>2. CASE ~ (prev + 1 < nodes_now)
    <3>1. prev' = nodes_prev /\ tag' = tag + 1
      BY <2>2
    <3>2. prev = nodes_now - 1
      BY <1>4, <2>2
    <3> QED BY <1>3, <1>4, <3>1, <3>2
  <2> QED BY <2>1, <2>2
<1>6. LoopInv'
  BY <1>1, <1>5 DEF LoopInv
<1>7. Begun' /\ LastTag' = tag /\ LastPrev' = prev
  BY <1>5 DEF Begun, LastTag, LastPrev
<1>8. WindowInv'
  BY <1>7 DEF WindowInv
<1>9. RoomInv'
  BY <1>1 DEF RoomInv
<1>10. nodes_next' <= Len(nodes') /\ pc' = "node"
  OBVIOUS
<1> QED BY <1>6, <1>8, <1>9, <1>10 DEF IInv

\* The score of a node, or of the start of the sentence.
ScoreOf(f, p) == IF p >= 0 THEN f[p + 1].score ELSE 0

\* A turn makes a node, and puts it behind the others or in place of the last one, unless that is as good.
Merges == SameTags(window') >= decoding_order - 1
Place == IF Merges THEN nodes_next - 1 ELSE nodes_next
NewScore == (IF Unscored THEN 0 ELSE features'.score) + ScoreOf(nodes, prev)
Keeps == Merges /\ NewScore <= nodes[nodes_next].score

LEMMA ConsiderIs ==
  ASSUME Consider
  PROVE  /\ pc = "node" /\ tag < Size(i) /\ window' = NextWindow(tag, prev)
         /\ UNCHANGED <<weights, sentence, pc, i, nodes_prev, nodes_now>>
         /\ IF prev + 1 < nodes_now THEN prev' = prev + 1 /\ tag' = tag ELSE prev' = nodes_prev /\ tag' = tag + 1
         /\ \E node : /\ node.tag = tag /\ node.prev = prev /\ node.score = NewScore
                      /\ \/ Keeps /\ UNCHANGED <<nodes, nodes_next>>
                         \/ ~ Keeps /\ nodes' = [nodes EXCEPT ![Place + 1] = node] /\ nodes_next' = Place + 1
<1> DEFINE node == [tag |-> tag, prev |-> prev, score |-> NewScore, dynamic |-> dynamic']
<1>1. \/ Keeps /\ UNCHANGED <<nodes, nodes_next>>
      \/ ~ Keeps /\ nodes' = [nodes EXCEPT ![Place + 1] = node] /\ nodes_next' = Place + 1
  BY DEF Consider, Keeps, NewScore, Place, Merges, ScoreOf
<1>2. node.tag = tag /\ node.prev = prev /\ node.score = NewScore
  OBVIOUS
<1>3. \E n : /\ n.tag = tag /\ n.prev = prev /\ n.score = NewScore
             /\ \/ Keeps /\ UNCHANGED <<nodes, nodes_next>>
                \/ ~ Keeps /\ nodes' = [nodes EXCEPT ![Place + 1] = n] /\ nodes_next' = Place + 1
  <2> HIDE DEF node
  <2> QED BY <1>1, <1>2
<1>4. /\ pc = "node" /\ tag < Size(i) /\ window' = NextWindow(tag, prev)
      /\ UNCHANGED <<weights, sentence, pc, i, nodes_prev, nodes_now>>
      /\ IF prev + 1 < nodes_now THEN prev' = prev + 1 /\ tag' = tag ELSE prev' = nodes_prev /\ tag' = tag + 1
  BY DEF Consider
<1> QED BY <1>3, <1>4

\* Turns with the same history follow each other, and so do the nodes in order of theirs.
LEMMA PlaceIs ==
  ASSUME IInv, Consider
  PROVE  /\ Turn(nodes, sentence, nodes_prev, nodes_now, i, tag, prev)
         /\ window' \in Seq(Int) /\ Len(window') = window_size
         /\ \A n \in 0..Depth(i) : window'[n + 1] = Entry(nodes, tag, prev, n)
         /\ Merges => /\ Begun /\ nodes_now < nodes_next
                      /\ Hist(nodes, nodes_next - 1, i) = Candidate(nodes, tag, prev, i)
                      /\ \A n \in 0..Depth(i) : TagAt(nodes, nodes_next - 1, n) = window'[n + 1]
         /\ Place \in nodes_now..nodes_next /\ Place < Len(nodes) /\ Place < Room(sentence, i + 1)
         /\ Place = nodes_now \/ Less(Hist(nodes, Place - 1, i), Candidate(nodes, tag, prev, i), Depth(i))
<1> DEFINE same == Depth(i) = decoding_order - 2 /\ \A n \in 0..Depth(i) : window[n + 1] = window'[n + 1]
<1>1. pc = "node" /\ tag < Size(i) /\ window' = NextWindow(tag, prev)
  BY ConsiderIs
<1>3. /\ LoopInv /\ WindowInv /\ RoomInv /\ nodes \in Seq(Range(nodes)) /\ Len(nodes) \in Nat
      /\ nodes_next \in Nat /\ nodes_next <= Len(nodes)
  <2>1. LoopInv /\ WindowInv /\ RoomInv /\ nodes \in Seq(Range(nodes)) /\ nodes_next \in Nat /\ nodes_next <= Len(nodes)
    BY <1>1 DEF IInv
  <2> QED BY <2>1
<1>4. Turn(nodes, sentence, nodes_prev, nodes_now, i, tag, prev)
  BY <1>1, <1>3, TurnNow
<1>5. /\ i \in Nat /\ nodes_prev \in Int /\ nodes_now \in Nat /\ nodes_now <= nodes_next
      /\ prev \in Int /\ nodes_prev <= prev /\ prev < nodes_now /\ tag \in Nat
      /\ Depth(i) \in Nat /\ 0 \in 0..Depth(i) /\ window_size \in Nat /\ Len(sentence) \in Nat /\ i + 1 \in 0..Len(sentence)
  <2>1. /\ i \in Nat /\ nodes_prev \in Int /\ nodes_now \in Nat /\ nodes_now <= nodes_next
        /\ prev \in Int /\ nodes_prev <= prev /\ prev < nodes_now /\ tag \in Nat
        /\ Len(sentence) \in Nat /\ i + 1 \in 0..Len(sentence)
    BY <1>3, <1>4 DEF LoopInv, Turn, Analyzed
  <2> HIDE DEF same
  <2>2. i \in Nat
    BY <2>1
  <2>3. Depth(i) \in 0..i
    BY <2>2, DepthIs
  <2>4. Depth(i) \in Nat
    BY <2>2, <2>3
  <2> QED BY <2>1, <2>4, WindowAssumption
<1>6. /\ window' \in Seq(Int) /\ Len(window') = window_size
      /\ \A n \in 0..Depth(i) : window'[n + 1] = Entry(nodes, tag, prev, n)
  BY <1>1, <1>3, <1>4, <1>5, WindowIs DEF WindowInv
<1>7. Merges <=> same
  <2>1. Cardinality(Agreeing(window, window', i)) >= decoding_order - 1 <=> same
    BY <1>5, SameHistories
  <2>2. SameTags(window') = Cardinality(Agreeing(window, window', i))
    BY DEF SameTags, Agreeing
  <2> QED BY <2>1, <2>2 DEF Merges
<1>8. /\ Level(nodes, sentence, nodes_now, nodes_next, i) /\ nodes_now <= Room(sentence, i)
      /\ nodes_next <= Room(sentence, i + 1) /\ Room(sentence, Len(sentence)) <= Len(nodes)
      /\ i # 0 => Level(nodes, sentence, nodes_prev, nodes_now, i - 1)
  BY <1>3 DEF RoomInv, LoopInv
<1>9. Room(sentence, i + 1) \in Nat /\ Room(sentence, Len(sentence)) \in Nat
  <2>1. Analyzed(sentence) /\ Len(sentence) \in 0..Len(sentence)
    BY <1>3, <1>5 DEF LoopInv
  <2> QED BY <1>5, <2>1, RoomIs
<1>10. ASSUME Merges PROVE Begun
  <2>1. window'[1] = tag /\ window[1] = window'[1]
    <3>1. \A n \in 0..Depth(i) : n = 0 => window'[n + 1] = tag /\ window[n + 1] = window'[n + 1]
      BY <1>6, <1>7, <1>10 DEF Entry
    <3> QED BY <1>5, <3>1
  <2>2. ~ Begun => window[1] = -1
    BY <1>3, <1>5, WindowAssumption DEF WindowInv, NoWindow
  <2> QED BY <1>5, <2>1, <2>2
<1>11. ASSUME Begun
       PROVE  /\ nodes_now < nodes_next
              /\ Hist(nodes, nodes_next - 1, i) = Candidate(nodes, LastTag, LastPrev, i)
              /\ \A n \in 0..Depth(i) : /\ window[n + 1] = Entry(nodes, LastTag, LastPrev, n)
                                        /\ TagAt(nodes, nodes_next - 1, n) = window[n + 1]
  <2>1. /\ nodes_now < nodes_next
        /\ \A n \in 0..Depth(i) : /\ window[n + 1] = Entry(nodes, LastTag, LastPrev, n)
                                  /\ TagAt(nodes, nodes_next - 1, n) = window[n + 1]
    BY <1>3, <1>11 DEF WindowInv
  <2>2. \A n \in 0..Depth(i) : TagAt(nodes, nodes_next - 1, n) = Entry(nodes, LastTag, LastPrev, n)
    BY <2>1
  <2> QED BY <2>1, <2>2 DEF Hist, Candidate
<1>12. ASSUME Merges PROVE Hist(nodes, nodes_next - 1, i) = Candidate(nodes, tag, prev, i)
  <2>1. \A n \in 0..Depth(i) : TagAt(nodes, nodes_next - 1, n) = window'[n + 1]
    BY <1>7, <1>10, <1>11, <1>12
  <2>2. \A n \in 0..Depth(i) : TagAt(nodes, nodes_next - 1, n) = Entry(nodes, tag, prev, n)
    BY <1>6, <2>1
  <2> QED BY <2>2 DEF Hist, Candidate
<1>13. ASSUME ~ Merges
       PROVE  nodes_now = nodes_next \/ Less(Hist(nodes, nodes_next - 1, i), Candidate(nodes, tag, prev, i), Depth(i))
  <2>1. CASE ~ Begun
    BY <1>3, <2>1 DEF WindowInv
  <2>2. CASE Begun
    <3>1. /\ Turn(nodes, sentence, nodes_prev, nodes_now, i, LastTag, LastPrev)
          /\ LastTag < tag \/ (LastTag = tag /\ LastPrev < prev)
      BY <1>1, <1>3, <2>2, TurnBefore
    <3>2. \/ Less(Candidate(nodes, LastTag, LastPrev, i), Candidate(nodes, tag, prev, i), Depth(i))
          \/ Depth(i) = decoding_order - 2 /\ \A n \in 0..Depth(i) : Entry(nodes, LastTag, LastPrev, n) = Entry(nodes, tag, prev, n)
      BY <1>4, <1>5, <3>1, TurnsAscend
    <3>3. ~ (Depth(i) = decoding_order - 2 /\ \A n \in 0..Depth(i) : Entry(nodes, LastTag, LastPrev, n) = Entry(nodes, tag, prev, n))
      BY <1>6, <1>7, <1>11, <1>13, <2>2
    <3> QED BY <1>11, <2>2, <3>2, <3>3
  <2> QED BY <2>1, <2>2
<1>14. /\ Place \in nodes_now..nodes_next
       /\ Place = nodes_now \/ Less(Hist(nodes, Place - 1, i), Candidate(nodes, tag, prev, i), Depth(i))
       /\ Place < Len(nodes) /\ Place < Room(sentence, i + 1)
  <2>1. CASE Merges
    <3>1. nodes_now < nodes_next /\ Place = nodes_next - 1
      BY <1>10, <1>11, <2>1 DEF Place
    <3>2. Place # nodes_now => Less(Hist(nodes, Place - 1, i), Hist(nodes, nodes_next - 1, i), Depth(i))
      <4> SUFFICES ASSUME Place # nodes_now PROVE Less(Hist(nodes, Place - 1, i), Hist(nodes, nodes_next - 1, i), Depth(i))
        OBVIOUS
      <4>1. Place - 1 \in nodes_now..nodes_next - 1 /\ nodes_next - 1 \in nodes_now..nodes_next - 1 /\ Place - 1 < nodes_next - 1
        BY <1>3, <1>5, <3>1
      <4> QED BY <1>8, <4>1 DEF Level
    <3> QED BY <1>3, <1>5, <1>8, <1>9, <1>12, <2>1, <3>1, <3>2
  <2>2. CASE ~ Merges
    <3>1. Place = nodes_next
      BY <2>2 DEF Place
    <3>2. nodes_next < Room(sentence, i + 1) /\ Room(sentence, i + 1) <= Room(sentence, Len(sentence))
      BY <1>3, <1>4, <1>5, <1>8, <1>13, <2>2, RoomForOneMore
    <3>3. nodes_next \in nodes_now..nodes_next /\ nodes_next < Len(nodes)
      BY <1>3, <1>5, <1>8, <1>9, <3>2
    <3> QED BY <1>13, <2>2, <3>1, <3>2, <3>3
  <2> QED BY <2>1, <2>2
<1>15. Merges => \A n \in 0..Depth(i) : TagAt(nodes, nodes_next - 1, n) = window'[n + 1]
  BY <1>7, <1>10, <1>11
<1> QED BY <1>4, <1>6, <1>10, <1>11, <1>12, <1>14, <1>15

LEMMA WrittenIs ==
  ASSUME IInv, Consider, NEW node, node.tag = tag, node.prev = prev, nodes' = [nodes EXCEPT ![Place + 1] = node]
  PROVE  /\ nodes' \in Seq(Range(nodes')) /\ Len(nodes') = Len(nodes) /\ nodes'[Place + 1] = node
         /\ KeptBefore(nodes, nodes', Place) /\ NodeAt(nodes', Place, tag, prev)
         /\ Level(nodes', sentence, nodes_now, Place + 1, i)
         /\ i # 0 => Level(nodes', sentence, nodes_prev, nodes_now, i - 1)
         /\ Continues(nodes', Place, nodes, tag, prev, i) /\ SameEntries(nodes, nodes', tag, prev, i)
<1> DEFINE place == Place
<1>1. /\ Turn(nodes, sentence, nodes_prev, nodes_now, i, tag, prev)
      /\ place \in nodes_now..nodes_next /\ place < Len(nodes)
      /\ place = nodes_now \/ Less(Hist(nodes, place - 1, i), Candidate(nodes, tag, prev, i), Depth(i))
      /\ nodes' = [nodes EXCEPT ![place + 1] = node]
  BY PlaceIs
<1> HIDE DEF place
<1>2. /\ nodes \in Seq(Range(nodes)) /\ Len(nodes) \in Nat /\ nodes_next \in Nat
      /\ nodes_prev \in Int /\ nodes_now \in Nat /\ Level(nodes, sentence, nodes_now, nodes_next, i)
  <2>1. LoopInv /\ RoomInv /\ nodes \in Seq(Range(nodes)) /\ nodes_next \in Nat
    BY ConsiderIs DEF IInv
  <2> QED BY <2>1 DEF LoopInv, RoomInv
<1>3. place \in Nat /\ place + 1 \in Nat
  BY <1>1, <1>2
<1>4. /\ nodes' \in Seq(Range(nodes')) /\ Len(nodes') = Len(nodes) /\ nodes'[place + 1] = node
      /\ \A q \in 0..place - 1 : nodes'[q + 1] = nodes[q + 1]
  <2> DEFINE g == [nodes EXCEPT ![place + 1] = node]
             X == Range(nodes) \cup {node}
  <2>1. DOMAIN nodes = 1..Len(nodes) /\ nodes \in [1..Len(nodes) -> X] /\ place + 1 \in 1..Len(nodes)
    <3>1. nodes \in [1..Len(nodes) -> Range(nodes)] /\ DOMAIN nodes = 1..Len(nodes)
      BY <1>2
    <3>2. place + 1 \in 1..Len(nodes)
      BY <1>1, <1>2, <1>3
    <3> QED BY <3>1, <3>2
  <2>2. g \in [1..Len(nodes) -> X] /\ DOMAIN g = 1..Len(nodes) /\ g[place + 1] = node
    BY <2>1
  <2>3. ASSUME NEW q \in 0..place - 1 PROVE g[q + 1] = nodes[q + 1]
    <3>1. q + 1 \in 1..Len(nodes) /\ q + 1 # place + 1
      BY <1>3, <2>1
    <3> QED BY <2>1, <3>1
  <2>4. nodes' = g
    BY <1>1
  <2> HIDE DEF g, X
  <2>5. g \in Seq(X) /\ Len(g) = Len(nodes)
    BY <1>2, <2>2
  <2>6. g \in Seq(Range(g))
    BY <2>5, SeqIsNodes
  <2> QED BY <2>2, <2>3, <2>4, <2>5, <2>6
<1>5. KeptBefore(nodes, nodes', place) /\ NodeAt(nodes', place, tag, prev)
  BY <1>4 DEF KeptBefore, NodeAt
<1>6. Level(nodes', sentence, nodes_now, place + 1, i)
  BY <1>1, <1>2, <1>5, NodeWritten
<1>7. i # 0 => Level(nodes', sentence, nodes_prev, nodes_now, i - 1)
  BY <1>1, <1>2, <1>5, NodeWritten
<1>8. Continues(nodes', place, nodes, tag, prev, i)
  BY <1>1, <1>2, <1>5, NodeWritten
<1>9. SameEntries(nodes, nodes', tag, prev, i)
  BY <1>1, <1>2, <1>5, NodeWritten
<1> QED BY <1>4, <1>5, <1>6, <1>7, <1>8, <1>9 DEF place

LEMMA ConsiderInv ==
  ASSUME IInv, Consider
  PROVE  IInv'
<1>1. /\ pc = "node" /\ tag < Size(i)
      /\ UNCHANGED <<sentence, pc, i, nodes_prev, nodes_now>>
      /\ IF prev + 1 < nodes_now THEN prev' = prev + 1 /\ tag' = tag ELSE prev' = nodes_prev /\ tag' = tag + 1
  BY ConsiderIs
<1>2. PICK node : /\ node.tag = tag /\ node.prev = prev
                  /\ \/ Keeps /\ UNCHANGED <<nodes, nodes_next>>
                     \/ ~ Keeps /\ nodes' = [nodes EXCEPT ![Place + 1] = node] /\ nodes_next' = Place + 1
  BY ConsiderIs
<1>3. /\ LoopInv /\ RoomInv /\ nodes \in Seq(Range(nodes)) /\ Len(nodes) \in Nat /\ nodes_next \in Nat /\ nodes_next <= Len(nodes)
      /\ nodes_now \in Nat /\ i \in Nat /\ Room(sentence, i + 1) \in Nat
  <2>1. LoopInv /\ RoomInv /\ nodes \in Seq(Range(nodes)) /\ nodes_next \in Nat /\ nodes_next <= Len(nodes)
    BY <1>1 DEF IInv
  <2>2. i + 1 \in 0..Len(sentence) /\ Analyzed(sentence) /\ nodes_now \in Nat /\ i \in Nat
    BY <2>1 DEF LoopInv, Analyzed
  <2> QED BY <2>1, <2>2, RoomIs
<1>4. /\ window' \in Seq(Int) /\ Len(window') = window_size
      /\ \A n \in 0..Depth(i) : window'[n + 1] = Entry(nodes, tag, prev, n)
  BY PlaceIs
<1>5. CASE Keeps /\ UNCHANGED <<nodes, nodes_next>>
  <2>1. nodes_now < nodes_next /\ \A n \in 0..Depth(i) : TagAt(nodes, nodes_next - 1, n) = window'[n + 1]
    BY <1>5, PlaceIs DEF Keeps
  <2>2. /\ Level(nodes, sentence, nodes_now, nodes_next, i) /\ nodes_next <= Room(sentence, i + 1)
        /\ i # 0 => Level(nodes, sentence, nodes_prev, nodes_now, i - 1)
    BY <1>3 DEF RoomInv, LoopInv
  <2> QED BY <1>1, <1>3, <1>4, <1>5, <2>1, <2>2, TurnDone
<1>6. CASE nodes' = [nodes EXCEPT ![Place + 1] = node] /\ nodes_next' = Place + 1
  <2> DEFINE place == Place
  <2>1. place \in nodes_now..nodes_next /\ place < Len(nodes) /\ place < Room(sentence, i + 1)
    BY PlaceIs
  <2>2. /\ nodes' \in Seq(Range(nodes')) /\ Len(nodes') = Len(nodes)
        /\ Level(nodes', sentence, nodes_now, place + 1, i)
        /\ i # 0 => Level(nodes', sentence, nodes_prev, nodes_now, i - 1)
        /\ Continues(nodes', place, nodes, tag, prev, i) /\ SameEntries(nodes, nodes', tag, prev, i)
    BY <1>2, <1>6, WrittenIs
  <2>3. nodes_next' = place + 1
    BY <1>6
  <2> HIDE DEF place
  <2>4. place \in Nat /\ nodes_next' - 1 = place /\ nodes_next' \in Nat /\ nodes_now < nodes_next'
        /\ nodes_next' <= Len(nodes) /\ nodes_next' <= Room(sentence, i + 1)
    BY <1>3, <2>1, <2>3
  <2>5. \A n \in 0..Depth(i) : n \in 0..i
    BY <1>3, DepthIs
  <2>6. \A n \in 0..Depth(i) : /\ window'[n + 1] = Entry(nodes', tag, prev, n)
                               /\ TagAt(nodes', nodes_next' - 1, n) = window'[n + 1]
    BY <1>4, <2>2, <2>4, <2>5 DEF Continues, SameEntries
  <2>7. Level(nodes', sentence, nodes_now, nodes_next', i)
    BY <2>2, <2>3
  <2> QED BY <1>1, <1>4, <2>2, <2>4, <2>6, <2>7, TurnDone
<1> QED BY <1>2, <1>5, <1>6

LEMMA NextInv == IInv /\ [Next]_vars => IInv'
<1> SUFFICES ASSUME IInv, [Next]_vars PROVE IInv'
  OBVIOUS
<1>1. CASE \E s \in Sentences : Tag(s)
  BY <1>1, TagInv
<1>2. CASE Consider
  BY <1>2, ConsiderInv
<1>3. CASE NextForm
  BY <1>3, NextFormInv
<1>4. CASE Trace
  BY <1>4, TraceInv
<1>5. CASE Return
  <2>1. UNCHANGED <<nodes, nodes_next>> /\ pc' = "idle"
    BY <1>5 DEF Return, loop
  <2> QED BY <2>1 DEF IInv
<1>6. CASE UNCHANGED vars
  BY <1>6 DEF vars, loop, IInv, LoopInv, WindowInv, RoomInv, EndInv, TagsInv, Begun, LastTag, LastPrev
<1> QED BY <1>1, <1>2, <1>3, <1>4, <1>5, <1>6 DEF Next

LEMMA InvFits == IInv => NodesFit
<1> SUFFICES ASSUME IInv PROVE NodesFit
  OBVIOUS
<1>1. nodes_next <= Len(nodes)
  BY DEF IInv
<1>2. ASSUME pc = "node", NEW m \in nodes_now..nodes_next - 1, NEW n \in nodes_now..nodes_next - 1, m # n
      PROVE  History(m) # History(n)
  <2>1. i \in Nat /\ nodes_now \in Nat /\ nodes_next \in Nat /\ Level(nodes, sentence, nodes_now, nodes_next, i)
    BY <1>2 DEF IInv, LoopInv, RoomInv, Analyzed
  <2>2. decoding_order - 2 \in Nat
    BY <2>1, DepthIs
  <2>3. Min({decoding_order - 2, i}) = Depth(i) /\ Depth(i) \in Nat
    BY <2>1, <2>2, LesserOfTwo, DepthIs DEF Depth
  <2>4. ASSUME NEW p PROVE History(p) = Hist(nodes, p, i)
    <3>1. History(p) = [k \in 0..Depth(i) |-> TagBack(p, k)]
      BY <2>3 DEF History
    <3>2. \A k \in 0..Depth(i) : TagBack(p, k) = TagAt(nodes, p, k)
      BY DEF TagBack, Ancestor, TagAt, Back
    <3> QED BY <3>1, <3>2 DEF Hist
  <2>5. \A p, q \in nodes_now..nodes_next - 1 : p < q => Less(Hist(nodes, p, i), Hist(nodes, q, i), Depth(i))
    BY <2>1 DEF Level
  <2>6. ASSUME NEW p \in nodes_now..nodes_next - 1, NEW q \in nodes_now..nodes_next - 1, p < q
        PROVE  Hist(nodes, p, i) # Hist(nodes, q, i)
    <3>1. PICK k \in 0..Depth(i) : Hist(nodes, p, i)[k] < Hist(nodes, q, i)[k]
      BY <2>5, <2>6 DEF Less
    <3>2. Hist(nodes, p, i) \in [0..Depth(i) -> Nat]
      BY <2>1, HistoryType
    <3>3. Hist(nodes, p, i)[k] \in Nat
      BY <3>2
    <3> QED BY <3>1, <3>3
  <2>7. m < n \/ n < m
    BY <1>2, <2>1
  <2> QED BY <2>4, <2>6, <2>7
<1> QED BY <1>1, <1>2 DEF NodesFit

\* NodesFit is safe: Consider and merging never need a node behind the vector that tag allocated
\* for the sentence, and two nodes of a position never share their last decoding_order - 1 tags.
THEOREM NodesAlwaysFit == Spec => []NodesFit
<1>1. Spec => []IInv
  BY InitInv, NextInv, PTL DEF Spec
<1> QED BY <1>1, InvFits, PTL

\* When tag returns, each of the tags is the index of one of the analyses of its form.
TagsAreIndices ==
  pc = "done" => \A k \in DOMAIN sentence : tags[k] \in 0..Len(sentence[k].tags) - 1

\* The callers of tag index the analyses with its results unchecked, and they may.
THEOREM TagsAlwaysIndices == Spec => []TagsAreIndices
<1>1. Spec => []IInv
  BY InitInv, NextInv, PTL DEF Spec
<1>2. IInv => TagsAreIndices
  BY DEF IInv, TagsInv, TagsAreIndices, Width
<1> QED BY <1>1, <1>2, PTL
-----------------------------------------------------------------------------
(* Sums.                                                                     *)

\* The element that the sum over s takes first, and what is left.
First(s) == CHOOSE x \in s : TRUE
Others(s) == s \ {First(s)}
\* g has the sums of f over the sets of Q.
Sums(f, g, Q) == \A s \in Q : g[s] = IF s = {} THEN 0 ELSE f[First(s)] + g[Others(s)]
UpToSize(D, m) == {s \in SUBSET D : Cardinality(s) <= m}

LEMMA OthersAreFewer ==
  ASSUME NEW D, IsFiniteSet(D), NEW s \in SUBSET D, s # {}
  PROVE  /\ First(s) \in s /\ First(s) \in D
         /\ Others(s) \in SUBSET D /\ Others(s) \subseteq s
         /\ Cardinality(Others(s)) = Cardinality(s) - 1 /\ Cardinality(s) \in Nat
<1>1. First(s) \in s
  BY DEF First
<1>2. IsFiniteSet(s)
  BY FS_Subset
<1>3. Cardinality(Others(s)) = Cardinality(s) - 1
  BY <1>1, <1>2, FS_RemoveElement DEF Others
<1>4. Cardinality(s) \in Nat
  BY <1>2, FS_CardinalityType
<1> QED BY <1>1, <1>3, <1>4 DEF Others

LEMMA OnlyEmpty ==
  ASSUME NEW D, IsFiniteSet(D), NEW s \in UpToSize(D, 0)
  PROVE  s = {}
<1>1. IsFiniteSet(s) /\ Cardinality(s) \in Nat /\ Cardinality(s) <= 0
  BY FS_Subset, FS_CardinalityType DEF UpToSize
<1> QED BY <1>1, FS_EmptySet

LEMMA SumsExist ==
  ASSUME NEW D, IsFiniteSet(D), NEW f \in [D -> Int]
  PROVE  \E g \in [SUBSET D -> Int] : Sums(f, g, SUBSET D)
<1> DEFINE S == {m \in 0..Cardinality(D) : \E g \in [UpToSize(D, m) -> Int] : Sums(f, g, UpToSize(D, m))}
<1>1. Cardinality(D) \in Nat
  BY FS_CardinalityType
<1>2. 0 \in S
  <2>1. ASSUME NEW s \in UpToSize(D, 0) PROVE s = {}
    BY <2>1, OnlyEmpty
  <2>2. Sums(f, [s \in UpToSize(D, 0) |-> 0], UpToSize(D, 0))
    BY <2>1 DEF Sums
  <2>3. [s \in UpToSize(D, 0) |-> 0] \in [UpToSize(D, 0) -> Int]
    OBVIOUS
  <2>4. 0 \in 0..Cardinality(D)
    BY <1>1
  <2> QED BY <2>2, <2>3, <2>4
<1>3. ASSUME NEW m \in 0..Cardinality(D) - 1, m \in S PROVE m + 1 \in S
  <2>1. PICK g \in [UpToSize(D, m) -> Int] : Sums(f, g, UpToSize(D, m))
    BY <1>3
  <2>2. \A s \in UpToSize(D, m + 1) : s # {} => First(s) \in D /\ Others(s) \in UpToSize(D, m)
    BY <1>1, OthersAreFewer DEF UpToSize
  <2>3. \A s \in UpToSize(D, m) : s \in UpToSize(D, m + 1)
    BY <1>1, FS_Subset, FS_CardinalityType DEF UpToSize
  <2> DEFINE h == [s \in UpToSize(D, m + 1) |-> IF s = {} THEN 0 ELSE f[First(s)] + g[Others(s)]]
  <2>4. h \in [UpToSize(D, m + 1) -> Int]
    BY <2>2
  <2>5. \A s \in UpToSize(D, m) : h[s] = g[s]
    BY <2>1, <2>3 DEF Sums
  <2>6. Sums(f, h, UpToSize(D, m + 1))
    <3>1. ASSUME NEW s \in UpToSize(D, m + 1)
          PROVE  h[s] = IF s = {} THEN 0 ELSE f[First(s)] + h[Others(s)]
      <4>1. h[s] = IF s = {} THEN 0 ELSE f[First(s)] + g[Others(s)]
        OBVIOUS
      <4> HIDE DEF h
      <4> QED BY <4>1, <2>2, <2>5
    <3> HIDE DEF h
    <3> QED BY <3>1 DEF Sums
  <2>7. m + 1 \in 0..Cardinality(D)
    BY <1>1
  <2> HIDE DEF h
  <2> QED BY <2>4, <2>6, <2>7
<1>4. Cardinality(D) \in S
  <2>1. Cardinality(D) \in 0..Cardinality(D)
    BY <1>1
  <2> HIDE DEF S
  <2> QED BY <1>1, <1>2, <1>3, <2>1, UpTo
<1>5. UpToSize(D, Cardinality(D)) = SUBSET D
  BY FS_Subset DEF UpToSize
<1> QED BY <1>4, <1>5

\* A sum that takes the elements one after the other.
LEMMA SumIs ==
  ASSUME NEW D, IsFiniteSet(D), NEW f \in [D -> Int]
  PROVE  \E g \in [SUBSET D -> Int] : Sums(f, g, SUBSET D) /\ SumFunction(f) = g[D]
<1>1. SumFunction(f) =
        LET iter[s \in SUBSET (DOMAIN f)] == IF s = {} THEN 0 ELSE LET x == CHOOSE x \in s : TRUE IN f[x] + iter[s \ {x}]
        IN  iter[DOMAIN f]
  BY DEF SumFunction, SumFunctionOnSet, FoldFunctionOnSet, MapThenFoldSet
<1> DEFINE Is(g) == g = [s \in SUBSET D |-> IF s = {} THEN 0 ELSE f[First(s)] + g[Others(s)]]
           sum == CHOOSE g : Is(g)
<1>2. SumFunction(f) = sum[D]
  BY <1>1 DEF First, Others
<1>3. \E g : Is(g)
  <2>1. PICK g \in [SUBSET D -> Int] : Sums(f, g, SUBSET D)
    BY SumsExist
  <2>2. Is(g)
    BY <2>1 DEF Sums
  <2> QED BY <2>2
<1>4. Is(sum)
  <2> HIDE DEF Is
  <2> QED BY <1>3
<1>5. Sums(f, sum, SUBSET D)
  <2> HIDE DEF sum
  <2> QED BY <1>4 DEF Sums
<1>6. sum \in [SUBSET D -> Int]
  <2> DEFINE S == {m \in 0..Cardinality(D) : \A s \in UpToSize(D, m) : sum[s] \in Int}
  <2>1. Cardinality(D) \in Nat
    BY FS_CardinalityType
  <2> HIDE DEF sum
  <2>2. 0 \in S
    <3>1. ASSUME NEW s \in UpToSize(D, 0) PROVE s = {}
      BY <3>1, OnlyEmpty
    <3> QED BY <3>1, <1>5, <2>1 DEF Sums
  <2>3. ASSUME NEW m \in 0..Cardinality(D) - 1, m \in S PROVE m + 1 \in S
    <3>1. \A s \in UpToSize(D, m + 1) : s # {} => First(s) \in D /\ Others(s) \in UpToSize(D, m)
      BY <2>1, OthersAreFewer DEF UpToSize
    <3>2. \A s \in UpToSize(D, m + 1) : s \in SUBSET D
      BY DEF UpToSize
    <3>3. \A s \in UpToSize(D, m + 1) : sum[s] \in Int
      BY <1>5, <2>3, <3>1, <3>2 DEF Sums
    <3> QED BY <2>1, <3>3
  <2>4. Cardinality(D) \in S
    <3>1. Cardinality(D) \in 0..Cardinality(D)
      BY <2>1
    <3> HIDE DEF S
    <3> QED BY <2>1, <2>2, <2>3, <3>1, UpTo
  <2>5. UpToSize(D, Cardinality(D)) = SUBSET D
    BY FS_Subset DEF UpToSize
  <2>6. sum = [s \in SUBSET D |-> sum[s]]
    BY <1>4
  <2> QED BY <2>4, <2>5, <2>6
<1> HIDE DEF sum
<1> QED BY <1>2, <1>5, <1>6

\* Sums of differences.
LEMMA SumOfDifferences ==
  ASSUME NEW D, IsFiniteSet(D), NEW f \in [D -> Int], NEW g \in [D -> Int], NEW d \in [D -> Int],
         \A x \in D : d[x] = f[x] - g[x]
  PROVE  SumFunction(d) = SumFunction(f) - SumFunction(g)
<1>1. PICK F \in [SUBSET D -> Int] : Sums(f, F, SUBSET D) /\ SumFunction(f) = F[D]
  BY SumIs
<1>2. PICK G \in [SUBSET D -> Int] : Sums(g, G, SUBSET D) /\ SumFunction(g) = G[D]
  BY SumIs
<1>3. PICK H \in [SUBSET D -> Int] : Sums(d, H, SUBSET D) /\ SumFunction(d) = H[D]
  BY SumIs
<1> DEFINE S == {m \in 0..Cardinality(D) : \A s \in UpToSize(D, m) : H[s] = F[s] - G[s]}
<1>4. Cardinality(D) \in Nat
  BY FS_CardinalityType
<1>5. 0 \in S
  <2>1. ASSUME NEW s \in UpToSize(D, 0) PROVE s = {}
    BY <2>1, OnlyEmpty
  <2>2. F[{}] = 0 /\ G[{}] = 0 /\ H[{}] = 0
    BY <1>1, <1>2, <1>3 DEF Sums
  <2>3. ASSUME NEW s \in UpToSize(D, 0) PROVE H[s] = F[s] - G[s]
    <3>1. s = {}
      BY <2>1
    <3>2. H[{}] = F[{}] - G[{}]
      BY <2>2
    <3> QED BY ONLY <3>1, <3>2
  <2>4. 0 \in 0..Cardinality(D)
    BY <1>4
  <2> QED BY <2>3, <2>4
<1>6. ASSUME NEW m \in 0..Cardinality(D) - 1, m \in S PROVE m + 1 \in S
  <2>1. ASSUME NEW s \in UpToSize(D, m + 1), s # {} PROVE H[s] = F[s] - G[s]
    <3>1. First(s) \in D /\ Others(s) \in UpToSize(D, m) /\ Others(s) \in SUBSET D /\ s \in SUBSET D
      BY <1>4, <2>1, OthersAreFewer DEF UpToSize
    <3>2. H[Others(s)] = F[Others(s)] - G[Others(s)]
      BY <1>6, <3>1
    <3>3. F[s] = f[First(s)] + F[Others(s)] /\ G[s] = g[First(s)] + G[Others(s)] /\ H[s] = d[First(s)] + H[Others(s)]
      BY <1>1, <1>2, <1>3, <2>1, <3>1 DEF Sums
    <3>4. d[First(s)] = f[First(s)] - g[First(s)]
      BY <3>1
    <3>5. f[First(s)] \in Int /\ g[First(s)] \in Int /\ F[Others(s)] \in Int /\ G[Others(s)] \in Int
      BY <3>1
    <3> QED BY <3>2, <3>3, <3>4, <3>5
  <2>2. F[{}] = 0 /\ G[{}] = 0 /\ H[{}] = 0
    BY <1>1, <1>2, <1>3 DEF Sums
  <2>3. ASSUME NEW s \in UpToSize(D, m + 1), s = {} PROVE H[s] = F[s] - G[s]
    <3>1. H[{}] = F[{}] - G[{}]
      BY <2>2
    <3> QED BY ONLY <2>3, <3>1
  <2>4. m + 1 \in 0..Cardinality(D)
    BY <1>4
  <2> QED BY <2>1, <2>3, <2>4
<1>7. Cardinality(D) \in S
  <2>1. Cardinality(D) \in 0..Cardinality(D)
    BY <1>4
  <2> HIDE DEF S
  <2> QED BY <1>4, <1>5, <1>6, <2>1, UpTo
<1>8. D \in UpToSize(D, Cardinality(D))
  BY <1>4 DEF UpToSize
<1> QED BY <1>1, <1>2, <1>3, <1>7, <1>8
-----------------------------------------------------------------------------
(* Feature sequences by how far they see.                                    *)

\* The elements and lines that parse accepts, and lines in the order that it sorts them in.
Element == [type : {PER_FORM, PER_TAG, DYNAMIC}, sequence_index : Int]
Accepted(e) ==
  \/ e.type = PER_FORM
  \/ e.type = PER_TAG /\ e.sequence_index \in (1 - window_size)..0
  \/ e.type = DYNAMIC /\ e.sequence_index = 0
Line == {line \in Seq(Element) : line # <<>> /\ \A k \in DOMAIN line : Accepted(line[k])}
Descending(lines) ==
  \A f, g \in DOMAIN lines : f <= g => dependant_range(lines[g]) <= dependant_range(lines[f])

LEMMA ReachIs ==
  ASSUME NEW e, Accepted(e)
  PROVE  Reach(e) \in 1..window_size + 1 /\ window_size \in Nat
<1>1. PER_FORM # PER_TAG /\ PER_FORM # DYNAMIC /\ PER_TAG # DYNAMIC
  BY DEF PER_FORM, PER_TAG, DYNAMIC
<1>2. window_size \in Nat \ {0}
  BY WindowAssumption
<1>3. CASE e.type = PER_FORM
  <2>1. Reach(e) = 1
    BY <1>1, <1>3 DEF Reach
  <2> QED BY <1>2, <2>1
<1>4. CASE e.type = PER_TAG /\ e.sequence_index \in (1 - window_size)..0
  <2>1. Reach(e) = 1 - e.sequence_index
    BY <1>1, <1>4 DEF Reach
  <2> QED BY <1>2, <1>4, <2>1
<1>5. CASE e.type = DYNAMIC /\ e.sequence_index = 0
  <2>1. Reach(e) = window_size + 1
    BY <1>1, <1>5 DEF Reach
  <2> QED BY <1>2, <2>1
<1> QED BY <1>2, <1>3, <1>4, <1>5 DEF Accepted

LEMMA RangeIs ==
  ASSUME NEW line \in Line
  PROVE  /\ dependant_range(line) \in 1..window_size + 1
         /\ \A k \in DOMAIN line : Reach(line[k]) <= dependant_range(line)
<1> DEFINE T == {1} \cup {Reach(line[k]) : k \in DOMAIN line}
<1>1. window_size \in Nat
  BY WindowAssumption
<1>2. \A k \in DOMAIN line : Reach(line[k]) \in 1..window_size + 1
  BY ReachIs DEF Line
<1>3. T \in SUBSET (0..window_size + 1) /\ T # {}
  BY <1>1, <1>2
<1>4. Max(T) \in T /\ \A n \in T : n <= Max(T)
  <2>1. window_size + 1 \in Nat
    BY <1>1
  <2> HIDE DEF T
  <2> QED BY <1>3, <2>1, GreatestIsMax
<1>5. dependant_range(line) = Max(T)
  BY DEF dependant_range
<1>6. Max(T) \in 1..window_size + 1
  BY <1>1, <1>2, <1>4
<1>7. ASSUME NEW k \in DOMAIN line PROVE Reach(line[k]) <= Max(T)
  <2>1. Reach(line[k]) \in T
    OBVIOUS
  <2> HIDE DEF T
  <2> QED BY <1>4, <2>1
<1> QED BY <1>5, <1>6, <1>7

\* The line goes behind the lines that see as far, and before those that see less.
LEMMA InsertedDescends ==
  ASSUME NEW sorted \in Seq(Line), Descending(sorted), NEW line \in Line
  PROVE  Inserted(sorted, line) \in Seq(Line) /\ Descending(Inserted(sorted, line))
<1> DEFINE T == {0} \cup {f \in DOMAIN sorted : dependant_range(sorted[f]) >= dependant_range(line)}
           n == Max(T)
           new == SubSeq(sorted, 1, n) \o <<line>> \o SubSeq(sorted, n + 1, Len(sorted))
<1>1. Len(sorted) \in Nat /\ DOMAIN sorted = 1..Len(sorted)
  OBVIOUS
<1>2. n \in T /\ \A f \in T : f <= n
  <2>1. T \in SUBSET (0..Len(sorted)) /\ T # {}
    BY <1>1
  <2> HIDE DEF T
  <2> QED BY <1>1, <2>1, GreatestIsMax
<1>3. n \in 0..Len(sorted)
  BY <1>1, <1>2
<1>4. ASSUME NEW f \in 1..Len(sorted) PROVE dependant_range(sorted[f]) \in Int /\ dependant_range(line) \in Int
  <2>1. sorted[f] \in Line
    BY <1>1
  <2>2. dependant_range(sorted[f]) \in 1..window_size + 1 /\ dependant_range(line) \in 1..window_size + 1
    BY <2>1, RangeIs
  <2> QED BY <2>2
<1>5. ASSUME NEW f \in 1..Len(sorted), n < f PROVE dependant_range(sorted[f]) < dependant_range(line)
  <2>1. f \notin T
    <3> HIDE DEF T
    <3> QED BY <1>2, <1>3, <1>5
  <2>2. ~ (dependant_range(sorted[f]) >= dependant_range(line))
    BY <1>1, <2>1
  <2> QED BY <1>4, <2>2
<1>6. ASSUME NEW f \in 1..Len(sorted), f <= n PROVE dependant_range(line) <= dependant_range(sorted[f])
  <2>1. n \in 1..Len(sorted) /\ dependant_range(sorted[n]) >= dependant_range(line)
    BY <1>1, <1>2, <1>3, <1>6
  <2>2. dependant_range(sorted[n]) <= dependant_range(sorted[f])
    BY <1>1, <1>6, <2>1 DEF Descending
  <2> QED BY <1>4, <2>1, <2>2
<1> HIDE DEF n, T
<1> DEFINE left == SubSeq(sorted, 1, n)
           right == SubSeq(sorted, n + 1, Len(sorted))
<1>7. left \in Seq(Line) /\ Len(left) = n /\ \A f \in 1..n : left[f] = sorted[f]
  BY <1>1, <1>3
<1>8. /\ right \in Seq(Line) /\ Len(right) = Len(sorted) - n
      /\ \A f \in 1..Len(sorted) - n : right[f] = sorted[n + f]
  <2>1. \A k \in n + 1..Len(sorted) : sorted[k] \in Line
    BY <1>1, <1>3
  <2>2. n + 1 \in Int /\ Len(sorted) \in Int
    BY <1>1, <1>3
  <2>3. /\ right \in Seq(Line)
        /\ Len(right) = IF n + 1 <= Len(sorted) THEN Len(sorted) - (n + 1) + 1 ELSE 0
        /\ \A f \in 1..Len(sorted) - (n + 1) + 1 : right[f] = sorted[(n + 1) + f - 1]
    BY ONLY <2>1, <2>2, SubSeqProperties
  <2> HIDE DEF right
  <2>4. Len(right) = Len(sorted) - n
    <3>1. Len(right) = IF n + 1 <= Len(sorted) THEN Len(sorted) - (n + 1) + 1 ELSE 0
      BY <2>3
    <3>2. \A a, b \in Nat : a <= b => (IF a + 1 <= b THEN b - (a + 1) + 1 ELSE 0) = b - a
      OBVIOUS
    <3>3. Len(sorted) \in Nat /\ n \in Nat /\ n <= Len(sorted)
      BY <1>1, <1>3
    <3> QED BY ONLY <3>1, <3>2, <3>3
  <2>5. ASSUME NEW f \in 1..Len(sorted) - n PROVE right[f] = sorted[n + f]
    <3>1. (n + 1) + f - 1 = n + f /\ f \in 1..Len(sorted) - (n + 1) + 1
      BY <1>1, <1>3
    <3> QED BY <2>3, <3>1
  <2> QED BY <2>3, <2>4, <2>5
<1>9. new = left \o <<line>> \o right
  OBVIOUS
<1> HIDE DEF left, right, new
<1>10. left \o <<line>> \in Seq(Line) /\ Len(left \o <<line>>) = n + 1
       /\ (left \o <<line>>)[n + 1] = line /\ \A f \in 1..n : (left \o <<line>>)[f] = sorted[f]
  BY <1>3, <1>7
<1>11. new \in Seq(Line) /\ Len(new) = Len(sorted) + 1
  <2>1. new = (left \o <<line>>) \o right
    BY <1>9
  <2> DEFINE front == left \o <<line>>
  <2>2. front \in Seq(Line) /\ Len(front) = n + 1 /\ new = front \o right
    BY <1>10, <2>1
  <2> HIDE DEF front
  <2>3. new \in Seq(Line) /\ Len(new) = Len(front) + Len(right)
    <3>1. right \in Seq(Line)
      BY <1>8
    <3> QED BY ONLY <2>2, <3>1, ConcatProperties
  <2> QED BY <1>1, <1>3, <1>8, <2>2, <2>3
<1>12. /\ new[n + 1] = line
       /\ \A f \in 1..n : new[f] = sorted[f]
       /\ \A f \in n + 2..Len(sorted) + 1 : new[f] = sorted[f - 1]
  <2>1. \A f \in 1..n + 1 : new[f] = (left \o <<line>>)[f]
    BY <1>3, <1>8, <1>9, <1>10
  <2>2. ASSUME NEW f \in n + 2..Len(sorted) + 1 PROVE new[f] = sorted[f - 1]
    <3>1. f - (n + 1) \in 1..Len(sorted) - n /\ f \in 1..Len(sorted) + 1 /\ f > n + 1 /\ n + (f - (n + 1)) = f - 1
      BY <1>1, <1>3
    <3>2. new[f] = right[f - (n + 1)]
      BY <1>3, <1>8, <1>9, <1>10, <3>1
    <3> QED BY <1>8, <3>1, <3>2
  <2> QED BY <1>3, <1>10, <2>1, <2>2
<1>13. ASSUME NEW f \in 1..Len(sorted) + 1, NEW g \in 1..Len(sorted) + 1, f <= g
       PROVE  dependant_range(new[g]) <= dependant_range(new[f])
  <2>1. CASE f = g
    <3>1. new[f] \in Line
      BY <1>11, <1>1
    <3>2. dependant_range(new[f]) \in 1..window_size + 1
      BY <3>1, RangeIs
    <3> QED BY <2>1, <3>2
  <2>2. CASE f < g /\ g <= n
    <3>1. new[f] = sorted[f] /\ new[g] = sorted[g] /\ f \in DOMAIN sorted /\ g \in DOMAIN sorted
      BY <1>1, <1>3, <1>12, <2>2
    <3> QED BY <1>13, <3>1 DEF Descending
  <2>3. CASE f < g /\ g = n + 1
    <3>1. new[f] = sorted[f] /\ new[g] = line /\ f \in 1..Len(sorted) /\ f <= n
      BY <1>1, <1>3, <1>12, <2>3
    <3> QED BY <1>6, <3>1
  <2>4. CASE f < g /\ g > n + 1 /\ f > n + 1
    <3>1. new[f] = sorted[f - 1] /\ new[g] = sorted[g - 1] /\ f - 1 \in DOMAIN sorted /\ g - 1 \in DOMAIN sorted /\ f - 1 <= g - 1
      BY <1>1, <1>3, <1>12, <2>4
    <3> QED BY <3>1 DEF Descending
  <2>5. CASE f = n + 1 /\ g > n + 1
    <3>1. new[f] = line /\ new[g] = sorted[g - 1] /\ g - 1 \in 1..Len(sorted) /\ n < g - 1
      BY <1>1, <1>3, <1>12, <2>5
    <3>2. dependant_range(sorted[g - 1]) < dependant_range(line)
      BY <1>5, <3>1
    <3> QED BY <1>4, <3>1, <3>2
  <2>6. CASE f < n + 1 /\ g > n + 1
    <3>1. /\ new[f] = sorted[f] /\ new[g] = sorted[g - 1]
          /\ f \in DOMAIN sorted /\ g - 1 \in DOMAIN sorted /\ f <= g - 1
      BY <1>1, <1>3, <1>12, <2>6
    <3> QED BY <3>1 DEF Descending
  <2> QED BY <1>1, <1>3, <1>13, <2>1, <2>2, <2>3, <2>4, <2>5, <2>6
<1>14. new = Inserted(sorted, line)
  BY DEF Inserted, new, n, T
<1>15. DOMAIN new = 1..Len(sorted) + 1
  BY <1>11
<1> QED BY <1>11, <1>13, <1>14, <1>15 DEF Descending

LEMMA SequencesDescend == sequences \in Seq(Line) /\ Descending(sequences)
<1> DEFINE L == Len(Templates)
           Good == {lines \in Seq(Line) : Descending(lines)}
           Steps(h, m) == h = [n \in 0..m |-> IF n = 0 THEN <<>> ELSE Inserted(h[n - 1], Templates[n])]
<1>1. L \in Nat /\ \A n \in 1..L : Templates[n] \in Line
  <2>1. Templates \in Seq(Seq(Element))
    BY TemplatesAssumption DEF Element
  <2>2. ASSUME NEW n \in 1..L PROVE Templates[n] \in Line
    <3>1. Templates[n] \in ToSet(Templates) /\ Templates[n] \in Seq(Element)
      BY <2>1, <2>2 DEF ToSet
    <3>2. Templates[n] # <<>> /\ \A e \in ToSet(Templates[n]) : Accepted(e)
      BY <3>1, TemplatesAssumption DEF Accepted
    <3>3. \A k \in DOMAIN Templates[n] : Templates[n][k] \in ToSet(Templates[n])
      BY DEF ToSet
    <3> QED BY <3>1, <3>2, <3>3 DEF Line
  <2> QED BY <2>1, <2>2
<1>2. <<>> \in Good
  BY DEF Descending
<1>3. \A lines \in Good, line \in Line : Inserted(lines, line) \in Good
  BY InsertedDescends
<1> HIDE DEF Good
<1> DEFINE S == {m \in 0..L : \E h \in [0..m -> Good] : Steps(h, m)}
<1>4. 0 \in S
  <2>1. [n \in 0..0 |-> <<>>] \in [0..0 -> Good] /\ Steps([n \in 0..0 |-> <<>>], 0)
    BY <1>2
  <2>2. 0 \in 0..L
    BY <1>1
  <2> HIDE DEF Steps
  <2> QED BY <2>1, <2>2
<1>5. ASSUME NEW m \in 0..L - 1, m \in S PROVE m + 1 \in S
  <2>1. PICK h \in [0..m -> Good] : Steps(h, m)
    BY <1>5
  <2> DEFINE g == [n \in 0..m + 1 |-> IF n = m + 1 THEN Inserted(h[m], Templates[m + 1]) ELSE h[n]]
  <2>2. m + 1 \in 1..L /\ m + 1 \in 0..L /\ m \in 0..m
    BY <1>1
  <2>3. g \in [0..m + 1 -> Good]
    <3>1. Inserted(h[m], Templates[m + 1]) \in Good
      BY <1>1, <1>3, <2>2
    <3>2. \A n \in 0..m + 1 : n # m + 1 => n \in 0..m
      OBVIOUS
    <3> QED BY <3>1, <3>2
  <2>4. ASSUME NEW n \in 0..m + 1 PROVE g[n] = IF n = 0 THEN <<>> ELSE Inserted(g[n - 1], Templates[n])
    <3>1. CASE n = m + 1
      <4>1. n # 0 /\ n - 1 = m /\ n - 1 \in 0..m + 1 /\ n - 1 # m + 1
        BY <3>1
      <4>2. g[n - 1] = h[m]
        BY <4>1
      <4>3. g[n] = Inserted(h[m], Templates[n])
        BY <3>1
      <4> QED BY <4>1, <4>2, <4>3
    <3>2. CASE n # m + 1
      <4>1. n \in 0..m /\ (n # 0 => n - 1 \in 0..m + 1 /\ n - 1 # m + 1)
        BY <3>2
      <4>2. h[n] = IF n = 0 THEN <<>> ELSE Inserted(h[n - 1], Templates[n])
        BY <2>1, <4>1
      <4>3. g[n] = h[n] /\ (n # 0 => g[n - 1] = h[n - 1])
        BY <3>2, <4>1
      <4> QED BY <4>2, <4>3
    <3> QED BY <3>1, <3>2
  <2>5. Steps(g, m + 1)
    BY <2>4
  <2> HIDE DEF g, Steps
  <2> QED BY <2>2, <2>3, <2>5
<1>6. PICK h \in [0..L -> Good] : Steps(h, L)
  <2>1. L \in 0..L
    BY <1>1
  <2>2. L \in S
    <3> HIDE DEF S, L
    <3> QED BY <1>1, <1>4, <1>5, <2>1, UpTo
  <2> QED BY <2>2
<1> DEFINE sorted == CHOOSE h1 : Steps(h1, L)
<1>7. sequences = sorted[L]
  BY DEF sequences
<1>8. Steps(sorted, L)
  <2> HIDE DEF Steps
  <2> QED BY <1>6
<1>9. \A n \in 0..L : sorted[n] = h[n]
  <2> DEFINE R == {n \in 0..L : sorted[n] = h[n]}
  <2>1. \A n \in 0..L : sorted[n] = IF n = 0 THEN <<>> ELSE Inserted(sorted[n - 1], Templates[n])
    <3> HIDE DEF sorted
    <3> QED BY <1>8
  <2>2. \A n \in 0..L : h[n] = IF n = 0 THEN <<>> ELSE Inserted(h[n - 1], Templates[n])
    BY <1>6
  <2> HIDE DEF sorted, Steps
  <2>3. 0 \in R
    BY <1>1, <2>1, <2>2
  <2>4. ASSUME NEW n \in 0..L - 1, n \in R PROVE n + 1 \in R
    <3>1. n + 1 \in 0..L /\ n + 1 # 0 /\ (n + 1) - 1 = n
      BY <1>1
    <3>2. sorted[n + 1] = Inserted(sorted[n], Templates[n + 1])
      BY <2>1, <3>1
    <3>3. h[n + 1] = Inserted(h[n], Templates[n + 1])
      BY <2>2, <3>1
    <3> QED BY <2>4, <3>1, <3>2, <3>3
  <2>5. \A n \in 0..L : n \in R
    <3> HIDE DEF R, L
    <3> QED BY <1>1, <2>3, <2>4, UpTo
  <2> QED BY <2>5
<1>10. sequences \in Good
  <2> HIDE DEF sorted, Steps
  <2> QED BY <1>1, <1>6, <1>7, <1>9
<1> QED BY <1>10 DEF Good
-----------------------------------------------------------------------------
(* The cached scores.                                                        *)

LEMMA RangesAre ==
  /\ Len(sequences) \in Nat /\ DOMAIN sequences = 1..Len(sequences)
  /\ \A f \in DOMAIN sequences : ranges[f] \in 1..window_size + 1
  /\ \A f, g \in DOMAIN sequences : f <= g => ranges[g] <= ranges[f]
  /\ \A f \in DOMAIN sequences : \A k \in DOMAIN sequences[f] :
       Accepted(sequences[f][k]) /\ Reach(sequences[f][k]) <= ranges[f]
<1>1. sequences \in Seq(Line) /\ Descending(sequences)
  BY SequencesDescend
<1>2. \A f \in DOMAIN sequences : sequences[f] \in Line /\ ranges[f] = dependant_range(sequences[f])
  BY <1>1 DEF ranges
<1>3. \A f \in DOMAIN sequences : ranges[f] \in 1..window_size + 1
  BY <1>2, RangeIs
<1>4. \A f, g \in DOMAIN sequences : f <= g => ranges[g] <= ranges[f]
  BY <1>1, <1>2 DEF Descending
<1>5. \A f \in DOMAIN sequences : \A k \in DOMAIN sequences[f] :
        Accepted(sequences[f][k]) /\ Reach(sequences[f][k]) <= ranges[f]
  <2>1. ASSUME NEW f \in DOMAIN sequences, NEW k \in DOMAIN sequences[f]
        PROVE  Accepted(sequences[f][k]) /\ Reach(sequences[f][k]) <= ranges[f]
    <3>1. sequences[f] \in Line /\ ranges[f] = dependant_range(sequences[f])
      BY <1>2
    <3>2. Accepted(sequences[f][k])
      BY <3>1 DEF Line
    <3>3. Reach(sequences[f][k]) <= dependant_range(sequences[f])
      BY <3>1, RangeIs
    <3> QED BY <3>1, <3>2, <3>3
  <2> QED BY <2>1
<1> QED BY <1>1, <1>3, <1>4, <1>5

\* What is not recomputed sees no further than the tags that did not change.
LEMMA StaleIs ==
  ASSUME NEW u \in Nat
  PROVE  Stale(u) \in Nat /\ \A f \in DOMAIN sequences : f > Stale(u) => ranges[f] <= u
<1> DEFINE T == {0} \cup {f \in DOMAIN sequences : \A g \in 1..f : u < ranges[g]}
<1>1. Len(sequences) \in Nat /\ DOMAIN sequences = 1..Len(sequences)
  BY RangesAre
<1>2. Max(T) \in T /\ \A f \in T : f <= Max(T)
  <2>1. T \in SUBSET (0..Len(sequences)) /\ T # {}
    BY <1>1
  <2> HIDE DEF T
  <2> QED BY <1>1, <2>1, GreatestIsMax
<1>3. Stale(u) = Max(T)
  BY DEF Stale
<1>4. Stale(u) \in Nat
  BY <1>1, <1>2, <1>3
<1>5. ASSUME NEW f \in DOMAIN sequences, f > Stale(u) PROVE ranges[f] <= u
  <2>1. f \notin T
    <3> HIDE DEF T
    <3> QED BY <1>1, <1>2, <1>3, <1>4, <1>5
  <2>2. PICK g \in 1..f : ~ (u < ranges[g])
    BY <2>1
  <2>3. g \in DOMAIN sequences /\ g <= f
    BY <1>1, <2>2
  <2>4. ranges[f] <= ranges[g] /\ ranges[f] \in 1..window_size + 1 /\ ranges[g] \in 1..window_size + 1
    BY <2>3, RangesAre
  <2> QED BY <2>2, <2>4
<1> QED BY <1>4, <1>5

\* A value sees the tags of the window up to its reach, and only those of the sentence.
LEMMA ValueSeen ==
  ASSUME NEW x, Accepted(x), NEW u \in Nat, Reach(x) <= u, u <= window_size,
         NEW s, NEW k \in Nat, NEW v, NEW w, NEW d, NEW e, \A n \in 1..u : n <= k + 1 => v[n] = w[n]
  PROVE  value(x, s, k, v, d) = value(x, s, k, w, e)
<1>1. window_size \in Nat /\ Reach(x) \in Nat
  BY ReachIs
<1>2. PER_FORM # PER_TAG /\ PER_FORM # DYNAMIC /\ PER_TAG # DYNAMIC
  BY DEF PER_FORM, PER_TAG, DYNAMIC
<1>3. CASE x.type = PER_FORM
  BY <1>2, <1>3 DEF value
<1>4. CASE x.type = PER_TAG /\ x.sequence_index \in (1 - window_size)..0
  <2>1. Reach(x) = 1 - x.sequence_index
    BY <1>2, <1>4 DEF Reach
  <2>2. 1 - x.sequence_index \in 1..u
    BY <1>1, <1>4, <2>1
  <2>3. CASE k + x.sequence_index < 0
    BY <1>2, <1>4, <2>3 DEF value
  <2>4. CASE ~ (k + x.sequence_index < 0)
    <3>1. 1 - x.sequence_index <= k + 1
      BY <1>1, <1>4, <2>4
    <3>2. v[1 - x.sequence_index] = w[1 - x.sequence_index]
      BY <2>2, <3>1
    <3> QED BY <1>2, <1>4, <3>2 DEF value
  <2> QED BY <2>3, <2>4
<1>5. CASE x.type = DYNAMIC
  <2>1. Reach(x) = window_size + 1
    BY <1>2, <1>5 DEF Reach
  <2> QED BY <1>1, <2>1
<1> QED BY <1>3, <1>4, <1>5 DEF Accepted

LEMMA KeySeen ==
  ASSUME NEW f \in DOMAIN sequences, NEW s, NEW k \in Nat, NEW v, NEW w, NEW d, NEW e, NEW u \in Nat,
         ranges[f] <= u, u <= window_size, \A n \in 1..u : n <= k + 1 => v[n] = w[n]
  PROVE  key(f, s, k, v, d) = key(f, s, k, w, e)
<1>1. window_size \in Nat /\ ranges[f] \in 1..window_size + 1
  BY WindowAssumption, RangesAre
<1>2. ASSUME NEW m \in DOMAIN sequences[f] PROVE value(sequences[f][m], s, k, v, d) = value(sequences[f][m], s, k, w, e)
  <2>1. Accepted(sequences[f][m]) /\ Reach(sequences[f][m]) <= ranges[f]
    BY RangesAre
  <2>2. Reach(sequences[f][m]) <= u
    <3>1. Reach(sequences[f][m]) \in 1..window_size + 1
      BY <2>1, ReachIs
    <3> QED BY <1>1, <2>1, <3>1
  <2> QED BY <2>1, <2>2, ValueSeen
<1> DEFINE F(y, z) == [m \in DOMAIN sequences[f] |-> value(sequences[f][m], s, k, y, z)]
<1>3. F(v, d) = F(w, e)
  BY <1>2
<1> QED BY <1>3 DEF key

\* The leading tags that two windows have in common are the same.
LEMMA AgreeingAre ==
  ASSUME NEW v, NEW w, NEW k \in Nat
  PROVE  /\ Cardinality(Agreeing(v, w, k)) \in Nat /\ Cardinality(Agreeing(v, w, k)) <= window_size
         /\ \A n \in 1..Cardinality(Agreeing(v, w, k)) : v[n] = w[n]
<1> DEFINE N == Min({window_size, k + 1})
           same == {n \in 1..N : \A m \in 1..n : v[m] = w[m]}
<1>1. window_size \in Nat
  BY WindowAssumption
<1>2. N \in Nat /\ N <= window_size
  BY <1>1, LesserOfTwo
<1> HIDE DEF N
<1>3. IsFiniteSet(1..N) /\ Cardinality(1..N) = N
  BY <1>2, FS_Interval
<1>4. Cardinality(same) \in Nat /\ Cardinality(same) <= N
  <2>1. same \subseteq 1..N
    OBVIOUS
  <2> HIDE DEF same
  <2> QED BY <1>3, <2>1, FS_Subset, FS_CardinalityType
<1>5. ASSUME NEW n \in 1..Cardinality(same), v[n] # w[n] PROVE FALSE
  <2>1. n \in Nat /\ n - 1 \in Nat /\ n <= Cardinality(same)
    BY <1>4
  <2>2. same \subseteq 1..n - 1
    <3> SUFFICES ASSUME NEW m \in same, ~ (m <= n - 1) PROVE FALSE
      BY <2>1
    <3>1. n \in 1..m
      BY <2>1
    <3> QED BY <1>5, <3>1
  <2>3. IsFiniteSet(1..n - 1) /\ Cardinality(1..n - 1) = n - 1
    <3>1. IsFiniteSet(1..n - 1) /\ Cardinality(1..n - 1) = IF 1 > n - 1 THEN 0 ELSE (n - 1) - 1 + 1
      BY <2>1, FS_Interval
    <3> QED BY <2>1, <3>1
  <2>4. Cardinality(same) <= n - 1
    <3> HIDE DEF same
    <3> QED BY <2>2, <2>3, FS_Subset, Zenon
  <2> HIDE DEF same
  <2> QED BY <1>4, <2>1, <2>4
<1>6. Agreeing(v, w, k) = same
  BY DEF Agreeing, N
<1> HIDE DEF same
<1> QED BY <1>1, <1>2, <1>4, <1>5, <1>6

\* The score of a key. A cache is consistent if each element has the score of its key, and the
\* cache the sum of them; its keys are those of a window.
KeyScore(map, f, k) == IF k = <<>> THEN 0 ELSE Weight(map, f, k)
Scores(cache) == [f \in DOMAIN sequences |-> cache.elements[f].score]
Consistent(cache, map) ==
  /\ \A f \in DOMAIN sequences : cache.elements[f].score = KeyScore(map, f, cache.elements[f].key)
  /\ cache.score = SumFunction(Scores(cache))
KeysOf(cache, s, k, w, d) == \A f \in DOMAIN sequences : cache.elements[f].key = key(f, s, k, w, d)

LEMMA KeyScoreType ==
  ASSUME NEW map \in WeightMaps, NEW f, NEW k
  PROVE  KeyScore(map, f, k) \in Int
BY WeightsAssumption DEF KeyScore, Weight

LEMMA SequencesFinite == IsFiniteSet(DOMAIN sequences)
<1>1. Len(sequences) \in Nat /\ DOMAIN sequences = 1..Len(sequences)
  BY RangesAre
<1> QED BY <1>1, FS_Interval

LEMMA ScoresType ==
  ASSUME NEW cache, NEW map \in WeightMaps, Consistent(cache, map)
  PROVE  Scores(cache) \in [DOMAIN sequences -> Int] /\ cache.score \in Int
<1>1. Scores(cache) \in [DOMAIN sequences -> Int]
  BY KeyScoreType DEF Consistent, Scores
<1>2. SumFunction(Scores(cache)) \in Int
  <2>1. PICK g \in [SUBSET (DOMAIN sequences) -> Int] : SumFunction(Scores(cache)) = g[DOMAIN sequences]
    BY <1>1, SequencesFinite, SumIs
  <2> QED BY <2>1
<1> QED BY <1>1, <1>2 DEF Consistent

LEMMA EmptyIsConsistent ==
  ASSUME NEW map \in WeightMaps
  PROVE  Consistent(EmptyCache, map)
<1> DEFINE zero == [f \in DOMAIN sequences |-> 0]
<1>1. \A f \in DOMAIN sequences : EmptyCache.elements[f].key = <<>> /\ EmptyCache.elements[f].score = 0
  BY DEF EmptyCache
<1>2. Scores(EmptyCache) = zero
  BY <1>1 DEF Scores
<1>3. zero \in [DOMAIN sequences -> Int] /\ \A f \in DOMAIN sequences : zero[f] = zero[f] - zero[f]
  OBVIOUS
<1> HIDE DEF zero
<1>4. SumFunction(zero) = SumFunction(zero) - SumFunction(zero)
  BY <1>3, SequencesFinite, SumOfDifferences
<1>5. SumFunction(zero) \in Int
  <2>1. PICK g \in [SUBSET (DOMAIN sequences) -> Int] : SumFunction(zero) = g[DOMAIN sequences]
    BY <1>3, SequencesFinite, SumIs
  <2> QED BY <2>1
<1>6. EmptyCache.score = 0
  BY DEF EmptyCache
<1> QED BY <1>1, <1>2, <1>4, <1>5, <1>6 DEF Consistent, KeyScore

LEMMA RescoredIs ==
  ASSUME NEW cache, NEW map \in WeightMaps, Consistent(cache, map), NEW s, NEW k, NEW w, NEW u, NEW d
  PROVE  /\ Consistent(Rescored(cache, map, s, k, w, u, d), map)
         /\ \A f \in DOMAIN sequences :
              Rescored(cache, map, s, k, w, u, d).elements[f].key
                = IF f <= Stale(u) THEN key(f, s, k, w, d) ELSE cache.elements[f].key
<1> DEFINE old == cache.elements
           updated(f, x) == IF x = old[f].key THEN old[f] ELSE [key |-> x, score |-> KeyScore(map, f, x)]
           new == [f \in DOMAIN sequences |-> IF f <= Stale(u) THEN updated(f, key(f, s, k, w, d)) ELSE old[f]]
           change == [f \in DOMAIN sequences |-> new[f].score - old[f].score]
           after == [score |-> cache.score + SumFunction(change), elements |-> new]
<1>1. Rescored(cache, map, s, k, w, u, d) = after
  BY DEF Rescored, KeyScore
<1>2. \A f \in DOMAIN sequences : old[f].score = KeyScore(map, f, old[f].key)
  BY DEF Consistent
<1>3. ASSUME NEW f \in DOMAIN sequences
      PROVE  /\ new[f].key = IF f <= Stale(u) THEN key(f, s, k, w, d) ELSE old[f].key
             /\ new[f].score = KeyScore(map, f, new[f].key)
  <2>1. CASE f <= Stale(u)
    <3> DEFINE x == key(f, s, k, w, d)
    <3>1. new[f] = updated(f, x)
      BY <2>1
    <3> HIDE DEF x, new, old
    <3>2. updated(f, x).key = x /\ updated(f, x).score = KeyScore(map, f, x)
      BY <1>2
    <3> QED BY <2>1, <3>1, <3>2 DEF x
  <2>2. CASE ~ (f <= Stale(u))
    <3>1. new[f] = old[f]
      BY <2>2
    <3> HIDE DEF new, old
    <3> QED BY <1>2, <2>2, <3>1
  <2> QED BY <2>1, <2>2
<1>4. after.elements = new /\ after.score = cache.score + SumFunction(change)
  OBVIOUS
<1>5. Scores(cache) \in [DOMAIN sequences -> Int] /\ cache.score \in Int /\ cache.score = SumFunction(Scores(cache))
  BY ScoresType DEF Consistent
<1>6. \A f \in DOMAIN sequences : Scores(cache)[f] = old[f].score
  BY DEF Scores
<1>7. \A f \in DOMAIN sequences : Scores(after)[f] = new[f].score
  BY <1>4 DEF Scores
<1>8. Scores(after) \in [DOMAIN sequences -> Int]
  <2>1. \A f \in DOMAIN sequences : new[f].score \in Int
    <3> HIDE DEF new
    <3> QED BY <1>3, KeyScoreType
  <2> HIDE DEF new, after
  <2> QED BY <1>7, <2>1 DEF Scores
<1>9. \A f \in DOMAIN sequences : change[f] = new[f].score - old[f].score
  OBVIOUS
<1>10. change = [f \in DOMAIN sequences |-> change[f]]
  OBVIOUS
<1> HIDE DEF new, old, change, after
<1>11. \A f \in DOMAIN sequences : change[f] = Scores(after)[f] - Scores(cache)[f]
  BY <1>6, <1>7, <1>9
<1>12. change \in [DOMAIN sequences -> Int]
  <2>1. \A f \in DOMAIN sequences : change[f] \in Int
    <3>1. \A f \in DOMAIN sequences : Scores(after)[f] \in Int /\ Scores(cache)[f] \in Int
      BY <1>5, <1>8
    <3> QED BY <1>11, <3>1
  <2> QED BY <1>10, <2>1
<1>13. SumFunction(change) = SumFunction(Scores(after)) - SumFunction(Scores(cache))
  BY <1>5, <1>8, <1>11, <1>12, SequencesFinite, SumOfDifferences
<1>14. SumFunction(Scores(after)) \in Int
  <2>1. PICK g \in [SUBSET (DOMAIN sequences) -> Int] : SumFunction(Scores(after)) = g[DOMAIN sequences]
    BY <1>8, SequencesFinite, SumIs
  <2> QED BY <2>1
<1>15. after.score = SumFunction(Scores(after))
  BY <1>4, <1>5, <1>13, <1>14
<1>16. Consistent(after, map)
  BY <1>3, <1>4, <1>15 DEF Consistent
<1>17. \A f \in DOMAIN sequences : after.elements[f].key = IF f <= Stale(u) THEN key(f, s, k, w, d) ELSE cache.elements[f].key
  BY <1>3, <1>4 DEF old
<1> QED BY <1>1, <1>16, <1>17

LEMMA FullScoreIs ==
  ASSUME NEW map, NEW s, NEW k, NEW w, NEW d
  PROVE  FullScore(map, s, k, w, d) = SumFunction([f \in DOMAIN sequences |-> KeyScore(map, f, key(f, s, k, w, d))])
BY DEF FullScore, KeyScore

\* The score of a consistent cache is the full score.
LEMMA ExactIs ==
  ASSUME NEW cache, NEW map, Consistent(cache, map), NEW s, NEW k, NEW w, NEW d, KeysOf(cache, s, k, w, d)
  PROVE  cache.score = FullScore(map, s, k, w, d)
<1>1. \A f \in DOMAIN sequences : cache.elements[f].score = KeyScore(map, f, key(f, s, k, w, d))
  BY DEF Consistent, KeysOf
<1> DEFINE full == [f \in DOMAIN sequences |-> KeyScore(map, f, key(f, s, k, w, d))]
<1>2. FullScore(map, s, k, w, d) = SumFunction(full)
  BY FullScoreIs
<1>3. Scores(cache) = full
  BY <1>1 DEF Scores
<1> HIDE DEF full
<1>4. cache.score = SumFunction(Scores(cache))
  BY DEF Consistent
<1> QED BY <1>2, <1>3, <1>4
-----------------------------------------------------------------------------
(* The score of a turn.                                                      *)

\* While a sentence is decoded the cache is consistent with the weights, and the keys it
\* holds after a turn that scores are those of the window.
CacheInv ==
  /\ weights \in WeightMaps
  /\ pc = "node" =>
       /\ Consistent(features, weights)
       /\ Begun /\ ~ Unscored => KeysOf(features, sentence, i, window, dynamic)

LEMMA ConsiderCache ==
  ASSUME IInv, CacheInv, Consider
  PROVE  CacheInv'
<1>1. /\ pc = "node" /\ tag < Size(i) /\ window' = NextWindow(tag, prev)
      /\ UNCHANGED <<weights, sentence, pc, i, nodes_prev, nodes_now>>
      /\ features' = IF Unscored THEN features
                     ELSE Rescored(features, weights, sentence, i, window', SameTags(window'), dynamic')
  BY DEF Consider
<1>2. LoopInv /\ WindowInv /\ weights \in WeightMaps /\ Consistent(features, weights)
  BY <1>1 DEF IInv, CacheInv
<1>3. Unscored' <=> Unscored
  BY <1>1 DEF Unscored, Size
<1>4. CASE Unscored
  <2>1. features' = features
    BY <1>1, <1>4
  <2>2. Consistent(features', weights')
    BY <1>1, <1>2, <2>1
  <2> QED BY <1>1, <1>2, <1>3, <1>4, <2>2 DEF CacheInv
<1>5. CASE ~ Unscored
  <2> DEFINE u == SameTags(window')
             n == Stale(u)
  <2>1. features' = Rescored(features, weights, sentence, i, window', u, dynamic')
    BY <1>1, <1>5
  <2>2. Turn(nodes, sentence, nodes_prev, nodes_now, i, tag, prev) /\ i \in Nat /\ nodes_prev \in Int /\ tag \in Nat
    <3>1. Turn(nodes, sentence, nodes_prev, nodes_now, i, tag, prev)
      BY <1>1, <1>2, TurnNow
    <3> QED BY <1>2, <3>1 DEF Turn, LoopInv, Analyzed
  <2>3. u \in Nat /\ u <= window_size /\ \A m \in 1..u : window[m] = window'[m]
    <3>1. SameTags(window') = Cardinality(Agreeing(window, window', i))
      BY DEF SameTags, Agreeing
    <3>2. /\ Cardinality(Agreeing(window, window', i)) \in Nat /\ Cardinality(Agreeing(window, window', i)) <= window_size
          /\ \A m \in 1..Cardinality(Agreeing(window, window', i)) : window[m] = window'[m]
      BY <2>2, AgreeingAre
    <3> QED BY <3>1, <3>2
  <2>4. window'[1] = tag
    <3>1. \A m \in 0..Depth(i) : window'[m + 1] = Entry(nodes, tag, prev, m)
      BY <1>1, <1>2, <2>2, WindowIs DEF WindowInv
    <3>2. 0 \in 0..Depth(i)
      BY <2>2, DepthIs
    <3>3. \A m \in 0..Depth(i) : m = 0 => window'[m + 1] = tag
      BY <3>1 DEF Entry
    <3> QED BY <3>2, <3>3
  <2>5. ~ Begun => window[1] = -1
    BY <1>2, WindowAssumption DEF WindowInv, NoWindow
  <2> HIDE DEF u, n
  <2>6. \A f \in DOMAIN sequences : f > n => ranges[f] <= u
    BY <2>3, StaleIs DEF n
  <2>7. /\ Consistent(features', weights)
        /\ \A f \in DOMAIN sequences :
             features'.elements[f].key = IF f <= n THEN key(f, sentence, i, window', dynamic') ELSE features.elements[f].key
    BY <1>2, <2>1, RescoredIs DEF n
  <2>8. ASSUME NEW f \in DOMAIN sequences PROVE features'.elements[f].key = key(f, sentence, i, window', dynamic')
    <3>1. CASE f <= n
      BY <2>7, <3>1
    <3>2. CASE ~ (f <= n)
      <4>1. ranges[f] <= u
        <5>1. f \in Nat /\ n \in Nat
          BY <2>3, RangesAre, StaleIs DEF n
        <5> QED BY <2>6, <3>2, <5>1
      <4>2. u # 0
        BY <2>3, <4>1, RangesAre, WindowAssumption
      <4>3. Begun
        BY <2>2, <2>3, <2>4, <2>5, <4>2
      <4>4. features.elements[f].key = key(f, sentence, i, window, dynamic)
        BY <1>1, <1>5, <4>3 DEF CacheInv, KeysOf
      <4>5. key(f, sentence, i, window, dynamic) = key(f, sentence, i, window', dynamic')
        <5>1. \A m \in 1..u : m <= i + 1 => window[m] = window'[m]
          BY <2>3
        <5>2. i \in Nat /\ u \in Nat /\ u <= window_size
          BY <2>2, <2>3
        <5> QED BY ONLY f \in DOMAIN sequences, <4>1, <5>1, <5>2, KeySeen
      <4> QED BY <2>7, <3>2, <4>4, <4>5
    <3> QED BY <3>1, <3>2
  <2>9. KeysOf(features', sentence', i', window', dynamic') /\ Consistent(features', weights')
    BY <1>1, <2>7, <2>8 DEF KeysOf
  <2>10. weights' \in WeightMaps
    BY <1>1, <1>2
  <2> QED BY <2>9, <2>10 DEF CacheInv
<1> QED BY <1>4, <1>5

LEMMA NextCache == IInv /\ CacheInv /\ [Next]_vars => CacheInv'
<1> SUFFICES ASSUME IInv, CacheInv, [Next]_vars PROVE CacheInv'
  OBVIOUS
<1>0. weights \in WeightMaps
  BY DEF CacheInv
<1>1. ASSUME NEW s \in Sentences, Tag(s) PROVE CacheInv'
  <2>1. weights' = weights /\ pc = "idle"
    BY <1>1 DEF Tag
  <2>2. CASE s = <<>> \/ \E k \in DOMAIN s : s[k].tags = <<>>
    <3>1. pc' = pc
      BY <1>1, <2>2 DEF Tag
    <3> QED BY <1>0, <2>1, <3>1 DEF CacheInv
  <2>3. CASE ~ (s = <<>> \/ \E k \in DOMAIN s : s[k].tags = <<>>)
    <3>1. features' = EmptyCache /\ tag' = 0 /\ prev' = -1 /\ nodes_prev' = -1
      BY <1>1, <2>3 DEF Tag, Cleared
    <3>2. ~ Begun'
      BY <3>1 DEF Begun
    <3>3. Consistent(features', weights')
      BY <1>0, <2>1, <3>1, EmptyIsConsistent
    <3> QED BY <1>0, <2>1, <3>2, <3>3 DEF CacheInv
  <2> QED BY <2>2, <2>3
<1>2. CASE Consider
  BY <1>2, ConsiderCache
<1>3. CASE NextForm
  <2>1. pc = "node" /\ UNCHANGED <<features, weights>> /\ tag' = 0 /\ prev' = nodes_now /\ nodes_prev' = nodes_now
    BY <1>3 DEF NextForm
  <2>2. ~ Begun'
    BY <2>1 DEF Begun
  <2>3. Consistent(features', weights')
    BY <2>1 DEF CacheInv
  <2> QED BY <1>0, <2>1, <2>2, <2>3 DEF CacheInv
<1>4. CASE Trace
  <2>1. weights' = weights /\ pc' = "done"
    BY <1>4 DEF Trace
  <2> QED BY <1>0, <2>1 DEF CacheInv
<1>5. CASE Return
  <2>1. weights' \in WeightMaps /\ pc' = "idle"
    BY <1>5 DEF Return
  <2> QED BY <2>1 DEF CacheInv
<1>6. CASE UNCHANGED vars
  <2>1. UNCHANGED <<weights, pc, features, sentence, i, window, dynamic, tag, prev, nodes_prev, nodes_now>>
    BY <1>6 DEF vars, loop
  <2>2. (Begun' <=> Begun) /\ (Unscored' <=> Unscored)
    BY <2>1 DEF Begun, Unscored, Size
  <2> QED BY <2>1, <2>2 DEF CacheInv
<1> QED BY <1>1, <1>2, <1>3, <1>4, <1>5, <1>6 DEF Next

LEMMA CacheIsExact == IInv /\ CacheInv => ScoreIsExact
<1> SUFFICES ASSUME IInv, CacheInv, pc = "node", window[1] # -1, ~ Unscored
             PROVE  features.score = FullScore(weights, sentence, i, window, dynamic)
  BY DEF ScoreIsExact
<1>1. WindowInv /\ Consistent(features, weights)
  BY DEF IInv, CacheInv
<1>2. Begun
  <2>1. NoWindow[1] = -1
    BY WindowAssumption DEF NoWindow
  <2> QED BY <1>1, <2>1 DEF WindowInv
<1> QED BY <1>1, <1>2, ExactIs DEF CacheInv

\* ScoreIsExact is safe: for any templates, weights, sentences and order of decoding, the score that
\* the cache keeps up to date is that of the window, recomputed from nothing.
THEOREM ScoreAlwaysExact == Spec => []ScoreIsExact
<1>1. Spec => []IInv
  BY InitInv, NextInv, PTL DEF Spec
<1>2. Init => CacheInv
  BY DEF Init, CacheInv
<1>3. Spec => []CacheInv
  BY <1>1, <1>2, NextCache, PTL DEF Spec
<1> QED BY <1>1, <1>3, CacheIsExact, PTL
-----------------------------------------------------------------------------
(* What a choice of tags is worth.                                           *)

\* Weights of sequences that see no further than decoding_order tags.
Near(map) == \A fk \in DOMAIN map : map[fk] # 0 => ranges[fk[1]] <= decoding_order
\* Two windows agree on what such weights see at position k.
Alike(v, w, k) == \A n \in 1..decoding_order : n <= k + 1 => v[n] = w[n]

LEMMA FullScoreType ==
  ASSUME NEW map \in WeightMaps, NEW s, NEW k, NEW w, NEW d
  PROVE  FullScore(map, s, k, w, d) \in Int
<1> DEFINE full == [f \in DOMAIN sequences |-> KeyScore(map, f, key(f, s, k, w, d))]
<1>1. full \in [DOMAIN sequences -> Int]
  BY KeyScoreType
<1>2. FullScore(map, s, k, w, d) = SumFunction(full)
  BY FullScoreIs
<1> HIDE DEF full
<1>3. PICK g \in [SUBSET (DOMAIN sequences) -> Int] : SumFunction(full) = g[DOMAIN sequences]
  BY <1>1, SequencesFinite, SumIs
<1> QED BY <1>2, <1>3

\* Near weights do not tell such windows apart, nor the dynamic features.
LEMMA ScoreSeen ==
  ASSUME NEW map, Near(map), NEW s, NEW k \in Nat, NEW v, NEW w, NEW d, NEW e, Alike(v, w, k)
  PROVE  FullScore(map, s, k, v, d) = FullScore(map, s, k, w, e)
<1>1. ASSUME NEW f \in DOMAIN sequences PROVE KeyScore(map, f, key(f, s, k, v, d)) = KeyScore(map, f, key(f, s, k, w, e))
  <2>1. CASE ranges[f] <= decoding_order
    <3>1. decoding_order \in Nat /\ decoding_order <= window_size
      BY OrderAssumption, WindowAssumption
    <3>2. key(f, s, k, v, d) = key(f, s, k, w, e)
      BY <2>1, <3>1, KeySeen DEF Alike
    <3> QED BY <3>2
  <2>2. CASE ~ (ranges[f] <= decoding_order)
    <3>1. ASSUME NEW x PROVE Weight(map, f, x) = 0
      <4>1. <<f, x>> \in DOMAIN map => map[<<f, x>>] = 0
        BY <2>2 DEF Near
      <4> QED BY <4>1 DEF Weight
    <3> QED BY <3>1 DEF KeyScore
  <2> QED BY <2>1, <2>2
<1> DEFINE F(x, y) == [f \in DOMAIN sequences |-> KeyScore(map, f, key(f, s, k, x, y))]
<1>2. F(v, d) = F(w, e)
  BY <1>1
<1>3. FullScore(map, s, k, v, d) = SumFunction(F(v, d)) /\ FullScore(map, s, k, w, e) = SumFunction(F(w, e))
  BY FullScoreIs
<1> QED BY <1>2, <1>3

\* The score of the first k tags of ts.
Gain(map, s, ts, m) == FullScore(map, s, m - 1, WindowAt(ts, m), no_dynamic)
Worth(map, s, ts, k) ==
  LET worth[m \in 0..k] == IF m = 0 THEN 0 ELSE worth[m - 1] + Gain(map, s, ts, m) IN worth[k]

LEMMA WorthIs ==
  ASSUME NEW map \in WeightMaps, NEW s, NEW ts
  PROVE  /\ Worth(map, s, ts, 0) = 0
         /\ \A n \in Nat : /\ Worth(map, s, ts, n) \in Int /\ Gain(map, s, ts, n + 1) \in Int
                           /\ Worth(map, s, ts, n + 1) = Worth(map, s, ts, n) + Gain(map, s, ts, n + 1)
<1> DEFINE G(m) == Gain(map, s, ts, m)
           F(b, n) == b = [m \in 0..n |-> IF m = 0 THEN 0 ELSE b[m - 1] + G(m)]
           worth(n) == CHOOSE b : F(b, n)
<1>0. \A m : G(m) \in Int
  BY FullScoreType DEF Gain
<1> HIDE DEF G
<1>1. ASSUME NEW n \in Nat PROVE \E b : F(b, n)
  <2> DEFINE S == {m \in Nat : \E b : F(b, m)}
  <2>1. 0 \in S
    <3>1. F([k \in 0..0 |-> 0], 0)
      OBVIOUS
    <3> QED BY <3>1
  <2>2. ASSUME NEW m \in 0..n - 1, m \in S PROVE m + 1 \in S
    <3>1. PICK b : F(b, m)
      BY <2>2
    <3> DEFINE c == [k \in 0..m + 1 |-> IF k = m + 1 THEN b[m] + G(m + 1) ELSE b[k]]
    <3>2. ASSUME NEW k \in 0..m + 1 PROVE c[k] = IF k = 0 THEN 0 ELSE c[k - 1] + G(k)
      <4>1. CASE k = m + 1
        <5>1. k - 1 = m /\ m \in 0..m + 1 /\ m # m + 1 /\ k # 0
          BY <4>1
        <5> QED BY <4>1, <5>1
      <4>2. CASE k # m + 1
        <5>1. k \in 0..m /\ (k # 0 => k - 1 \in 0..m + 1 /\ k - 1 # m + 1)
          BY <4>2
        <5>2. b[k] = IF k = 0 THEN 0 ELSE b[k - 1] + G(k)
          BY <3>1, <5>1
        <5> QED BY <4>2, <5>1, <5>2
      <4> QED BY <4>1, <4>2
    <3>3. F(c, m + 1)
      BY <3>2
    <3> HIDE DEF c, F
    <3>4. m + 1 \in Nat
      OBVIOUS
    <3> QED BY <3>3, <3>4
  <2>3. n \in S
    <3> HIDE DEF S
    <3> QED BY <2>1, <2>2, UpTo, n \in 0..n
  <2> QED BY <2>3
<1>2. ASSUME NEW n \in Nat PROVE F(worth(n), n) /\ Worth(map, s, ts, n) = worth(n)[n]
  <2>1. F(worth(n), n)
    <3> HIDE DEF F
    <3> QED BY <1>1
  <2>2. Worth(map, s, ts, n) = worth(n)[n]
    BY DEF Worth, G
  <2> QED BY <2>1, <2>2
<1>3. ASSUME NEW n \in Nat PROVE worth(n)[0] = 0 /\ \A k \in 0..n - 1 : worth(n)[k + 1] = worth(n)[k] + G(k + 1)
  <2>1. F(worth(n), n)
    BY <1>2
  <2> HIDE DEF worth
  <2>2. \A k \in 0..n : worth(n)[k] = IF k = 0 THEN 0 ELSE worth(n)[k - 1] + G(k)
    BY <2>1
  <2>3. ASSUME NEW k \in 0..n - 1 PROVE worth(n)[k + 1] = worth(n)[k] + G(k + 1)
    <3>1. k + 1 \in 0..n /\ k + 1 # 0 /\ k + 1 - 1 = k
      OBVIOUS
    <3> QED BY <2>2, <3>1
  <2> QED BY <2>2, <2>3, 0 \in 0..n
<1> HIDE DEF worth, F
<1>4. ASSUME NEW n \in Nat PROVE Worth(map, s, ts, n + 1) = Worth(map, s, ts, n) + G(n + 1)
  <2> DEFINE S == {k \in Nat : worth(n)[k] = worth(n + 1)[k]}
  <2>0. n + 1 \in Nat
    OBVIOUS
  <2>1. 0 \in S
    BY <1>3, <2>0
  <2>2. ASSUME NEW k \in 0..n - 1, k \in S PROVE k + 1 \in S
    <3>1. k \in 0..n + 1 - 1 /\ k + 1 \in Nat
      OBVIOUS
    <3>2. worth(n)[k + 1] = worth(n)[k] + G(k + 1)
      BY <1>3
    <3>3. worth(n + 1)[k + 1] = worth(n + 1)[k] + G(k + 1)
      BY <1>3, <2>0, <3>1
    <3> QED BY <2>2, <3>1, <3>2, <3>3
  <2>3. n \in S
    <3> HIDE DEF S
    <3> QED BY <2>1, <2>2, UpTo, n \in 0..n
  <2>4. worth(n + 1)[n + 1] = worth(n + 1)[n] + G(n + 1)
    <3>1. n \in 0..n + 1 - 1
      OBVIOUS
    <3> QED BY <1>3, <2>0, <3>1
  <2> QED BY <1>2, <2>0, <2>3, <2>4
<1>5. Worth(map, s, ts, 0) = 0
  BY <1>2, <1>3, 0 \in Nat
<1>6. ASSUME NEW n \in Nat PROVE Worth(map, s, ts, n) \in Int
  <2> DEFINE S == {k \in Nat : Worth(map, s, ts, k) \in Int}
  <2>1. 0 \in S
    BY <1>5
  <2>2. ASSUME NEW k \in 0..n - 1, k \in S PROVE k + 1 \in S
    <3>1. k \in Nat /\ k + 1 \in Nat
      OBVIOUS
    <3>2. Worth(map, s, ts, k + 1) = Worth(map, s, ts, k) + G(k + 1) /\ G(k + 1) \in Int
      BY <1>0, <1>4, <3>1
    <3> QED BY <2>2, <3>1, <3>2
  <2>3. n \in S
    <3> HIDE DEF S
    <3> QED BY <2>1, <2>2, UpTo, n \in 0..n
  <2> QED BY <2>3
<1> QED BY <1>0, <1>4, <1>5, <1>6 DEF G

\* It depends on these tags only.
LEMMA WorthSame ==
  ASSUME NEW map \in WeightMaps, NEW s, NEW n \in Nat, NEW ts, NEW us, \A m \in 1..n : ts[m] = us[m]
  PROVE  Worth(map, s, ts, n) = Worth(map, s, us, n)
<1> DEFINE S == {k \in Nat : Worth(map, s, ts, k) = Worth(map, s, us, k)}
<1>1. 0 \in S
  BY WorthIs
<1>2. ASSUME NEW k \in 0..n - 1, k \in S PROVE k + 1 \in S
  <2>1. k \in Nat /\ k + 1 \in Nat /\ k + 1 <= n
    OBVIOUS
  <2>2. ASSUME NEW q \in 1..window_size
        PROVE  (IF q <= k + 1 THEN ts[(k + 1) - q + 1] ELSE -1) = (IF q <= k + 1 THEN us[(k + 1) - q + 1] ELSE -1)
    <3>1. q \in Nat /\ q >= 1
      BY WindowAssumption
    <3>2. q <= k + 1 => (k + 1) - q + 1 \in 1..n
      BY <2>1, <3>1
    <3> QED BY <3>2
  <2>3. WindowAt(ts, k + 1) = WindowAt(us, k + 1)
    BY <2>2 DEF WindowAt
  <2>4. Gain(map, s, ts, k + 1) = Gain(map, s, us, k + 1)
    BY <2>3 DEF Gain
  <2>5. /\ Worth(map, s, ts, k + 1) = Worth(map, s, ts, k) + Gain(map, s, ts, k + 1)
        /\ Worth(map, s, us, k + 1) = Worth(map, s, us, k) + Gain(map, s, us, k + 1)
    BY <2>1, WorthIs
  <2> QED BY <1>2, <2>1, <2>4, <2>5
<1>3. n \in S
  <2> HIDE DEF S
  <2> QED BY <1>1, <1>2, UpTo, n \in 0..n
<1> QED BY <1>3

\* A sum may take any element first.
AnyFirst(f, g, D) == \A s \in SUBSET D : \A x \in s : g[s] = f[x] + g[s \ {x}]
LEMMA SumsTakeAny ==
  ASSUME NEW D, IsFiniteSet(D), NEW f \in [D -> Int], NEW g \in [SUBSET D -> Int], Sums(f, g, SUBSET D)
  PROVE  AnyFirst(f, g, D)
<1> DEFINE Free(q) == \A y \in q : g[q] = f[y] + g[q \ {y}]
           S == {m \in 0..Cardinality(D) : \A q \in UpToSize(D, m) : Free(q)}
<1>1. Cardinality(D) \in Nat
  BY FS_CardinalityType
<1>2. 0 \in S
  <2>1. \A q \in UpToSize(D, 0) : q = {}
    BY OnlyEmpty
  <2>2. \A q \in UpToSize(D, 0) : Free(q)
    BY <2>1
  <2>3. 0 \in 0..Cardinality(D)
    BY <1>1
  <2> QED BY <2>2, <2>3
<1>3. ASSUME NEW m \in 0..Cardinality(D) - 1, m \in S PROVE m + 1 \in S
  <2>1. ASSUME NEW q \in UpToSize(D, m + 1), NEW y \in q PROVE g[q] = f[y] + g[q \ {y}]
    <3> DEFINE z == First(q)
    <3>1. q \in SUBSET D /\ IsFiniteSet(q) /\ Cardinality(q) \in Nat /\ Cardinality(q) <= m + 1 /\ y \in D
      BY FS_Subset, FS_CardinalityType DEF UpToSize
    <3>2. z \in q /\ z \in D /\ Others(q) = q \ {z}
      BY <2>1, <3>1, OthersAreFewer DEF Others
    <3>3. \A u \in q : q \ {u} \in SUBSET D /\ Cardinality(q \ {u}) = Cardinality(q) - 1
      BY <3>1, FS_RemoveElement
    <3>4. \A u \in q : q \ {u} \in UpToSize(D, m)
      BY <1>1, <3>1, <3>3 DEF UpToSize
    <3>5. g[q] = f[z] + g[q \ {z}]
      BY <2>1, <3>1, <3>2 DEF Sums
    <3> HIDE DEF z
    <3>6. CASE y = z
      BY <3>5, <3>6
    <3>7. CASE y # z
      <4>1. Free(q \ {z}) /\ Free(q \ {y})
        BY <1>3, <2>1, <3>2, <3>4
      <4>2. y \in q \ {z} /\ z \in q \ {y} /\ (q \ {z}) \ {y} = (q \ {y}) \ {z}
        BY <2>1, <3>2, <3>7
      <4>3. g[q \ {z}] = f[y] + g[(q \ {z}) \ {y}] /\ g[q \ {y}] = f[z] + g[(q \ {z}) \ {y}]
        BY <4>1, <4>2
      <4>4. (q \ {z}) \ {y} \in SUBSET D
        BY <3>1
      <4>5. f[y] \in Int /\ f[z] \in Int /\ g[(q \ {z}) \ {y}] \in Int
        BY <3>1, <3>2, <4>4
      <4> QED BY <3>5, <4>3, <4>5
    <3> QED BY <3>6, <3>7
  <2>2. \A q \in UpToSize(D, m + 1) : Free(q)
    BY <2>1
  <2>3. m + 1 \in 0..Cardinality(D)
    BY <1>1
  <2> HIDE DEF Free
  <2> QED BY <2>2, <2>3
<1>4. Cardinality(D) \in S
  <2>1. Cardinality(D) \in 0..Cardinality(D)
    BY <1>1
  <2> HIDE DEF S
  <2> QED BY <1>1, <1>2, <1>3, <2>1, UpTo
<1>5. \A s \in SUBSET D : s \in UpToSize(D, Cardinality(D))
  BY FS_Subset DEF UpToSize
<1> QED BY <1>4, <1>5 DEF AnyFirst

\* A sum over 1 .. n is what adding up one after the other comes to.
LEMMA WorthIsSum ==
  ASSUME NEW map \in WeightMaps, NEW s, NEW ts, NEW n \in Nat,
         NEW f \in [1..n -> Int], \A m \in 1..n : f[m] = Gain(map, s, ts, m)
  PROVE  SumFunction(f) = Worth(map, s, ts, n)
<1>1. IsFiniteSet(1..n)
  BY FS_Interval
<1>2. PICK g \in [SUBSET (1..n) -> Int] : Sums(f, g, SUBSET (1..n)) /\ SumFunction(f) = g[1..n]
  BY <1>1, SumIs
<1> DEFINE S == {k \in 0..n : g[1..k] = Worth(map, s, ts, k)}
<1>3. 0 \in S
  <2>1. g[{}] = 0
    BY <1>2 DEF Sums
  <2>2. 1..0 = {}
    OBVIOUS
  <2>3. Worth(map, s, ts, 0) = 0
    BY WorthIs
  <2>4. g[1..0] = 0
    BY ONLY <2>1, <2>2
  <2>5. 0 \in 0..n /\ g[1..0] = Worth(map, s, ts, 0)
    BY <2>3, <2>4
  <2> QED BY <2>5
<1>4. ASSUME NEW k \in 0..n - 1, k \in S PROVE k + 1 \in S
  <2> DEFINE D == 1..n
             q == 1..k + 1
             x == k + 1
  <2>1. k \in Nat /\ x \in 1..n /\ x \in q /\ q \in SUBSET D /\ q \ {x} = 1..k
    OBVIOUS
  <2>2. IsFiniteSet(D) /\ f \in [D -> Int] /\ g \in [SUBSET D -> Int] /\ Sums(f, g, SUBSET D)
    BY <1>1, <1>2
  <2> HIDE DEF D, q, x
  <2>3. g[q] = f[x] + g[q \ {x}]
    <3>1. AnyFirst(f, g, D)
      BY <2>2, SumsTakeAny
    <3> QED BY <2>1, <3>1 DEF AnyFirst
  <2>4. g[1..k] = Worth(map, s, ts, k) /\ f[x] = Gain(map, s, ts, x)
    BY <1>4, <2>1
  <2>5. g[1..k + 1] = Worth(map, s, ts, k + 1)
    <3>1. /\ Worth(map, s, ts, k + 1) = Worth(map, s, ts, k) + Gain(map, s, ts, k + 1)
          /\ Worth(map, s, ts, k) \in Int /\ Gain(map, s, ts, k + 1) \in Int
      BY <2>1, WorthIs
    <3>2. g[q] = Gain(map, s, ts, k + 1) + Worth(map, s, ts, k)
      BY <2>1, <2>3, <2>4 DEF x
    <3>3. g[q] = Worth(map, s, ts, k + 1)
      BY <3>1, <3>2
    <3> QED BY <3>3 DEF q
  <2>6. k + 1 \in 0..n
    OBVIOUS
  <2> QED BY <2>5, <2>6
<1>5. n \in S
  <2> HIDE DEF S
  <2> QED BY <1>3, <1>4, UpTo, n \in 0..n
<1> QED BY <1>2, <1>5
-----------------------------------------------------------------------------
(* The nodes of a position are the best ways to their histories.             *)

Taggings(s) == {ts \in [DOMAIN s -> Nat] : \A k \in DOMAIN s : ts[k] < Width(s, k)}

\* The tags of the path to a node.
PathTags(f, p, k) == [m \in 1..k + 1 |-> TagAt(f, p, k + 1 - m)]
EndsLike(f, p, ts, k) == \A n \in 0..Depth(k) : TagAt(f, p, n) = ts[k + 1 - n]

\* The nodes a .. b - 1 of position k: their scores are those of their paths, but for the same
\* difference z, and no way to choose tags is better than the node with its history.
Ranked(map, s, f, a, b, k, z) ==
  /\ \A p \in a..b - 1 : ScoreOf(f, p) \in Int /\ ScoreOf(f, p) + z = Worth(map, s, PathTags(f, p, k), k + 1)
  /\ \A ts \in Taggings(s) : \E p \in a..b - 1 :
       EndsLike(f, p, ts, k) /\ Worth(map, s, ts, k + 1) <= ScoreOf(f, p) + z

\* What the tag t behind the node r adds, and the score that a node for it has; no turn of the position adds
\* anything if it is to skip the scores.
TurnWindow(f, t, r, k) == [n \in 1..window_size |-> IF n <= k + 1 THEN Entry(f, t, r, n - 1) ELSE -1]
Merit(map, s, f, k, t, r) == FullScore(map, s, k, TurnWindow(f, t, r, k), no_dynamic)
TurnScore(map, s, f, k, skip, t, r) == (IF skip THEN 0 ELSE Merit(map, s, f, k, t, r)) + ScoreOf(f, r)

\* The nodes b .. c - 1 are made by turns, and that of the tag t behind the node r has one as good as it.
Made(map, s, f, k, skip, a, b, c) ==
  \A p \in b..c - 1 : /\ f[p + 1].tag \in 0..Width(s, k + 1) - 1 /\ f[p + 1].prev \in a..b - 1
                      /\ f[p + 1].score = TurnScore(map, s, f, k, skip, f[p + 1].tag, f[p + 1].prev)
Covered(map, s, f, k, skip, b, c, t, r) ==
  \E p \in b..c - 1 : Hist(f, p, k) = Candidate(f, t, r, k) /\ TurnScore(map, s, f, k, skip, t, r) <= f[p + 1].score

LEMMA DepthBefore ==
  ASSUME NEW k \in Nat
  PROVE  /\ Depth(k - 1) \in Int /\ Depth(k) \in Nat /\ Depth(k) <= Depth(k - 1) + 1 /\ Depth(k) <= k
         /\ Depth(k - 1) = k - 1 \/ Depth(k - 1) = decoding_order - 2
         /\ decoding_order \in Nat /\ decoding_order >= 2
BY OrderAssumption, WindowAssumption DEF Depth

\* What a turn adds to a choice of tags that ends like the path to its node.
LEMMA MeritIsGain ==
  ASSUME NEW map, Near(map), NEW s, NEW k \in Nat, NEW f, NEW ts, NEW r, EndsLike(f, r, ts, k - 1)
  PROVE  Merit(map, s, f, k, ts[k + 1], r) = Gain(map, s, ts, k + 1)
<1> DEFINE v == TurnWindow(f, ts[k + 1], r, k)
           w == WindowAt(ts, k + 1)
<1>1. ASSUME NEW n \in 1..decoding_order, n <= k + 1 PROVE v[n] = w[n]
  <2>1. decoding_order \in Nat /\ decoding_order <= window_size /\ window_size \in Nat
    BY OrderAssumption, WindowAssumption
  <2>2. n \in 1..window_size /\ n \in Nat /\ n >= 1
    BY <2>1
  <2>3. v[n] = Entry(f, ts[k + 1], r, n - 1) /\ w[n] = ts[k + 1 - n + 1]
    BY <1>1, <2>2 DEF TurnWindow, WindowAt
  <2>4. CASE n = 1
    <3>1. n - 1 = 0 /\ k + 1 - n + 1 = k + 1
      BY <2>4
    <3> QED BY <2>3, <3>1 DEF Entry
  <2>5. CASE n # 1
    <3>1. n - 2 \in 0..Depth(k - 1)
      <4>1. Depth(k - 1) \in Int /\ (Depth(k - 1) = k - 1 \/ Depth(k - 1) = decoding_order - 2)
        BY DepthBefore
      <4>2. n - 2 <= k - 1 /\ n - 2 <= decoding_order - 2 /\ n - 2 \in Nat
        BY <1>1, <2>1, <2>2, <2>5
      <4>3. \A d \in Int : n - 2 <= d /\ n - 2 \in Nat => n - 2 \in 0..d
        BY <2>2
      <4> QED BY <4>1, <4>2, <4>3
    <3>2. TagAt(f, r, n - 2) = ts[(k - 1) + 1 - (n - 2)]
      BY <3>1 DEF EndsLike
    <3>3. n - 1 # 0 /\ (n - 1) - 1 = n - 2 /\ (k - 1) + 1 - (n - 2) = k + 1 - n + 1
      BY <2>2, <2>5
    <3>4. Entry(f, ts[k + 1], r, n - 1) = TagAt(f, r, n - 2)
      BY <3>3 DEF Entry
    <3> QED BY <2>3, <3>2, <3>3, <3>4
  <2> QED BY <2>4, <2>5
<1>2. Alike(v, w, k)
  BY <1>1 DEF Alike
<1> HIDE DEF v, w
<1>3. FullScore(map, s, k, v, no_dynamic) = FullScore(map, s, k, w, no_dynamic)
  BY <1>2, ScoreSeen
<1>4. (k + 1) - 1 = k
  OBVIOUS
<1> QED BY <1>3, <1>4 DEF v, w, Merit, Gain

\* The path of a node that a turn made, and what it is worth.
LEMMA PathIs ==
  ASSUME NEW f, NEW k \in Nat, NEW p \in Nat
  PROVE  /\ \A n \in Nat : TagAt(f, p, n) = Entry(f, f[p + 1].tag, f[p + 1].prev, n)
         /\ \A m \in 1..k : PathTags(f, p, k)[m] = PathTags(f, f[p + 1].prev, k - 1)[m]
         /\ WindowAt(PathTags(f, p, k), k + 1) = TurnWindow(f, f[p + 1].tag, f[p + 1].prev, k)
<1> DEFINE t == f[p + 1].tag
           r == f[p + 1].prev
<1>1. ASSUME NEW n \in Nat PROVE TagAt(f, p, n) = Entry(f, t, r, n)
  <2>1. CASE n = 0
    BY <2>1, BackIs DEF TagAt, Entry
  <2>2. CASE n # 0
    <3> DEFINE m == n - 1
    <3>1. m \in Nat /\ n = m + 1
      BY <2>2
    <3> HIDE DEF m
    <3>2. \A q \in Nat : Back(f, p, q + 1) = Back(f, f[p + 1].prev, q)
      BY BackFirst
    <3>3. Back(f, p, n) = Back(f, r, m)
      BY <3>1, <3>2
    <3>4. TagAt(f, p, n) = TagAt(f, r, m)
      BY <3>3 DEF TagAt
    <3> QED BY <2>2, <3>4 DEF m, Entry
  <2> QED BY <2>1, <2>2
<1> HIDE DEF t, r
<1>2. ASSUME NEW m \in 1..k PROVE PathTags(f, p, k)[m] = PathTags(f, r, k - 1)[m]
  <2>1. m \in 1..k + 1 /\ m \in 1..(k - 1) + 1 /\ k + 1 - m \in Nat /\ k + 1 - m # 0 /\ (k + 1 - m) - 1 = (k - 1) + 1 - m
    OBVIOUS
  <2>2. TagAt(f, p, k + 1 - m) = Entry(f, t, r, k + 1 - m)
    BY <1>1, <2>1
  <2>3. Entry(f, t, r, k + 1 - m) = TagAt(f, r, (k - 1) + 1 - m)
    BY <2>1 DEF Entry
  <2> QED BY <2>1, <2>2, <2>3 DEF PathTags
<1>3. WindowAt(PathTags(f, p, k), k + 1) = TurnWindow(f, t, r, k)
  <2>1. ASSUME NEW n \in 1..window_size
        PROVE  (IF n <= k + 1 THEN PathTags(f, p, k)[(k + 1) - n + 1] ELSE -1) = (IF n <= k + 1 THEN Entry(f, t, r, n - 1) ELSE -1)
    <3>1. CASE n <= k + 1
      <4> DEFINE m == (k + 1) - n + 1
      <4>1. n \in Nat /\ n >= 1
        BY WindowAssumption
      <4>2. m \in 1..k + 1 /\ k + 1 - m = n - 1 /\ n - 1 \in Nat
        BY <3>1, <4>1
      <4>3. PathTags(f, p, k)[m] = TagAt(f, p, n - 1)
        BY <4>2 DEF PathTags
      <4>4. TagAt(f, p, n - 1) = Entry(f, t, r, n - 1)
        BY <1>1, <4>2
      <4> HIDE DEF m
      <4>5. PathTags(f, p, k)[m] = Entry(f, t, r, n - 1)
        BY <4>3, <4>4
      <4> QED BY <3>1, <4>5 DEF m
    <3>2. CASE ~ (n <= k + 1)
      BY <3>2
    <3> QED BY <3>1, <3>2
  <2> QED BY <2>1 DEF WindowAt, TurnWindow
<1> QED BY <1>1, <1>2, <1>3 DEF t, r

LEMMA PathWorth ==
  ASSUME NEW map \in WeightMaps, NEW s, NEW f, NEW k \in Nat, NEW p \in Nat, NEW t, NEW r, NodeAt(f, p, t, r)
  PROVE  Worth(map, s, PathTags(f, p, k), k + 1) = Worth(map, s, PathTags(f, r, k - 1), k) + Merit(map, s, f, k, t, r)
<1> DEFINE ts == PathTags(f, p, k)
<1>1. t = f[p + 1].tag /\ r = f[p + 1].prev
  BY DEF NodeAt
<1>2. /\ \A m \in 1..k : ts[m] = PathTags(f, r, k - 1)[m]
      /\ WindowAt(ts, k + 1) = TurnWindow(f, t, r, k)
  BY <1>1, PathIs, Zenon
<1> HIDE DEF ts
<1>3. Worth(map, s, ts, k + 1) = Worth(map, s, ts, k) + Gain(map, s, ts, k + 1)
  BY WorthIs
<1>4. Worth(map, s, ts, k) = Worth(map, s, PathTags(f, r, k - 1), k)
  BY <1>2, WorthSame
<1>5. (k + 1) - 1 = k
  OBVIOUS
<1>6. Gain(map, s, ts, k + 1) = Merit(map, s, f, k, t, r)
  BY <1>2, <1>5 DEF Gain, Merit
<1> QED BY <1>3, <1>4, <1>6 DEF ts

\* After all the turns of a position its nodes are ranked.
LEMMA RankedGrows ==
  ASSUME NEW map \in WeightMaps, Near(map), NEW s, Analyzed(s), NEW k \in Nat, k < Len(s), NEW f,
         NEW a \in Int, NEW b \in Nat, NEW c \in Nat, NEW skip \in BOOLEAN, skip => a + 1 = b /\ Width(s, k + 1) = 1,
         NEW z \in Int, Ranked(map, s, f, a, b, k - 1, z), Made(map, s, f, k, skip, a, b, c),
         \A t \in 0..Width(s, k + 1) - 1 : \A r \in a..b - 1 : Covered(map, s, f, k, skip, b, c, t, r)
  PROVE  \E y \in Int : Ranked(map, s, f, b, c, k, y)
<1> DEFINE y == z + (IF skip THEN Merit(map, s, f, k, 0, a) ELSE 0)
<1>1. \A t, r : Merit(map, s, f, k, t, r) \in Int
  BY FullScoreType DEF Merit
<1>2. k + 1 \in 1..Len(s) /\ k + 1 \in DOMAIN s /\ Width(s, k + 1) \in Nat /\ (k - 1) + 1 = k
  <2>1. k + 1 \in 1..Len(s)
    BY DEF Analyzed
  <2>2. Width(s, k + 1) \in Nat /\ DOMAIN s = 1..Len(s)
    BY <2>1, WidthIs DEF Analyzed
  <2> QED BY <2>1, <2>2
<1>3. /\ \A p \in a..b - 1 : ScoreOf(f, p) \in Int /\ ScoreOf(f, p) + z = Worth(map, s, PathTags(f, p, k - 1), k)
      /\ \A ts \in Taggings(s) : \E p \in a..b - 1 : EndsLike(f, p, ts, k - 1) /\ Worth(map, s, ts, k) <= ScoreOf(f, p) + z
  BY <1>2 DEF Ranked
<1>4. y \in Int
  BY <1>1
<1>5. ASSUME NEW t \in 0..Width(s, k + 1) - 1, NEW r \in a..b - 1
      PROVE  /\ TurnScore(map, s, f, k, skip, t, r) \in Int
             /\ TurnScore(map, s, f, k, skip, t, r) + y = ScoreOf(f, r) + z + Merit(map, s, f, k, t, r)
  <2>1. ScoreOf(f, r) \in Int /\ Merit(map, s, f, k, t, r) \in Int /\ Merit(map, s, f, k, 0, a) \in Int
    BY <1>1, <1>3
  <2>2. CASE skip
    <3>1. t = 0 /\ r = a
      BY <2>2
    <3> QED BY <2>1, <2>2, <3>1 DEF TurnScore
  <2>3. CASE ~ skip
    BY <2>1, <2>3 DEF TurnScore
  <2> QED BY <2>2, <2>3
<1> HIDE DEF y
<1>6. ASSUME NEW p \in b..c - 1
      PROVE  ScoreOf(f, p) \in Int /\ ScoreOf(f, p) + y = Worth(map, s, PathTags(f, p, k), k + 1)
  <2> DEFINE t == f[p + 1].tag
             r == f[p + 1].prev
  <2>1. t \in 0..Width(s, k + 1) - 1 /\ r \in a..b - 1 /\ f[p + 1].score = TurnScore(map, s, f, k, skip, t, r)
    BY DEF Made
  <2>2. p \in Nat /\ ScoreOf(f, p) = f[p + 1].score /\ NodeAt(f, p, t, r)
    BY DEF ScoreOf, NodeAt
  <2> HIDE DEF t, r
  <2>3. Worth(map, s, PathTags(f, p, k), k + 1) = Worth(map, s, PathTags(f, r, k - 1), k) + Merit(map, s, f, k, t, r)
    BY <2>2, PathWorth
  <2>4. ScoreOf(f, r) + z = Worth(map, s, PathTags(f, r, k - 1), k)
    BY <1>3, <2>1
  <2> QED BY <1>5, <2>1, <2>2, <2>3, <2>4
<1>7. ASSUME NEW ts \in Taggings(s)
      PROVE  \E p \in b..c - 1 : EndsLike(f, p, ts, k) /\ Worth(map, s, ts, k + 1) <= ScoreOf(f, p) + y
  <2> DEFINE t == ts[k + 1]
  <2>1. PICK r \in a..b - 1 : EndsLike(f, r, ts, k - 1) /\ Worth(map, s, ts, k) <= ScoreOf(f, r) + z
    BY <1>3
  <2>2. t \in 0..Width(s, k + 1) - 1
    BY <1>2 DEF Taggings
  <2>3. Merit(map, s, f, k, t, r) = Gain(map, s, ts, k + 1)
    BY <2>1, MeritIsGain
  <2> HIDE DEF t
  <2>4. PICK p \in b..c - 1 : Hist(f, p, k) = Candidate(f, t, r, k) /\ TurnScore(map, s, f, k, skip, t, r) <= f[p + 1].score
    BY <2>2 DEF Covered
  <2>5. ASSUME NEW n \in 0..Depth(k) PROVE TagAt(f, p, n) = ts[k + 1 - n]
    <3>1. TagAt(f, p, n) = Entry(f, t, r, n)
      <4>1. Hist(f, p, k)[n] = TagAt(f, p, n) /\ Candidate(f, t, r, k)[n] = Entry(f, t, r, n)
        BY DEF Hist, Candidate
      <4> QED BY <2>4, <4>1
    <3>2. CASE n = 0
      BY <3>1, <3>2 DEF Entry, t
    <3>3. CASE n # 0
      <4>1. n - 1 \in 0..Depth(k - 1) /\ (k - 1) + 1 - (n - 1) = k + 1 - n
        <5>1. Depth(k - 1) \in Int /\ Depth(k) \in Nat /\ Depth(k) <= Depth(k - 1) + 1
          BY DepthBefore
        <5>2. \A d \in Int, e, m \in Nat : e <= d + 1 /\ m <= e /\ m # 0 => m - 1 \in 0..d
          OBVIOUS
        <5>3. n \in Nat /\ n <= Depth(k)
          BY <5>1
        <5>4. n - 1 \in 0..Depth(k - 1)
          BY <3>3, <5>1, <5>2, <5>3
        <5> QED BY <5>3, <5>4
      <4>2. TagAt(f, r, n - 1) = ts[(k - 1) + 1 - (n - 1)]
        BY <2>1, <4>1 DEF EndsLike
      <4> QED BY <3>1, <3>3, <4>1, <4>2 DEF Entry
    <3> QED BY <3>2, <3>3
  <2>6. Worth(map, s, ts, k + 1) <= ScoreOf(f, p) + y
    <3>1. Worth(map, s, ts, k + 1) = Worth(map, s, ts, k) + Gain(map, s, ts, k + 1) /\ Worth(map, s, ts, k) \in Int
      BY WorthIs
    <3>2. ScoreOf(f, r) \in Int /\ Merit(map, s, f, k, t, r) \in Int /\ ScoreOf(f, p) \in Int
      BY <1>1, <1>3, <1>6
    <3>3. /\ TurnScore(map, s, f, k, skip, t, r) \in Int
          /\ TurnScore(map, s, f, k, skip, t, r) + y = ScoreOf(f, r) + z + Merit(map, s, f, k, t, r)
      BY <1>5, <2>2
    <3>4. ScoreOf(f, p) = f[p + 1].score
      BY DEF ScoreOf
    <3>5. \A w, x, m, o, q, u \in Int : w <= x + z /\ u + y = x + z + m /\ u <= o => w + m <= o + y
      BY <1>4
    <3>6. f[p + 1].score \in Int
      BY <3>2, <3>4
    <3> QED BY <2>1, <2>3, <2>4, <3>1, <3>2, <3>3, <3>4, <3>5, <3>6, Zenon
  <2> QED BY <2>5, <2>6 DEF EndsLike
<1> QED BY <1>4, <1>6, <1>7 DEF Ranked

\* Two vectors have the same paths to the nodes a .. b - 1 of position k.
SamePaths(f, g, a, b, k) ==
  \A p \in a..b - 1 : ScoreOf(g, p) = ScoreOf(f, p) /\ \A n \in 0..k : TagAt(g, p, n) = TagAt(f, p, n)

LEMMA RankedKept ==
  ASSUME NEW map, NEW s, NEW f, NEW g, NEW a \in Int, NEW b \in Nat, NEW k \in Int, k >= -1, SamePaths(f, g, a, b, k),
         NEW z, Ranked(map, s, f, a, b, k, z)
  PROVE  Ranked(map, s, g, a, b, k, z)
<1>1. ASSUME NEW p \in a..b - 1
      PROVE  ScoreOf(g, p) = ScoreOf(f, p) /\ PathTags(g, p, k) = PathTags(f, p, k) /\ \A ts : EndsLike(f, p, ts, k) => EndsLike(g, p, ts, k)
  <2>1. ScoreOf(g, p) = ScoreOf(f, p) /\ \A n \in 0..k : TagAt(g, p, n) = TagAt(f, p, n)
    BY DEF SamePaths
  <2>2. \A m \in 1..k + 1 : k + 1 - m \in 0..k
    OBVIOUS
  <2>3. \A n \in 0..Depth(k) : n \in 0..k
    BY OrderAssumption, WindowAssumption DEF Depth
  <2> QED BY <2>1, <2>2, <2>3 DEF PathTags, EndsLike
<1>2. ASSUME NEW ts \in Taggings(s)
      PROVE  \E p \in a..b - 1 : EndsLike(g, p, ts, k) /\ Worth(map, s, ts, k + 1) <= ScoreOf(g, p) + z
  <2>1. PICK p \in a..b - 1 : EndsLike(f, p, ts, k) /\ Worth(map, s, ts, k + 1) <= ScoreOf(f, p) + z
    BY DEF Ranked
  <2> QED BY <1>1, <2>1
<1>3. ASSUME NEW p \in a..b - 1
      PROVE  ScoreOf(g, p) \in Int /\ ScoreOf(g, p) + z = Worth(map, s, PathTags(g, p, k), k + 1)
  BY <1>1 DEF Ranked
<1> QED BY <1>2, <1>3 DEF Ranked

LEMMA TurnKept ==
  ASSUME NEW map, NEW s, NEW f, NEW g, NEW a \in Int, NEW b \in Nat, NEW k \in Nat, SamePaths(f, g, a, b, k - 1),
         NEW t, NEW r \in a..b - 1, NEW skip
  PROVE  /\ TurnScore(map, s, g, k, skip, t, r) = TurnScore(map, s, f, k, skip, t, r)
         /\ Candidate(g, t, r, k) = Candidate(f, t, r, k)
<1>1. ScoreOf(g, r) = ScoreOf(f, r) /\ \A n \in 0..k - 1 : TagAt(g, r, n) = TagAt(f, r, n)
  BY DEF SamePaths
<1>2. ASSUME NEW n \in 0..k PROVE Entry(g, t, r, n) = Entry(f, t, r, n)
  <2>1. n # 0 => n - 1 \in 0..k - 1
    OBVIOUS
  <2> QED BY <1>1, <2>1 DEF Entry
<1>3. TurnWindow(g, t, r, k) = TurnWindow(f, t, r, k)
  <2>1. \A n \in 1..window_size : n <= k + 1 => n - 1 \in 0..k
    BY WindowAssumption
  <2> QED BY <1>2, <2>1 DEF TurnWindow
<1>4. Candidate(g, t, r, k) = Candidate(f, t, r, k)
  <2>1. \A n \in 0..Depth(k) : n \in 0..k
    BY DepthIs
  <2> QED BY <1>2, <2>1 DEF Candidate
<1> QED BY <1>1, <1>3, <1>4 DEF TurnScore, Merit

\* A turn writes its node behind the others, or in place of a worse one with the same history.
LEMMA TurnWritten ==
  ASSUME NEW map, NEW s, NEW k \in Nat, NEW f, NEW g, NEW a \in Int, NEW b \in Nat, NEW c \in Nat, NEW skip, NEW t, NEW r,
         NEW place \in b..c, KeptBefore(f, g, place), Level(f, s, b, c, k), SamePaths(f, g, a, b, k - 1),
         t \in 0..Width(s, k + 1) - 1, r \in a..b - 1, NodeAt(g, place, t, r), Continues(g, place, f, t, r, k),
         \A p \in b..c - 1 : f[p + 1].score \in Int, \A u : \A q \in a..b - 1 : TurnScore(map, s, f, k, skip, u, q) \in Int,
         g[place + 1].score = TurnScore(map, s, f, k, skip, t, r),
         place = c \/ (place = c - 1 /\ Hist(f, place, k) = Candidate(f, t, r, k) /\ f[place + 1].score <= TurnScore(map, s, f, k, skip, t, r)),
         Made(map, s, f, k, skip, a, b, c)
  PROVE  /\ Made(map, s, g, k, skip, a, b, place + 1)
         /\ Covered(map, s, g, k, skip, b, place + 1, t, r)
         /\ \A u : \A q \in a..b - 1 : Covered(map, s, f, k, skip, b, c, u, q) => Covered(map, s, g, k, skip, b, place + 1, u, q)
<1>1. place \in Nat /\ b <= place
  OBVIOUS
<1>2. ASSUME NEW u, NEW q \in a..b - 1
      PROVE  /\ TurnScore(map, s, g, k, skip, u, q) = TurnScore(map, s, f, k, skip, u, q)
             /\ Candidate(g, u, q, k) = Candidate(f, u, q, k)
  BY TurnKept
<1>3. ASSUME NEW p \in b..place - 1 PROVE g[p + 1] = f[p + 1] /\ Hist(g, p, k) = Hist(f, p, k) /\ p \in b..c - 1
  <2>1. p \in 0..place - 1 /\ p \in b..c - 1
    BY <1>1
  <2>2. Path(f, p, s, k)
    BY <2>1 DEF Level
  <2>3. \A n \in 0..k : TagAt(g, p, n) = TagAt(f, p, n)
    BY <1>1, <2>1, <2>2, PathKept
  <2>4. \A n \in 0..Depth(k) : n \in 0..k
    BY DepthIs
  <2>5. g[p + 1] = f[p + 1]
    BY <2>1 DEF KeptBefore
  <2> QED BY <2>1, <2>3, <2>4, <2>5 DEF Hist
<1>4. Hist(g, place, k) = Candidate(f, t, r, k)
  <2>1. \A n \in 0..Depth(k) : n \in 0..k
    BY DepthIs
  <2> QED BY <2>1 DEF Continues, Hist, Candidate
<1>5. \A p \in b..(place + 1) - 1 : p = place \/ p \in b..place - 1
  BY <1>1
<1>6. place \in b..(place + 1) - 1
  BY <1>1
<1>7. Made(map, s, g, k, skip, a, b, place + 1)
  <2>1. ASSUME NEW p \in b..place - 1
        PROVE  /\ g[p + 1].tag \in 0..Width(s, k + 1) - 1 /\ g[p + 1].prev \in a..b - 1
               /\ g[p + 1].score = TurnScore(map, s, g, k, skip, g[p + 1].tag, g[p + 1].prev)
    BY <1>2, <1>3 DEF Made
  <2>2. /\ g[place + 1].tag \in 0..Width(s, k + 1) - 1 /\ g[place + 1].prev \in a..b - 1
        /\ g[place + 1].score = TurnScore(map, s, g, k, skip, g[place + 1].tag, g[place + 1].prev)
    BY <1>2 DEF NodeAt
  <2> QED BY <1>5, <2>1, <2>2 DEF Made
<1>8. Covered(map, s, g, k, skip, b, place + 1, t, r)
  BY <1>2, <1>4, <1>6 DEF Covered
<1>9. ASSUME NEW u, NEW q \in a..b - 1, Covered(map, s, f, k, skip, b, c, u, q)
      PROVE  Covered(map, s, g, k, skip, b, place + 1, u, q)
  <2>1. PICK p \in b..c - 1 : Hist(f, p, k) = Candidate(f, u, q, k) /\ TurnScore(map, s, f, k, skip, u, q) <= f[p + 1].score
    BY <1>9 DEF Covered
  <2>2. CASE p \in b..place - 1
    <3>1. p \in b..(place + 1) - 1
      BY <1>1, <2>2
    <3> QED BY <1>2, <1>3, <2>1, <2>2, <3>1 DEF Covered
  <2>3. CASE p \notin b..place - 1
    <3>1. place = c - 1 /\ p = place
      BY <1>1, <2>3
    <3>2. Hist(f, place, k) = Candidate(f, t, r, k) /\ f[place + 1].score <= TurnScore(map, s, f, k, skip, t, r)
      BY <3>1
    <3>3. TurnScore(map, s, f, k, skip, u, q) <= g[place + 1].score
      <4>1. f[place + 1].score \in Int /\ TurnScore(map, s, f, k, skip, u, q) \in Int
        BY <2>1, <3>1
      <4> QED BY <2>1, <3>1, <3>2, <4>1
    <3>4. Hist(g, place, k) = Candidate(g, u, q, k)
      BY <1>2, <1>4, <2>1, <3>1, <3>2
    <3> QED BY <1>2, <1>6, <3>3, <3>4 DEF Covered
  <2> QED BY <2>2, <2>3
<1> QED BY <1>7, <1>8, <1>9
-----------------------------------------------------------------------------
(* The decoder keeps its nodes ranked.                                       *)

\* The turns of the position that are over.
Past(t, r) == t < tag \/ (t = tag /\ r < prev)

\* The nodes before the position are ranked, and those of the position will be: they are made by turns,
\* and every turn that is over has one.  In the end no choice is better than the tags returned.
BestInv ==
  Near(weights) =>
    /\ pc = "node" =>
         /\ \E z \in Int : Ranked(weights, sentence, nodes, nodes_prev, nodes_now, i - 1, z)
         /\ Made(weights, sentence, nodes, i, Unscored, nodes_prev, nodes_now, nodes_next)
         /\ \A t \in 0..Width(sentence, i + 1) - 1 : \A r \in nodes_prev..nodes_now - 1 :
              Past(t, r) => Covered(weights, sentence, nodes, i, Unscored, nodes_now, nodes_next, t, r)
    /\ pc = "trace" => \E z \in Int : Ranked(weights, sentence, nodes, nodes_prev, nodes_now, Len(sentence) - 1, z)
    /\ pc = "done" =>
         /\ Analyzed(sentence)
         /\ \A ts \in Taggings(sentence) :
              Worth(weights, sentence, ts, Len(sentence)) <= Worth(weights, sentence, tags, Len(sentence))

\* Before the first form there is one way to no tags.
LEMMA StartIsRanked ==
  ASSUME NEW map \in WeightMaps, NEW s, NEW f
  PROVE  Ranked(map, s, f, -1, 0, -1, 0)
<1>1. ASSUME NEW p \in -1..0 - 1 PROVE p = -1 /\ ScoreOf(f, p) = 0
  BY DEF ScoreOf
<1>2. \A ts : Worth(map, s, ts, 0) = 0
  BY WorthIs
<1>3. \A ts : EndsLike(f, -1, ts, -1)
  <2>1. Depth(-1) = -1
    BY OrderAssumption, WindowAssumption DEF Depth
  <2> QED BY <2>1 DEF EndsLike
<1>4. -1 \in -1..0 - 1 /\ -1 + 1 = 0 /\ ScoreOf(f, -1) = 0
  BY DEF ScoreOf
<1>5. ASSUME NEW p \in -1..0 - 1
      PROVE  ScoreOf(f, p) \in Int /\ ScoreOf(f, p) + 0 = Worth(map, s, PathTags(f, p, -1), -1 + 1)
  BY <1>1, <1>2
<1>6. ASSUME NEW ts \in Taggings(s)
      PROVE  \E p \in -1..0 - 1 : EndsLike(f, p, ts, -1) /\ Worth(map, s, ts, -1 + 1) <= ScoreOf(f, p) + 0
  <2>1. Worth(map, s, ts, -1 + 1) <= ScoreOf(f, -1) + 0
    BY <1>2, <1>4
  <2> QED BY <1>3, <1>4, <2>1
<1> QED BY <1>5, <1>6 DEF Ranked

LEMMA TagBest ==
  ASSUME CacheInv, NEW s \in Sentences, Tag(s)
  PROVE  BestInv'
<1>1. weights' = weights /\ weights \in WeightMaps /\ pc = "idle"
  BY DEF Tag, CacheInv
<1>2. CASE s = <<>> \/ \E k \in DOMAIN s : s[k].tags = <<>>
  <2>1. pc' = pc
    BY <1>2 DEF Tag
  <2> QED BY <1>1, <2>1 DEF BestInv
<1>3. CASE ~ (s = <<>> \/ \E k \in DOMAIN s : s[k].tags = <<>>)
  <2>1. /\ pc' = "node" /\ sentence' = s /\ i' = 0 /\ tag' = 0 /\ prev' = -1
        /\ nodes_prev' = -1 /\ nodes_now' = 0 /\ nodes_next' = 0
    BY <1>3 DEF Tag
  <2>2. Ranked(weights', s, nodes', -1, 0, -1, 0)
    BY <1>1, StartIsRanked
  <2>3. i' - 1 = -1
    BY <2>1
  <2>4. \E z \in Int : Ranked(weights', sentence', nodes', nodes_prev', nodes_now', i' - 1, z)
    BY <2>1, <2>2, <2>3
  <2>5. Made(weights', sentence', nodes', i', Unscored', nodes_prev', nodes_now', nodes_next')
    BY <2>1 DEF Made
  <2>6. \A t \in 0..Width(sentence', i' + 1) - 1 : \A r \in nodes_prev'..nodes_now' - 1 : ~ Past(t, r)'
    BY <2>1 DEF Past
  <2> QED BY <2>1, <2>4, <2>5, <2>6 DEF BestInv
<1> QED BY <1>2, <1>3

\* The score of a turn: a window has the tags that near weights see.
LEMMA NewScoreIs ==
  ASSUME IInv, CacheInv, Near(weights), Consider
  PROVE  NewScore = TurnScore(weights, sentence, nodes, i, Unscored, tag, prev)
<1>1. /\ pc = "node" /\ tag < Size(i) /\ window' = NextWindow(tag, prev)
      /\ UNCHANGED <<weights, sentence, pc, i, nodes_prev, nodes_now>>
      /\ IF prev + 1 < nodes_now THEN prev' = prev + 1 /\ tag' = tag ELSE prev' = nodes_prev /\ tag' = tag + 1
  BY ConsiderIs
<1>2. CASE Unscored
  BY <1>2 DEF NewScore, TurnScore
<1>3. CASE ~ Unscored
  <2>1. LoopInv /\ WindowInv
    BY <1>1 DEF IInv
  <2>2. Turn(nodes, sentence, nodes_prev, nodes_now, i, tag, prev)
    BY PlaceIs
  <2>3. nodes_prev \in Int /\ nodes_prev <= prev /\ prev \in Int /\ tag \in Nat /\ i \in Nat
    BY <2>1, <2>2 DEF LoopInv, Turn, Analyzed
  <2>4. Begun' /\ ~ Unscored'
    <3>1. Unscored' <=> Unscored
      BY <1>1 DEF Unscored, Size
    <3>2. tag' # 0 \/ prev' # nodes_prev
      BY <1>1, <2>3
    <3> QED BY <1>1, <1>3, <3>1, <3>2 DEF Begun
  <2>5. Consistent(features', weights) /\ KeysOf(features', sentence, i, window', dynamic')
    <3>1. CacheInv'
      BY ConsiderCache
    <3> QED BY <1>1, <2>4, <3>1 DEF CacheInv
  <2>6. features'.score = FullScore(weights, sentence, i, window', dynamic')
    BY <2>5, ExactIs
  <2>7. Alike(window', TurnWindow(nodes, tag, prev, i), i)
    <3>1. \A n \in 0..i : n < window_size => NextWindow(tag, prev)[n + 1] = Entry(nodes, tag, prev, n)
      BY <2>1, <2>2, <2>3, WindowIs DEF WindowInv
    <3>2. ASSUME NEW n \in 1..decoding_order, n <= i + 1 PROVE window'[n] = TurnWindow(nodes, tag, prev, i)[n]
      <4>1. n - 1 \in 0..i /\ n - 1 < window_size /\ n \in 1..window_size /\ (n - 1) + 1 = n
        BY <2>3, <3>2, DepthIs
      <4>2. NextWindow(tag, prev)[(n - 1) + 1] = Entry(nodes, tag, prev, n - 1)
        BY <3>1, <4>1
      <4> QED BY <1>1, <3>2, <4>1, <4>2 DEF TurnWindow
    <3> QED BY <3>2 DEF Alike
  <2>8. features'.score = Merit(weights, sentence, nodes, i, tag, prev)
    <3>1. FullScore(weights, sentence, i, window', dynamic') = FullScore(weights, sentence, i, TurnWindow(nodes, tag, prev, i), no_dynamic)
      BY <2>3, <2>7, ScoreSeen
    <3> QED BY <2>6, <3>1 DEF Merit
  <2> QED BY <1>3, <2>8 DEF NewScore, TurnScore
<1> QED BY <1>2, <1>3

\* A node written behind those of the position before leaves their paths.
LEMMA BeforeKept ==
  ASSUME NEW f, NEW g, NEW s, NEW a \in Int, NEW b, NEW k, NEW t, NEW r, Turn(f, s, a, b, k, t, r),
         NEW place \in Nat, b <= place, KeptBefore(f, g, place)
  PROVE  SamePaths(f, g, a, b, k - 1)
<1>1. k \in Nat /\ b \in Nat
  BY DEF Turn, Analyzed
<1>2. ASSUME NEW p \in a..b - 1 PROVE ScoreOf(g, p) = ScoreOf(f, p) /\ \A n \in 0..k - 1 : TagAt(g, p, n) = TagAt(f, p, n)
  <2>1. p >= 0 => p \in 0..place - 1
    BY <1>1
  <2>2. ScoreOf(g, p) = ScoreOf(f, p)
    BY <2>1 DEF ScoreOf, KeptBefore
  <2>3. CASE k = 0
    BY <2>2, <2>3
  <2>4. CASE k # 0
    <3>1. a \in Nat /\ Level(f, s, a, b, k - 1)
      BY <2>4 DEF Turn
    <3>2. Path(f, p, s, k - 1) /\ p \in 0..place - 1 /\ k - 1 \in Nat
      BY <1>1, <2>1, <2>4, <3>1 DEF Level
    <3>3. \A n \in 0..k - 1 : TagAt(g, p, n) = TagAt(f, p, n)
      BY <3>2, PathKept
    <3> QED BY <2>2, <3>3
  <2> QED BY <2>3, <2>4
<1> QED BY <1>2 DEF SamePaths

LEMMA ConsiderBest ==
  ASSUME IInv, CacheInv, BestInv, Consider
  PROVE  BestInv'
<1> SUFFICES ASSUME Near(weights) PROVE BestInv'
  BY ConsiderIs DEF BestInv
<1> DEFINE Score(f, t, r) == TurnScore(weights, sentence, f, i, Unscored, t, r)
           Covers(f, c, t, r) == Covered(weights, sentence, f, i, Unscored, nodes_now, c, t, r)
<1>1. /\ pc = "node" /\ tag < Size(i)
      /\ UNCHANGED <<weights, sentence, pc, i, nodes_prev, nodes_now>>
      /\ IF prev + 1 < nodes_now THEN prev' = prev + 1 /\ tag' = tag ELSE prev' = nodes_prev /\ tag' = tag + 1
  BY ConsiderIs
<1>2. PICK node : /\ node.tag = tag /\ node.prev = prev /\ node.score = NewScore
                  /\ \/ Keeps /\ UNCHANGED <<nodes, nodes_next>>
                     \/ ~ Keeps /\ nodes' = [nodes EXCEPT ![Place + 1] = node] /\ nodes_next' = Place + 1
  BY ConsiderIs
<1>3. /\ LoopInv /\ RoomInv /\ weights \in WeightMaps /\ nodes_next \in Nat
      /\ Turn(nodes, sentence, nodes_prev, nodes_now, i, tag, prev)
  <2>1. LoopInv /\ RoomInv /\ weights \in WeightMaps /\ nodes_next \in Nat
    BY <1>1 DEF IInv, CacheInv
  <2> QED BY <2>1, PlaceIs
<1>4. /\ nodes_prev \in Int /\ nodes_now \in Nat /\ prev \in nodes_prev..nodes_now - 1 /\ i \in Nat
      /\ tag \in Nat /\ tag \in 0..Width(sentence, i + 1) - 1 /\ Width(sentence, i + 1) \in Nat
  <2>1. /\ nodes_prev \in Int /\ nodes_now \in Nat /\ prev \in Int /\ nodes_prev <= prev /\ prev < nodes_now
        /\ tag \in Nat /\ tag < Width(sentence, i + 1) /\ i \in Nat /\ i + 1 \in 1..Len(sentence) /\ Analyzed(sentence)
    BY <1>3 DEF LoopInv, Turn, Analyzed
  <2>2. Width(sentence, i + 1) \in Nat
    BY <2>1, WidthIs
  <2> QED BY <2>1, <2>2
<1>5. PICK z \in Int : Ranked(weights, sentence, nodes, nodes_prev, nodes_now, i - 1, z)
  BY <1>1 DEF BestInv
<1>6. /\ Made(weights, sentence, nodes, i, Unscored, nodes_prev, nodes_now, nodes_next)
      /\ \A t \in 0..Width(sentence, i + 1) - 1 : \A r \in nodes_prev..nodes_now - 1 : Past(t, r) => Covers(nodes, nodes_next, t, r)
  BY <1>1 DEF BestInv
<1>7. Unscored' <=> Unscored
  BY <1>1 DEF Unscored, Size
<1>8. \A t : \A r \in nodes_prev..nodes_now - 1 : Score(nodes, t, r) \in Int
  <2>1. \A r \in nodes_prev..nodes_now - 1 : ScoreOf(nodes, r) \in Int
    BY <1>5 DEF Ranked
  <2>2. \A t, r : Merit(weights, sentence, nodes, i, t, r) \in Int
    BY <1>3, FullScoreType DEF Merit
  <2> QED BY <2>1, <2>2 DEF TurnScore
<1>9. NewScore = Score(nodes, tag, prev) /\ NewScore \in Int
  BY <1>4, <1>8, NewScoreIs
<1>10. \A p \in nodes_now..nodes_next - 1 : nodes[p + 1].score \in Int
  BY <1>6, <1>8 DEF Made
<1>11. ASSUME NEW t \in 0..Width(sentence, i + 1) - 1, NEW r \in nodes_prev..nodes_now - 1, Past(t, r)'
       PROVE  Past(t, r) \/ (t = tag /\ r = prev)
  <2>1. Past(t, r)' <=> t < tag' \/ (t = tag' /\ r < prev')
    BY DEF Past
  <2> QED BY <1>1, <1>4, <1>11, <2>1 DEF Past
<1>12. SUFFICES /\ \E y \in Int : Ranked(weights, sentence, nodes', nodes_prev, nodes_now, i - 1, y)
                /\ Made(weights, sentence, nodes', i, Unscored, nodes_prev, nodes_now, nodes_next')
                /\ Covers(nodes', nodes_next', tag, prev)
                /\ \A t \in 0..Width(sentence, i + 1) - 1 : \A r \in nodes_prev..nodes_now - 1 :
                     Covers(nodes, nodes_next, t, r) => Covers(nodes', nodes_next', t, r)
  <2>1. /\ \E y \in Int : Ranked(weights', sentence', nodes', nodes_prev', nodes_now', i' - 1, y)
        /\ Made(weights', sentence', nodes', i', Unscored', nodes_prev', nodes_now', nodes_next')
    BY <1>1, <1>7, <1>12 DEF Made, TurnScore
  <2>2. ASSUME NEW t \in 0..Width(sentence', i' + 1) - 1, NEW r \in nodes_prev'..nodes_now' - 1, Past(t, r)'
        PROVE  Covered(weights', sentence', nodes', i', Unscored', nodes_now', nodes_next', t, r)
    <3>1. t \in 0..Width(sentence, i + 1) - 1 /\ r \in nodes_prev..nodes_now - 1
      BY <1>1
    <3>2. Covers(nodes', nodes_next', t, r)
      BY <1>6, <1>11, <1>12, <2>2, <3>1
    <3> QED BY <1>1, <1>7, <3>2 DEF Covered, TurnScore
  <2>3. pc' = "node"
    BY <1>1
  <2> QED BY <2>1, <2>2, <2>3 DEF BestInv
<1>13. CASE Keeps /\ UNCHANGED <<nodes, nodes_next>>
  <2> DEFINE p == nodes_next - 1
  <2>1. /\ nodes_now < nodes_next /\ Hist(nodes, nodes_next - 1, i) = Candidate(nodes, tag, prev, i)
        /\ NewScore <= nodes[nodes_next].score
    BY <1>13, PlaceIs DEF Keeps
  <2>2. p \in nodes_now..nodes_next - 1 /\ p + 1 = nodes_next
    BY <1>3, <1>4, <2>1
  <2>3. Hist(nodes, p, i) = Candidate(nodes, tag, prev, i) /\ Score(nodes, tag, prev) <= nodes[p + 1].score
    BY <1>9, <2>1, <2>2
  <2> HIDE DEF p
  <2>4. Covers(nodes, nodes_next, tag, prev)
    BY <2>2, <2>3 DEF Covered
  <2> HIDE DEF Covers
  <2> QED BY <1>5, <1>6, <1>13, <2>4
<1>14. CASE ~ Keeps /\ nodes' = [nodes EXCEPT ![Place + 1] = node] /\ nodes_next' = Place + 1
  <2> DEFINE place == Place
  <2>1. /\ place \in nodes_now..nodes_next
        /\ Merges => Hist(nodes, nodes_next - 1, i) = Candidate(nodes, tag, prev, i) /\ nodes_now < nodes_next
    BY PlaceIs
  <2>2. /\ nodes'[place + 1] = node /\ KeptBefore(nodes, nodes', place) /\ NodeAt(nodes', place, tag, prev)
        /\ Continues(nodes', place, nodes, tag, prev, i)
    BY <1>2, <1>14, WrittenIs
  <2>3. nodes_next' = place + 1
    BY <1>14
  <2>4. \/ place = nodes_next
        \/ /\ place = nodes_next - 1 /\ Hist(nodes, place, i) = Candidate(nodes, tag, prev, i)
           /\ nodes[place + 1].score <= Score(nodes, tag, prev)
    <3>1. CASE ~ Merges
      BY <3>1 DEF Place
    <3>2. CASE Merges
      <4>1. place = nodes_next - 1 /\ place + 1 = nodes_next /\ place \in nodes_now..nodes_next - 1
        BY <1>3, <1>4, <2>1, <3>2 DEF Place
      <4>2. ~ (NewScore <= nodes[nodes_next].score)
        BY <1>14, <3>2 DEF Keeps
      <4> HIDE DEF place, Score
      <4>3. nodes[place + 1].score \in Int
        BY <1>10, <4>1
      <4>4. nodes[place + 1].score <= Score(nodes, tag, prev)
        BY <1>9, <4>1, <4>2, <4>3
      <4> QED BY <2>1, <3>2, <4>1, <4>4
    <3> QED BY <3>1, <3>2
  <2> HIDE DEF place
  <2>5. place \in Nat /\ nodes_now <= place
    BY <1>3, <1>4, <2>1
  <2>6. SamePaths(nodes, nodes', nodes_prev, nodes_now, i - 1)
    BY <1>3, <1>4, <2>2, <2>5, BeforeKept
  <2>7. Ranked(weights, sentence, nodes', nodes_prev, nodes_now, i - 1, z)
    BY <1>4, <1>5, <2>6, RankedKept
  <2>8. nodes'[place + 1].score = Score(nodes, tag, prev)
    BY <1>2, <1>9, <2>2
  <2>9. Level(nodes, sentence, nodes_now, nodes_next, i)
    BY <1>3 DEF RoomInv
  <2>10. /\ Made(weights, sentence, nodes', i, Unscored, nodes_prev, nodes_now, place + 1)
         /\ Covers(nodes', place + 1, tag, prev)
    BY <1>3, <1>4, <1>6, <1>8, <1>10, <2>1, <2>2, <2>4, <2>6, <2>8, <2>9, TurnWritten
  <2>11. \A t : \A r \in nodes_prev..nodes_now - 1 : Covers(nodes, nodes_next, t, r) => Covers(nodes', place + 1, t, r)
    BY <1>3, <1>4, <1>6, <1>8, <1>10, <2>1, <2>2, <2>4, <2>6, <2>8, <2>9, TurnWritten
  <2> HIDE DEF Covers
  <2> QED BY <2>3, <2>7, <2>10, <2>11
<1> QED BY <1>2, <1>13, <1>14

LEMMA NextFormBest ==
  ASSUME IInv, CacheInv, BestInv, NextForm
  PROVE  BestInv'
<1> SUFFICES ASSUME Near(weights) PROVE BestInv'
  BY DEF BestInv, NextForm
<1>1. /\ pc = "node" /\ tag = Size(i)
      /\ nodes_prev' = nodes_now /\ nodes_now' = nodes_next /\ nodes_next' = nodes_next
      /\ i' = i + 1 /\ tag' = 0 /\ prev' = nodes_now
      /\ nodes' = nodes /\ sentence' = sentence /\ weights' = weights
      /\ pc' = IF i + 1 = Len(sentence) THEN "trace" ELSE "node"
  BY DEF NextForm
<1>2. /\ LoopInv /\ weights \in WeightMaps /\ nodes_next \in Nat
  BY <1>1 DEF IInv, CacheInv
<1>3. /\ Analyzed(sentence) /\ Len(sentence) \in Nat /\ i \in Nat /\ i < Len(sentence) /\ i + 1 \in 1..Len(sentence)
      /\ nodes_prev \in Int /\ nodes_now \in Nat
  BY <1>2 DEF LoopInv, Analyzed
<1>4. Width(sentence, i + 1) \in Nat /\ tag = Width(sentence, i + 1)
  <2>1. Width(sentence, i + 1) \in Nat
    BY <1>3, WidthIs
  <2> QED BY <1>1, <2>1 DEF Size, Width
<1>5. PICK z \in Int : Ranked(weights, sentence, nodes, nodes_prev, nodes_now, i - 1, z)
  BY <1>1 DEF BestInv
<1>6. Made(weights, sentence, nodes, i, Unscored, nodes_prev, nodes_now, nodes_next)
  BY <1>1 DEF BestInv
<1>7. ASSUME NEW t \in 0..Width(sentence, i + 1) - 1, NEW r \in nodes_prev..nodes_now - 1
      PROVE  Covered(weights, sentence, nodes, i, Unscored, nodes_now, nodes_next, t, r)
  <2>1. Past(t, r)
    BY <1>4 DEF Past
  <2> QED BY <1>1, <2>1 DEF BestInv
<1>8. Unscored \in BOOLEAN /\ (Unscored => nodes_prev + 1 = nodes_now /\ Width(sentence, i + 1) = 1)
  BY <1>1, <1>4 DEF Unscored
<1>9. \E z2 \in Int : Ranked(weights, sentence, nodes, nodes_now, nodes_next, i, z2)
  BY <1>2, <1>3, <1>5, <1>6, <1>7, <1>8, RankedGrows
<1>10. CASE i + 1 = Len(sentence)
  <2>1. pc' = "trace" /\ Len(sentence') - 1 = i
    BY <1>1, <1>3, <1>10
  <2>2. \E z2 \in Int : Ranked(weights', sentence', nodes', nodes_prev', nodes_now', Len(sentence') - 1, z2)
    BY <1>1, <1>9, <2>1
  <2> QED BY <2>1, <2>2 DEF BestInv
<1>11. CASE i + 1 # Len(sentence)
  <2>1. pc' = "node" /\ i' - 1 = i
    BY <1>1, <1>3, <1>11
  <2>2. \E z2 \in Int : Ranked(weights', sentence', nodes', nodes_prev', nodes_now', i' - 1, z2)
    BY <1>1, <1>9, <2>1
  <2>3. nodes_now'..nodes_next' - 1 = {}
    BY <1>1, <1>2
  <2>4. Made(weights', sentence', nodes', i', Unscored', nodes_prev', nodes_now', nodes_next')
    BY <2>3 DEF Made
  <2>5. ASSUME NEW t \in 0..Width(sentence', i' + 1) - 1, NEW r \in nodes_prev'..nodes_now' - 1 PROVE ~ Past(t, r)'
    <3>1. t \in Int /\ t >= 0 /\ r \in Int /\ r >= nodes_now
      BY <1>1, <1>2, <1>3
    <3>2. Past(t, r)' <=> t < 0 \/ (t = 0 /\ r < nodes_now)
      BY <1>1 DEF Past
    <3> QED BY <1>3, <3>1, <3>2
  <2> QED BY <2>1, <2>2, <2>4, <2>5 DEF BestInv
<1> QED BY <1>10, <1>11

LEMMA TraceBest ==
  ASSUME IInv, CacheInv, BestInv, Trace
  PROVE  BestInv'
<1> SUFFICES ASSUME Near(weights) PROVE BestInv'
  BY DEF BestInv, Trace
<1>1. pc = "trace" /\ pc' = "done" /\ nodes' = nodes /\ sentence' = sentence /\ weights' = weights
  BY DEF Trace
<1>2. PICK best \in Ending : Best(best) /\ tags' = [k \in DOMAIN sentence |-> TagBack(best, Len(sentence) - k)]
  BY DEF Trace
<1>3. EndInv /\ weights \in WeightMaps
  BY <1>1 DEF IInv, CacheInv
<1> DEFINE last == Len(sentence) - 1
           found == PathTags(nodes, best, last)
<1>4. /\ Analyzed(sentence) /\ Len(sentence) \in Nat /\ Len(sentence) # 0 /\ DOMAIN sentence = 1..Len(sentence)
      /\ last \in Nat /\ last + 1 = Len(sentence) /\ nodes_prev \in Nat /\ nodes_now \in Nat
  BY <1>3 DEF EndInv, Analyzed
<1>5. PICK z \in Int : Ranked(weights, sentence, nodes, nodes_prev, nodes_now, last, z)
  BY <1>1 DEF BestInv
<1>6. ASSUME NEW m \in 1..Len(sentence) PROVE tags'[m] = found[m]
  <2>1. last + 1 - m = Len(sentence) - m /\ m \in 1..last + 1
    BY <1>4
  <2>2. tags'[m] = TagBack(best, Len(sentence) - m)
    BY <1>2, <1>4
  <2>3. TagBack(best, Len(sentence) - m) = TagAt(nodes, best, Len(sentence) - m)
    BY DEF TagBack, Ancestor, TagAt, Back
  <2>4. found[m] = TagAt(nodes, best, last + 1 - m)
    BY <2>1 DEF PathTags
  <2> QED BY <2>1, <2>2, <2>3, <2>4
<1> HIDE DEF found
<1>7. Worth(weights, sentence, tags', Len(sentence)) = Worth(weights, sentence, found, Len(sentence))
  BY <1>3, <1>4, <1>6, WorthSame
<1> HIDE DEF last
<1>8. ScoreOf(nodes, best) \in Int /\ ScoreOf(nodes, best) + z = Worth(weights, sentence, found, Len(sentence))
  BY <1>2, <1>4, <1>5 DEF Ranked, Ending, found
<1>9. ASSUME NEW ts \in Taggings(sentence)
      PROVE  Worth(weights, sentence, ts, Len(sentence)) <= Worth(weights, sentence, tags', Len(sentence))
  <2>1. PICK p \in nodes_prev..nodes_now - 1 : Worth(weights, sentence, ts, Len(sentence)) <= ScoreOf(nodes, p) + z
    BY <1>4, <1>5 DEF Ranked
  <2>2. ScoreOf(nodes, p) \in Int
    BY <1>5 DEF Ranked
  <2>3. ScoreOf(nodes, p) <= ScoreOf(nodes, best)
    <3>1. best \in nodes_prev..nodes_now - 1 /\ p \in Nat /\ best \in Nat
      BY <1>2, <1>4 DEF Ending
    <3>2. ScoreOf(nodes, p) = nodes[p + 1].score /\ ScoreOf(nodes, best) = nodes[best + 1].score
      BY <3>1 DEF ScoreOf
    <3>3. nodes[p + 1].score < nodes[best + 1].score \/ nodes[p + 1].score <= nodes[best + 1].score
      BY <1>2 DEF Best, Ending
    <3> QED BY <1>8, <2>2, <3>2, <3>3
  <2>4. Worth(weights, sentence, ts, Len(sentence)) \in Int
    BY <1>3, <1>4, WorthIs
  <2> QED BY <1>7, <1>8, <2>1, <2>2, <2>3, <2>4
<1> QED BY <1>1, <1>4, <1>9 DEF BestInv

LEMMA NextBest == IInv /\ CacheInv /\ BestInv /\ [Next]_vars => BestInv'
<1> SUFFICES ASSUME IInv, CacheInv, BestInv, [Next]_vars PROVE BestInv'
  OBVIOUS
<1>1. CASE \E s \in Sentences : Tag(s)
  BY <1>1, TagBest
<1>2. CASE Consider
  BY <1>2, ConsiderBest
<1>3. CASE NextForm
  BY <1>3, NextFormBest
<1>4. CASE Trace
  BY <1>4, TraceBest
<1>5. CASE Return
  <2>1. pc' = "idle"
    BY <1>5 DEF Return
  <2> QED BY <2>1 DEF BestInv
<1>6. CASE UNCHANGED vars
  BY <1>6 DEF vars, loop, BestInv, Past, Unscored, Size, Made, Covered, TurnScore
<1> QED BY <1>1, <1>2, <1>3, <1>4, <1>5, <1>6 DEF Next

\* What a choice of tags is worth is its Total.
LEMMA TotalIs ==
  ASSUME weights \in WeightMaps, Near(weights), Analyzed(sentence), NEW ts
  PROVE  Total(ts) = Worth(weights, sentence, ts, Len(sentence))
<1> DEFINE f == [k \in DOMAIN sentence |-> FullScore(weights, sentence, k - 1, WindowAt(ts, k), DynamicAt(ts, k))]
<1>1. Len(sentence) \in Nat /\ DOMAIN sentence = 1..Len(sentence)
  BY DEF Analyzed
<1>2. \A k \in 1..Len(sentence) : f[k] = FullScore(weights, sentence, k - 1, WindowAt(ts, k), DynamicAt(ts, k))
  BY <1>1
<1>3. f \in [1..Len(sentence) -> Int]
  BY <1>1, FullScoreType
<1>4. Total(ts) = SumFunction(f)
  BY DEF Total
<1> HIDE DEF f
<1>5. ASSUME NEW k \in 1..Len(sentence) PROVE f[k] = Gain(weights, sentence, ts, k)
  <2>1. k - 1 \in Nat
    BY <1>1
  <2>2. Alike(WindowAt(ts, k), WindowAt(ts, k), k - 1)
    BY DEF Alike
  <2>3. FullScore(weights, sentence, k - 1, WindowAt(ts, k), DynamicAt(ts, k))
          = FullScore(weights, sentence, k - 1, WindowAt(ts, k), no_dynamic)
    BY <2>1, <2>2, ScoreSeen
  <2> QED BY <1>2, <2>3 DEF Gain
<1> QED BY <1>1, <1>3, <1>4, <1>5, WorthIsSum

LEMMA InvIsBest == CacheInv /\ BestInv => DecodedIsBest
<1> SUFFICES ASSUME CacheInv, BestInv, pc = "done", Within, NEW ts \in TagSequences
             PROVE  Total(ts) <= Total(tags)
  BY DEF DecodedIsBest
<1>1. weights \in WeightMaps /\ Near(weights)
  BY DEF CacheInv, Within, Near
<1>2. /\ Analyzed(sentence)
      /\ \A us \in Taggings(sentence) : Worth(weights, sentence, us, Len(sentence)) <= Worth(weights, sentence, tags, Len(sentence))
  BY <1>1 DEF BestInv
<1>3. Total(ts) = Worth(weights, sentence, ts, Len(sentence)) /\ Total(tags) = Worth(weights, sentence, tags, Len(sentence))
  BY <1>1, <1>2, TotalIs
<1>4. ts \in Taggings(sentence)
  <2>1. ts \in [DOMAIN sentence -> UNION {0..Len(sentence[k].tags) - 1 : k \in DOMAIN sentence}]
        /\ \A k \in DOMAIN sentence : ts[k] < Width(sentence, k)
    BY DEF TagSequences, Width
  <2>2. \A n \in UNION {0..Len(sentence[k].tags) - 1 : k \in DOMAIN sentence} : n \in Nat
    OBVIOUS
  <2>3. ts \in [DOMAIN sentence -> Nat]
    BY <2>1, <2>2
  <2> QED BY <2>1, <2>3 DEF Taggings
<1> QED BY <1>2, <1>3, <1>4

\* DecodedIsBest is safe: for any weights of features that see no further than the states, whatever the templates,
\* sentences and order of decoding, no choice of tags scores better than the one that tag returns, although it
\* keeps one node for all the ways to the same last decoding_order - 1 tags and skips the scores of forced turns.
THEOREM DecodedAlwaysBest == Spec => []DecodedIsBest
<1>1. Spec => []IInv
  BY InitInv, NextInv, PTL DEF Spec
<1>2. Init => CacheInv
  BY DEF Init, CacheInv
<1>3. Spec => []CacheInv
  BY <1>1, <1>2, NextCache, PTL DEF Spec
<1>4. Init => BestInv
  BY DEF Init, BestInv
<1>5. Spec => []BestInv
  BY <1>1, <1>3, <1>4, NextBest, PTL DEF Spec
<1> QED BY <1>3, <1>5, InvIsBest, PTL
=============================================================================
