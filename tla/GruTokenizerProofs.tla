-------------------------- MODULE GruTokenizerProofs --------------------------
(* Cursor, windows and tokens stay together, for any texts, windows and outcomes. *)
EXTENDS GruTokenizer, FiniteSetTheorems, WellFoundedInduction, TLAPS

\* A set of numbers has a least one.
LEMMA LeastIsMin ==
  ASSUME NEW T \in SUBSET Nat, T # {}
  PROVE  Min(T) \in T /\ \A n \in T : Min(T) <= n
<1> DEFINE Below == {p \in Nat \X Nat : p[1] < p[2]}
<1>1. IsWellFoundedOn(Below, Nat)
  BY NatLessThanWellFounded DEF OpToRel
<1>2. \A m, n \in Nat : n < m => <<n, m>> \in Below
  OBVIOUS
<1> HIDE DEF Below
<1>3. PICK m \in T : \A n \in T : ~ (<<n, m>> \in Below)
  BY <1>1, WFMin
<1>4. ASSUME NEW n \in T PROVE m <= n
  <2>1. m \in Nat /\ n \in Nat /\ ~ (n < m)
    BY <1>2, <1>3
  <2> QED BY <2>1
<1>5. Min(T) = CHOOSE k \in T : \A n \in T : k <= n
  BY DEF Min
<1> QED BY <1>4, <1>5

LEMMA GreatestIsMax ==
  ASSUME NEW n \in Nat, NEW T \in SUBSET (0..n), T # {}
  PROVE  Max(T) \in T /\ \A k \in T : k <= Max(T)
<1>1. {n - k : k \in T} \in SUBSET Nat /\ {n - k : k \in T} # {}
  <2>1. PICK m \in T : TRUE
    OBVIOUS
  <2>2. n - m \in {n - k : k \in T}
    BY <2>1
  <2>3. ASSUME NEW k \in T PROVE n - k \in Nat
    <3>1. k \in 0..n
      OBVIOUS
    <3> QED BY <3>1
  <2> QED BY <2>2, <2>3
<1>2. PICK u \in {n - k : k \in T} : \A v \in {n - k : k \in T} : u <= v
  BY <1>1, LeastIsMin
<1>3. \E m \in T : \A k \in T : m >= k
  BY <1>2
<1>4. Max(T) = CHOOSE m \in T : \A k \in T : m >= k
  BY DEF Max
<1> QED BY <1>3, <1>4

-----------------------------------------------------------------------------
(* The items of a text.                                                      *)

\* The places where an item may start, and the next one behind a place.
Boundary(k) == k = size + 1 \/ ~(is_space(k - 1) /\ is_space(k))
NextStart(at) == Min({k \in at + 1..size + 1 : Boundary(k)})

LEMMA NextStartIs ==
  ASSUME chars \in Seq(Kinds), NEW at \in 1..size
  PROVE  /\ NextStart(at) \in at + 1..size + 1 /\ Boundary(NextStart(at))
         /\ \A k \in at + 1..size + 1 : Boundary(k) => NextStart(at) <= k
<1> DEFINE T == {k \in at + 1..size + 1 : Boundary(k)}
<1>1. size \in Nat
  BY DEF size
<1>2. T \in SUBSET Nat /\ size + 1 \in T
  BY <1>1 DEF Boundary
<1>3. Min(T) \in T /\ \A k \in T : Min(T) <= k
  <2> HIDE DEF T
  <2> QED BY <1>2, LeastIsMin
<1> QED BY <1>3 DEF NextStart

\* An item that is no space is one character; one of spaces goes up to another character.
LEMMA NextOfLetter ==
  ASSUME chars \in Seq(Kinds), NEW at \in 1..size, ~is_space(at)
  PROVE  NextStart(at) = at + 1
<1>1. size \in Nat /\ at \in Nat /\ at + 1 - 1 = at
  BY DEF size
<1>2. Boundary(at + 1) /\ at + 1 \in at + 1..size + 1
  BY <1>1 DEF Boundary
<1> QED BY <1>1, <1>2, NextStartIs

LEMMA NextOfSpaces ==
  ASSUME chars \in Seq(Kinds), NEW at \in 1..size, is_space(at)
  PROVE  /\ \A k \in at..NextStart(at) - 1 : is_space(k)
         /\ NextStart(at) <= size => ~is_space(NextStart(at))
<1>1. size \in Nat /\ at \in Nat /\ NextStart(at) \in at + 1..size + 1 /\ Boundary(NextStart(at))
      /\ \A k \in at + 1..NextStart(at) - 1 : ~Boundary(k)
  <2>1. size \in Nat /\ at \in Nat /\ at <= size
    BY DEF size
  <2>2. /\ NextStart(at) \in at + 1..size + 1 /\ Boundary(NextStart(at))
        /\ \A k \in at + 1..size + 1 : Boundary(k) => NextStart(at) <= k
    BY NextStartIs
  <2>3. NextStart(at) \in Nat
    BY <2>1, <2>2
  <2> QED BY <2>1, <2>2, <2>3
<1>2. \A k \in at..NextStart(at) - 1 : is_space(k)
  BY <1>1 DEF Boundary
<1>3. NextStart(at) - 1 \in at..NextStart(at) - 1
  BY <1>1
<1> QED BY <1>1, <1>2, <1>3 DEF Boundary
-----------------------------------------------------------------------------
(* The inductive invariant.                                                  *)

Outcomes == {NO_SPLIT, END_OF_TOKEN, END_OF_SENTENCE}
Token == [start : Nat, length : Nat]
TypeInv ==
  /\ segment \in Nat /\ segment >= 10 /\ allow_spaces \in BOOLEAN
  /\ inputs \in Seq(Seq(Kinds)) /\ chars \in Seq(Kinds) /\ current \in 1..size + 1
  /\ network_index \in Nat /\ network_length \in Nat
  /\ network_outcomes \in Seq(Outcomes) /\ network_length <= Len(network_outcomes)
  /\ network_offsets \in Seq(Nat) /\ network_length < Len(network_offsets)
  /\ pc \in {"idle", "spaces", "begin", "slurp"}
  /\ tokens \in Seq(Token) /\ token_start \in Nat /\ sentences \in Seq(Seq(Token))

\* What the outcome of an item promises of the spaces behind it.
Breaks(at, result) ==
  at <= size /\ is_space(at) =>
    /\ Paragraph(at, NextStart(at)) => result = END_OF_SENTENCE
    /\ ~allow_spaces => result # NO_SPLIT

\* The items from the first of the window on follow each other, each with its outcome, and the
\* cursor is at the item whose outcome is used next.
Follows(offsets, outcomes, k) ==
  /\ offsets[k] \in 1..size /\ offsets[k + 1] = NextStart(offsets[k])
  /\ Breaks(offsets[k + 1], outcomes[k])
WindowInv ==
  current # 1 \/ pc # "idle" =>
    /\ network_index \in 1..network_length + 1
    /\ \A k \in 1..network_length : Follows(network_offsets, network_outcomes, k)
    /\ network_index <= network_length => network_offsets[network_index] = current

CursorInv ==
  /\ pc = "begin" /\ current <= size => ~is_space(current)
  /\ pc = "slurp" =>
       /\ current <= size /\ token_start \in 1..current
       /\ ~allow_spaces => \A at \in token_start..current : ~is_space(at)

\* Where the spaces behind the last token end.
Stop == IF pc = "slurp" THEN token_start
        ELSE IF current <= size /\ is_space(current) THEN NextStart(current) ELSE current
SentenceInv ==
  /\ ParagraphsEndSentences
  /\ pc # "idle" =>
       /\ EndsAtParagraph(tokens)
       /\ tokens # <<>> /\ ~IsAddress(Last(tokens)) => ~Paragraph(Behind(Last(tokens)), Stop)

IInv == TypeInv /\ WindowInv /\ CursorInv /\ TokensCoverText /\ SentenceInv
-----------------------------------------------------------------------------
(* The window: its offsets are the starts of the items from the cursor on.   *)

Rank(from, k) == Cardinality(Starts(from) \cap (from..k))

LEMMA StartsAre ==
  ASSUME chars \in Seq(Kinds), NEW from \in 1..size
  PROVE  /\ size \in Nat /\ from \in Nat /\ Starts(from) \in SUBSET (from..size + 1)
         /\ from \in Starts(from) /\ size + 1 \in Starts(from)
         /\ \A k \in from + 1..size + 1 : k \in Starts(from) <=> Boundary(k)
BY DEF Starts, Boundary, size

LEMMA RankType ==
  ASSUME chars \in Seq(Kinds), NEW from \in 1..size, NEW k
  PROVE  /\ IsFiniteSet(Starts(from) \cap (from..k)) /\ Rank(from, k) \in Nat
         /\ IsFiniteSet(Starts(from)) /\ Cardinality(Starts(from)) \in Nat
<1>1. IsFiniteSet(from..size + 1)
  BY StartsAre, FS_Interval
<1>2. IsFiniteSet(Starts(from))
  BY <1>1, StartsAre, FS_Subset
<1>3. IsFiniteSet(Starts(from) \cap (from..k))
  <2>1. Starts(from) \cap (from..k) \subseteq Starts(from)
    OBVIOUS
  <2> QED BY <1>2, <2>1, FS_Subset
<1> QED BY <1>2, <1>3, FS_CardinalityType DEF Rank

LEMMA RankGrows ==
  ASSUME chars \in Seq(Kinds), NEW from \in 1..size
  PROVE  /\ Rank(from, from) = 1 /\ Rank(from, size + 1) = Cardinality(Starts(from))
         /\ \A k \in from..size : Rank(from, k + 1) = IF k + 1 \in Starts(from) THEN Rank(from, k) + 1 ELSE Rank(from, k)
         /\ \A j, k \in from..size + 1 : j <= k => Rank(from, j) <= Rank(from, k)
         /\ \A j, k \in from..size + 1 : j < k /\ k \in Starts(from) => Rank(from, j) < Rank(from, k)
<1> DEFINE S == Starts(from)
<1>1. size \in Nat /\ from \in Nat /\ S \in SUBSET (from..size + 1) /\ from \in S
  BY StartsAre
<1> HIDE DEF S
<1>2. \A k : IsFiniteSet(S \cap (from..k)) /\ Rank(from, k) = Cardinality(S \cap (from..k)) /\ Rank(from, k) \in Nat
  BY RankType DEF Rank, S
<1>3. Rank(from, from) = 1
  <2>1. S \cap (from..from) = {from}
    BY <1>1
  <2> QED BY <1>2, <2>1, FS_Singleton
<1>4. Rank(from, size + 1) = Cardinality(S)
  <2>1. S \cap (from..size + 1) = S
    BY <1>1
  <2> QED BY <1>2, <2>1
<1>5. ASSUME NEW k \in from..size
      PROVE  Rank(from, k + 1) = IF k + 1 \in S THEN Rank(from, k) + 1 ELSE Rank(from, k)
  <2>1. from..k + 1 = (from..k) \cup {k + 1} /\ k + 1 \notin from..k
    BY <1>1
  <2>2. CASE k + 1 \in S
    <3>1. S \cap (from..k + 1) = (S \cap (from..k)) \cup {k + 1} /\ k + 1 \notin S \cap (from..k)
      BY <2>1, <2>2
    <3>2. Cardinality((S \cap (from..k)) \cup {k + 1}) = Cardinality(S \cap (from..k)) + 1
      BY <1>2, <3>1, FS_AddElement
    <3> QED BY <1>2, <2>2, <3>1, <3>2
  <2>3. CASE k + 1 \notin S
    <3>1. S \cap (from..k + 1) = S \cap (from..k)
      BY <2>1, <2>3
    <3> QED BY <1>2, <2>3, <3>1
  <2> QED BY <2>2, <2>3
<1>6. ASSUME NEW j \in from..size + 1, NEW k \in from..size + 1, j <= k
      PROVE  Rank(from, j) <= Rank(from, k)
  <2>1. S \cap (from..j) \subseteq S \cap (from..k)
    BY <1>1, <1>6
  <2>2. Cardinality(S \cap (from..j)) <= Cardinality(S \cap (from..k))
    BY <1>2, <2>1, FS_Subset
  <2> QED BY <1>2, <2>2
<1>7. ASSUME NEW j \in from..size + 1, NEW k \in from..size + 1, j < k, k \in S
      PROVE  Rank(from, j) < Rank(from, k)
  <2>1. k - 1 \in from..size /\ k - 1 \in from..size + 1 /\ j <= k - 1 /\ k - 1 + 1 = k
    BY <1>1, <1>7
  <2>2. Rank(from, j) <= Rank(from, k - 1)
    BY <1>6, <2>1
  <2>3. Rank(from, k) = Rank(from, k - 1) + 1
    BY <1>5, <1>7, <2>1
  <2>4. Rank(from, j) \in Nat /\ Rank(from, k) \in Nat /\ Rank(from, k - 1) \in Nat
    BY <1>2
  <2> QED BY <2>2, <2>3, <2>4
<1> QED BY <1>3, <1>4, <1>5, <1>6, <1>7 DEF S

\* There is a start of every rank, and only one.
LEMMA RankReached ==
  ASSUME chars \in Seq(Kinds), NEW from \in 1..size, NEW n \in 1..Cardinality(Starts(from))
  PROVE  \E k \in Starts(from) : Rank(from, k) = n
<1> DEFINE T == {k \in from..size + 1 : n <= Rank(from, k)}
<1>1. size \in Nat /\ from \in Nat /\ n \in Nat /\ n >= 1 /\ Cardinality(Starts(from)) \in Nat
      /\ \A k : Rank(from, k) \in Nat
  <2>1. size \in Nat /\ from \in Nat
    BY StartsAre
  <2>2. Cardinality(Starts(from)) \in Nat /\ \A k : Rank(from, k) \in Nat
    BY RankType
  <2> QED BY <2>1, <2>2
<1>2. T \in SUBSET Nat /\ T # {}
  <2>1. size + 1 \in T
    BY <1>1, RankGrows
  <2> QED BY <1>1, <2>1
<1>3. PICK m \in T : \A k \in T : m <= k
  BY <1>2, LeastIsMin
<1>4. CASE m = from
  BY <1>1, <1>4, RankGrows, StartsAre
<1>5. CASE m # from
  <2>1. m - 1 \in from..size /\ m - 1 \in from..size + 1 /\ m - 1 + 1 = m /\ m - 1 < m
    BY <1>1, <1>5
  <2>2. Rank(from, m - 1) < n
    BY <1>1, <1>3, <2>1
  <2>3. Rank(from, m) = IF m \in Starts(from) THEN Rank(from, m - 1) + 1 ELSE Rank(from, m - 1)
    BY <2>1, RankGrows
  <2>4. n <= Rank(from, m)
    OBVIOUS
  <2> QED BY <1>1, <2>2, <2>3, <2>4
<1> QED BY <1>4, <1>5

LEMMA OffsetsAre ==
  ASSUME chars \in Seq(Kinds), segment \in Nat, segment >= 10, NEW from \in 1..size, NEW o, o = Offsets(from)
  PROVE  /\ o \in Seq(Nat) /\ Len(o) \in 2..segment + 1 /\ o[1] = from
         /\ \A n \in 1..Len(o) - 1 : o[n] \in 1..size /\ o[n + 1] = NextStart(o[n])
         /\ Len(o) < segment + 1 => o[Len(o)] = size + 1
<1> DEFINE S == Starts(from)
           N == Min({Cardinality(S), segment + 1})
<1>1. /\ size \in Nat /\ from \in Nat /\ S \in SUBSET (from..size + 1) /\ from \in S /\ size + 1 \in S
      /\ \A k \in from + 1..size + 1 : k \in S <=> Boundary(k)
      /\ Cardinality(S) \in Nat /\ \A k : Rank(from, k) \in Nat
  BY StartsAre, RankType
<1>2. Cardinality(S) >= 2
  <2>1. Rank(from, from) < Rank(from, size + 1) /\ Rank(from, from) = 1 /\ Rank(from, size + 1) = Cardinality(S)
    <3>1. from \in from..size + 1 /\ size + 1 \in from..size + 1 /\ from < size + 1
      BY <1>1
    <3> QED BY <1>1, <3>1, RankGrows
  <2> QED BY <1>1, <2>1
<1>3. N \in 2..segment + 1 /\ N <= Cardinality(S) /\ (N < segment + 1 => N = Cardinality(S))
  <2>1. {Cardinality(S), segment + 1} \in SUBSET Nat /\ {Cardinality(S), segment + 1} # {}
    BY <1>1
  <2>2. N \in {Cardinality(S), segment + 1} /\ \A k \in {Cardinality(S), segment + 1} : N <= k
    BY <2>1, LeastIsMin
  <2> QED BY <1>1, <1>2, <2>2
<1> HIDE DEF N
<1>4. o = [n \in 1..N |-> CHOOSE k \in S : Rank(from, k) = n]
  BY DEF Offsets, N, Rank
<1> HIDE DEF S
<1>5. \A n \in 1..N : o[n] \in S /\ Rank(from, o[n]) = n
  <2> SUFFICES ASSUME NEW n \in 1..N PROVE o[n] \in S /\ Rank(from, o[n]) = n
    OBVIOUS
  <2>1. n \in 1..Cardinality(S)
    BY <1>1, <1>3
  <2>2. \E k \in S : Rank(from, k) = n
    BY <2>1, RankReached DEF S
  <2> QED BY <1>4, <2>2
<1>6. \A n \in 1..N : o[n] \in from..size + 1 /\ o[n] \in Nat
  <2>1. \A k \in S : k \in from..size + 1 /\ k \in Nat
    BY <1>1
  <2> QED BY <1>5, <2>1
<1>7. o \in Seq(Nat) /\ Len(o) = N
  BY <1>3, <1>4, <1>6
<1>8. \A j, k \in from..size + 1 : j < k /\ k \in S => Rank(from, j) < Rank(from, k)
  BY RankGrows DEF S
<1>9. o[1] = from
  <2>1. 1 \in 1..N /\ from \in from..size + 1
    BY <1>1, <1>3
  <2>2. ~(from < o[1])
    BY <1>5, <1>6, <1>8, <2>1, RankGrows
  <2> QED BY <1>1, <1>6, <2>1, <2>2
<1>10. ASSUME NEW n \in 1..N - 1 PROVE o[n] \in 1..size /\ o[n + 1] = NextStart(o[n])
  <2>1. n \in 1..N /\ n + 1 \in 1..N
    BY <1>3
  <2>2. o[n] \in from..size + 1 /\ o[n + 1] \in from..size + 1 /\ o[n] \in S /\ o[n + 1] \in S
        /\ Rank(from, o[n]) = n /\ Rank(from, o[n + 1]) = n + 1
    BY <1>5, <1>6, <2>1
  <2>3. o[n] < o[n + 1]
    <3>1. ~(o[n + 1] < o[n])
      BY <1>8, <2>2
    <3>2. o[n + 1] # o[n]
      BY <2>2
    <3> QED BY <1>1, <2>2, <3>1, <3>2
  <2>4. o[n] \in 1..size
    BY <1>1, <2>2, <2>3
  <2> DEFINE m == NextStart(o[n])
  <2>5. m \in o[n] + 1..size + 1 /\ Boundary(m) /\ \A k \in o[n] + 1..size + 1 : Boundary(k) => m <= k
    BY <2>4, NextStartIs
  <2> HIDE DEF m
  <2>6. o[n + 1] \in from + 1..size + 1 /\ m \in from + 1..size + 1 /\ o[n + 1] \in o[n] + 1..size + 1
    BY <1>1, <2>2, <2>3, <2>4, <2>5
  <2>7. m \in S /\ m <= o[n + 1]
    BY <1>1, <2>2, <2>5, <2>6
  <2>8. ~(m < o[n + 1])
    <3> SUFFICES ASSUME m < o[n + 1] PROVE FALSE
      OBVIOUS
    <3>1. o[n] < m /\ m \in from..size + 1
      BY <1>1, <2>4, <2>5, <2>6
    <3>2. n < Rank(from, m) /\ Rank(from, m) < n + 1
      BY <1>8, <2>2, <2>7, <3>1
    <3> QED BY <1>1, <3>2
  <2>9. m = o[n + 1]
    BY <1>1, <2>6, <2>7, <2>8
  <2> QED BY <2>4, <2>9 DEF m
<1>11. ASSUME N < segment + 1 PROVE o[N] = size + 1
  <2>1. N \in 1..N /\ size + 1 \in from..size + 1
    BY <1>1, <1>3
  <2>2. Rank(from, o[N]) = Rank(from, size + 1)
    BY <1>3, <1>5, <1>11, <2>1, RankGrows DEF S
  <2>3. ~(o[N] < size + 1)
    BY <1>1, <1>6, <1>8, <2>1, <2>2
  <2> QED BY <1>1, <1>6, <2>1, <2>3
<1> QED BY <1>3, <1>7, <1>9, <1>10, <1>11

\* The network's outcomes, one for every item of the window.
LEMMA ClassifiedAre ==
  ASSUME chars \in Seq(Kinds), NEW o \in Seq(Nat), \A n \in 1..Len(o) - 1 : o[n] \in 1..size,
         NEW r \in Classified(o)
  PROVE  r \in [1..Len(o) - 1 -> Outcomes]
<1> DEFINE D == 1..Len(o) - 1
           possible == [k \in D |-> classify[Kind(o[k])]]
           open == {k \in DOMAIN possible : Cardinality(possible[k]) > 1}
           choices == {c \in [open -> UNION Range(classify)] : \A k \in open : c[k] \in possible[k]}
<1>1. \A k \in D : possible[k] # {} /\ possible[k] \subseteq Outcomes
  <2> SUFFICES ASSUME NEW k \in D PROVE possible[k] # {} /\ possible[k] \subseteq Outcomes
    OBVIOUS
  <2>1. o[k] \in 1..size
    OBVIOUS
  <2>2. chars[o[k]] \in Kinds
    BY <2>1 DEF size
  <2>3. Kind(o[k]) \in Kinds
    BY <2>2 DEF Kind, Kinds, Spaces
  <2> QED BY <2>3, NetworkAssumption DEF Outcomes
<1>2. PICK c \in choices :
        r = [k \in DOMAIN possible |-> IF k \in open THEN c[k] ELSE CHOOSE x \in possible[k] : TRUE]
  BY DEF Classified
<1>3. \A k \in open : c[k] \in possible[k]
  OBVIOUS
<1>4. DOMAIN possible = D
  OBVIOUS
<1> HIDE DEF possible, open, choices
<1>5. \A k \in D : (IF k \in open THEN c[k] ELSE CHOOSE x \in possible[k] : TRUE) \in Outcomes
  <2> SUFFICES ASSUME NEW k \in D
               PROVE  (IF k \in open THEN c[k] ELSE CHOOSE x \in possible[k] : TRUE) \in Outcomes
    OBVIOUS
  <2>1. (CHOOSE x \in possible[k] : TRUE) \in possible[k]
    BY <1>1
  <2> QED BY <1>1, <1>3, <2>1
<1> QED BY <1>2, <1>4, <1>5

LEMMA CutIs ==
  ASSUME segment \in Nat, segment >= 10, NEW r \in Seq(Outcomes), Len(r) \in 1..segment
  PROVE  /\ Cut(r) \in 1..Len(r)
         /\ Cut(r) < Len(r) \/ Len(r) < segment
<1>1. CASE Len(r) < segment
  BY <1>1 DEF Cut
<1>2. CASE Len(r) = segment
  <2> DEFINE half == segment \div 2
             T == {half} \cup {n \in half..segment - 6 : r[n + 1] # NO_SPLIT}
  <2>1. half \in Nat /\ half >= 5 /\ half <= segment - 5
    OBVIOUS
  <2>2. Cut(r) = Max(T)
    BY <1>2 DEF Cut
  <2> HIDE DEF half
  <2>3. T \in SUBSET (0..segment - 5) /\ T # {} /\ segment - 5 \in Nat /\ \A n \in T : n >= 5
    BY <2>1
  <2> HIDE DEF T
  <2>4. Max(T) \in T
    BY <2>3, GreatestIsMax
  <2>5. Cut(r) >= 5 /\ Cut(r) \in 0..segment - 5
    BY <2>2, <2>3, <2>4
  <2> QED BY <1>2, <2>5
<1> QED BY <1>1, <1>2

\* A new window: what lies behind each of its outcomes is known before they are used.
LEMMA WindowIs ==
  ASSUME chars \in Seq(Kinds), segment \in Nat, segment >= 10, allow_spaces \in BOOLEAN, current \in 1..size,
         NEW o, o = Offsets(current), NEW c \in Classified(o), NEW r, r = Spaced(c, o), NEW n, n = Cut(r)
  PROVE  /\ o \in Seq(Nat) /\ r \in Seq(Outcomes)
         /\ n \in 1..Len(r) /\ n < Len(o) /\ o[1] = current
         /\ \A k \in 1..n : Follows(o, r, k)
<1>1. /\ o \in Seq(Nat) /\ Len(o) \in 2..segment + 1 /\ o[1] = current
      /\ \A k \in 1..Len(o) - 1 : o[k] \in 1..size /\ o[k + 1] = NextStart(o[k])
      /\ Len(o) < segment + 1 => o[Len(o)] = size + 1
  BY OffsetsAre
<1>2. c \in [1..Len(o) - 1 -> Outcomes]
  BY <1>1, ClassifiedAre
<1>3. DOMAIN c = 1..Len(o) - 1 /\ c \in Seq(Outcomes) /\ Len(c) = Len(o) - 1
  <2> DEFINE l == Len(o) - 1
  <2>1. l \in Nat /\ c \in [1..l -> Outcomes]
    BY <1>1, <1>2
  <2> HIDE DEF l
  <2>2. DOMAIN c = 1..l /\ c \in Seq(Outcomes) /\ Len(c) = l
    BY <2>1
  <2> QED BY <2>2 DEF l
<1>4. r = [k \in 1..Len(c) |->
             IF k = Len(c) \/ ~is_space(o[k + 1]) THEN c[k]
             ELSE IF EndsSentence(c, o, k) THEN END_OF_SENTENCE
             ELSE IF ForcedToken(c, k) THEN END_OF_TOKEN
             ELSE c[k]]
  BY <1>1, <1>3 DEF Spaced
<1>5. r \in Seq(Outcomes) /\ Len(r) = Len(o) - 1
  <2>1. \A k \in 1..Len(c) : r[k] \in Outcomes
    BY <1>1, <1>2, <1>3, <1>4 DEF Outcomes
  <2> QED BY <1>1, <1>3, <1>4, <2>1
<1>6. /\ n \in 1..Len(r)
      /\ n < Len(r) \/ Len(r) < segment
  BY <1>1, <1>5, CutIs
<1>7. ASSUME NEW k \in 1..n PROVE Follows(o, r, k)
  <2>1. k \in 1..Len(o) - 1 /\ k \in 1..Len(c) /\ o[k] \in 1..size /\ o[k + 1] = NextStart(o[k])
    BY <1>1, <1>3, <1>5, <1>6
  <2>2. ASSUME o[k + 1] <= size, is_space(o[k + 1])
        PROVE  /\ Paragraph(o[k + 1], NextStart(o[k + 1])) => r[k] = END_OF_SENTENCE
               /\ ~allow_spaces => r[k] # NO_SPLIT
    <3>1. k # Len(c)
      <4> SUFFICES ASSUME k = Len(c) PROVE FALSE
        OBVIOUS
      <4>1. Len(o) < segment + 1 /\ k + 1 = Len(o) /\ size \in Nat
        BY <1>1, <1>3, <1>5, <1>6 DEF size
      <4> QED BY <1>1, <2>2, <4>1
    <3>2. k + 1 \in 1..Len(o) - 1 /\ k + 1 + 1 = k + 2
      BY <1>1, <1>3, <2>1, <3>1
    <3>3. o[k + 2] = NextStart(o[k + 1])
      BY <1>1, <3>2
    <3>4. Paragraph(o[k + 1], NextStart(o[k + 1])) => EndsSentence(c, o, k)
      BY <3>3 DEF EndsSentence
    <3>5. r[k] = IF EndsSentence(c, o, k) THEN END_OF_SENTENCE
                 ELSE IF ForcedToken(c, k) THEN END_OF_TOKEN ELSE c[k]
      BY <1>4, <2>1, <2>2, <3>1
    <3> QED BY <3>4, <3>5 DEF ForcedToken, NO_SPLIT, END_OF_TOKEN, END_OF_SENTENCE
  <2> QED BY <2>1, <2>2 DEF Follows, Breaks
<1> QED BY <1>1, <1>5, <1>6, <1>7

\* Every step of the cursor through the window: it goes behind the item, whose outcome is known.
LEMMA NextOutcome ==
  ASSUME TypeInv, WindowInv, pc # "idle", current <= size, next_outcome, UNCHANGED <<model, chars>>
  PROVE  /\ network_index' \in Nat /\ network_length' \in Nat
         /\ network_outcomes' \in Seq(Outcomes) /\ network_length' <= Len(network_outcomes')
         /\ network_offsets' \in Seq(Nat) /\ network_length' < Len(network_offsets')
         /\ network_index' \in 1..network_length' + 1
         /\ \A k \in 1..network_length' : Follows(network_offsets', network_outcomes', k)
         /\ network_index' <= network_length' => network_offsets'[network_index'] = current'
         /\ current' = NextStart(current) /\ current' \in current + 1..size + 1
         /\ Breaks(current', outcome)
<1>1. /\ network_index \in 1..network_length + 1
      /\ \A k \in 1..network_length : Follows(network_offsets, network_outcomes, k)
      /\ network_index <= network_length => network_offsets[network_index] = current
  BY DEF WindowInv
<1>2. size \in Nat /\ current \in 1..size
  BY DEF TypeInv, size
<1>3. NextStart(current) \in current + 1..size + 1
  BY <1>2, NextStartIs DEF TypeInv
<1>4. CASE /\ network_index <= network_length
           /\ network_index' = network_index + 1
           /\ UNCHANGED <<network_length, network_outcomes, network_offsets>>
           /\ current' = network_offsets[network_index + 1]
  <2>1. network_index' - 1 = network_index
    BY <1>4 DEF TypeInv
  <2>2. network_index \in 1..network_length /\ Follows(network_offsets, network_outcomes, network_index)
    BY <1>1, <1>4 DEF TypeInv
  <2>3. current' = NextStart(current) /\ Breaks(current', network_outcomes[network_index])
    BY <1>1, <1>4, <2>2 DEF Follows
  <2>4. Breaks(current', outcome)
    BY <1>4, <2>1, <2>3 DEF outcome
  <2>5. network_index' \in 1..network_length' + 1
    BY <1>4, <2>2 DEF TypeInv
  <2> QED BY <1>1, <1>3, <1>4, <2>3, <2>4, <2>5 DEF TypeInv
<1>5. CASE /\ network_index > network_length
           /\ network_offsets' = Offsets(current)
           /\ \E outcomes \in Classified(network_offsets') : network_outcomes' = Spaced(outcomes, network_offsets')
           /\ network_length' = Cut(network_outcomes')
           /\ network_index' = 2
           /\ current' = network_offsets'[2]
  <2> DEFINE o == network_offsets'
             r == network_outcomes'
             n == network_length'
  <2>1. PICK c \in Classified(o) : r = Spaced(c, o)
    BY <1>5
  <2>2. o = Offsets(current) /\ n = Cut(r)
    BY <1>5
  <2> HIDE DEF o, r, n
  <2>3. /\ o \in Seq(Nat) /\ r \in Seq(Outcomes)
        /\ n \in 1..Len(r) /\ n < Len(o) /\ o[1] = current
        /\ \A k \in 1..n : Follows(o, r, k)
    BY <1>2, <2>1, <2>2, WindowIs DEF TypeInv
  <2>4. current' = o[2] /\ outcome = r[1]
    BY <1>5 DEF o, r, outcome
  <2>5. Follows(o, r, 1)
    BY <2>3
  <2>6. current' = NextStart(current) /\ Breaks(current', outcome)
    BY <2>3, <2>4, <2>5 DEF Follows
  <2> QED BY <1>3, <1>5, <2>3, <2>4, <2>6 DEF o, r, n
<1> QED BY <1>4, <1>5 DEF next_outcome
-----------------------------------------------------------------------------
(* What the sentences cover.                                                 *)

LEMMA Appended ==
  ASSUME NEW S, NEW q \in Seq(S), NEW x \in S
  PROVE  /\ Append(q, x) \in Seq(S) /\ Len(Append(q, x)) = Len(q) + 1 /\ Append(q, x) # <<>>
         /\ DOMAIN Append(q, x) = 1..Len(q) + 1 /\ Last(Append(q, x)) = x /\ Append(q, x)[Len(q) + 1] = x
         /\ \A k \in 1..Len(q) : Append(q, x)[k] = q[k]
<1>1. /\ Append(q, x) \in Seq(S) /\ Len(Append(q, x)) = Len(q) + 1 /\ DOMAIN Append(q, x) = 1..Len(q) + 1
      /\ Append(q, x)[Len(q) + 1] = x
  OBVIOUS
<1>2. \A k \in 1..Len(q) : Append(q, x)[k] = q[k]
  OBVIOUS
<1> QED BY <1>1, <1>2 DEF Last

Begins(found, reached, s) == IF s > Len(found) THEN reached ELSE found[s][1].start
Ends(found, s) == IF s = 0 THEN 1 ELSE Behind(Last(found[s]))

LEMMA CoversIs ==
  ASSUME NEW found, NEW reached
  PROVE  Covers(found, reached) <=>
           /\ \A s \in DOMAIN found : found[s] # <<>>
           /\ \A s \in 0..Len(found) : OnlySpaces(Ends(found, s), Begins(found, reached, s + 1))
           /\ \A s \in DOMAIN found : \A k \in 1..Len(found[s]) - 1 : OnlySpaces(Behind(found[s][k]), found[s][k + 1].start)
           /\ \A s \in DOMAIN found : \A k \in DOMAIN found[s] :
                /\ found[s][k].length > 0
                /\ ~allow_spaces => \A at \in found[s][k].start..Behind(found[s][k]) - 1 : ~is_space(at)
<1>1. \A s \in DOMAIN found : ToSet(found[s]) = {found[s][k] : k \in DOMAIN found[s]}
  BY DEF ToSet
<1> QED BY <1>1 DEF Covers, Begins, Ends

LEMMA EndsType ==
  ASSUME NEW found \in Seq(Seq(Token)), \A s \in DOMAIN found : found[s] # <<>>, NEW s \in 0..Len(found)
  PROVE  Ends(found, s) \in Nat
<1>1. CASE s = 0
  BY <1>1 DEF Ends
<1>2. CASE s # 0
  <2>1. found[s] \in Seq(Token) /\ found[s] # <<>>
    BY <1>2
  <2>2. Last(found[s]) \in Token
    BY <2>1 DEF Last
  <2> QED BY <1>2, <2>2 DEF Ends, Behind, Token
<1> QED BY <1>1, <1>2

\* Spaces are skipped between the tokens.
LEMMA SpacesCovered ==
  ASSUME NEW found \in Seq(Seq(Token)), NEW from \in Nat, NEW to \in Nat,
         Covers(found, from), OnlySpaces(from, to)
  PROVE  Covers(found, to)
<1>1. /\ \A s \in DOMAIN found : found[s] # <<>>
      /\ \A s \in 0..Len(found) : OnlySpaces(Ends(found, s), Begins(found, from, s + 1))
  BY CoversIs
<1>2. ASSUME NEW s \in 0..Len(found) PROVE OnlySpaces(Ends(found, s), Begins(found, to, s + 1))
  <2>1. CASE s < Len(found)
    <3>1. Begins(found, to, s + 1) = Begins(found, from, s + 1)
      BY <2>1 DEF Begins
    <3> QED BY <1>1, <3>1
  <2>2. CASE s = Len(found)
    <3>1. Begins(found, to, s + 1) = to /\ Begins(found, from, s + 1) = from
      BY <2>2 DEF Begins
    <3>2. OnlySpaces(Ends(found, s), from) /\ Ends(found, s) \in Nat
      BY <1>1, <3>1, EndsType
    <3> QED BY <3>1, <3>2 DEF OnlySpaces
  <2> QED BY <2>1, <2>2
<1> QED BY <1>2, CoversIs

\* A token is appended to the open sentence, which may be empty.
LEMMA TokenCovered ==
  ASSUME NEW ss \in Seq(Seq(Token)), NEW ts \in Seq(Token), NEW t \in Token,
         Covers(IF ts = <<>> THEN ss ELSE Append(ss, ts), t.start),
         t.length > 0, ~allow_spaces => \A at \in t.start..Behind(t) - 1 : ~is_space(at)
  PROVE  Covers(Append(ss, Append(ts, t)), Behind(t))
<1> DEFINE F == IF ts = <<>> THEN ss ELSE Append(ss, ts)
           u == Append(ts, t)
           G == Append(ss, u)
           n == Len(ss)
           m == Len(ts)
<1>1. /\ n \in Nat /\ m \in Nat /\ Len(G) = n + 1 /\ Len(u) = m + 1
      /\ DOMAIN G = 1..n + 1 /\ u \in Seq(Token) /\ DOMAIN u = 1..m + 1 /\ u # <<>>
      /\ G[n + 1] = u /\ u[m + 1] = t /\ Last(u) = t
      /\ \A s \in 1..n : G[s] = ss[s]
      /\ \A k \in 1..m : u[k] = ts[k]
      /\ DOMAIN ts = 1..m /\ DOMAIN ss = 1..n
  <2>1. /\ m \in Nat /\ Len(u) = m + 1 /\ u \in Seq(Token) /\ DOMAIN u = 1..m + 1 /\ u # <<>>
        /\ u[m + 1] = t /\ Last(u) = t /\ DOMAIN ts = 1..m /\ \A k \in 1..m : u[k] = ts[k]
    BY Appended
  <2> HIDE DEF u
  <2>4. /\ n \in Nat /\ Len(G) = n + 1 /\ DOMAIN G = 1..n + 1 /\ G[n + 1] = u /\ DOMAIN ss = 1..n
        /\ \A s \in 1..n : G[s] = ss[s]
    BY <2>1, Appended
  <2> QED BY <2>1, <2>4
<1>2. /\ \A s \in 1..n : F[s] = ss[s] /\ s \in DOMAIN F
      /\ ts # <<>> => Len(F) = n + 1 /\ F[n + 1] = ts /\ n + 1 \in DOMAIN F /\ Last(ts) = ts[m] /\ m >= 1
      /\ ts = <<>> => Len(F) = n /\ m = 0
  BY DEF Last
<1>3. t.start \in Nat /\ Behind(t) \in Nat
  BY DEF Token, Behind
<1> HIDE DEF F, G, u, n, m
<1>4. /\ \A s \in DOMAIN F : F[s] # <<>>
      /\ \A s \in 0..Len(F) : OnlySpaces(Ends(F, s), Begins(F, t.start, s + 1))
      /\ \A s \in DOMAIN F : \A k \in 1..Len(F[s]) - 1 : OnlySpaces(Behind(F[s][k]), F[s][k + 1].start)
      /\ \A s \in DOMAIN F : \A k \in DOMAIN F[s] :
           /\ F[s][k].length > 0
           /\ ~allow_spaces => \A at \in F[s][k].start..Behind(F[s][k]) - 1 : ~is_space(at)
  <2>1. Covers(F, t.start)
    BY DEF F
  <2> QED BY <2>1, CoversIs
<1>5. ASSUME NEW s \in DOMAIN G PROVE G[s] # <<>>
  <2>1. CASE s \in 1..n
    BY <1>1, <1>2, <1>4, <2>1
  <2>2. CASE s = n + 1
    BY <1>1, <2>2
  <2> QED BY <1>1, <1>5, <2>1, <2>2
<1>6. ASSUME NEW s \in 0..Len(G) PROVE OnlySpaces(Ends(G, s), Begins(G, Behind(t), s + 1))
  <2>1. CASE s < n
    <3>1. s + 1 \in 1..n /\ s + 1 <= Len(F) /\ s + 1 <= Len(G) /\ s \in 0..Len(F)
      BY <1>1, <1>2, <1>6, <2>1
    <3>2. Begins(G, Behind(t), s + 1) = Begins(F, t.start, s + 1)
      <4>1. G[s + 1] = F[s + 1]
        BY <1>1, <1>2, <3>1
      <4>2. ~(s + 1 > Len(G)) /\ ~(s + 1 > Len(F))
        BY <1>1, <1>2, <3>1
      <4> QED BY <4>1, <4>2 DEF Begins
    <3>3. Ends(G, s) = Ends(F, s)
      BY <1>1, <1>2, <1>6, <2>1 DEF Ends
    <3> QED BY <1>4, <3>1, <3>2, <3>3
  <2>2. CASE s = n
    <3>1. s \in 0..Len(F)
      BY <1>1, <1>2, <2>2
    <3>2. Ends(G, s) = Ends(F, s)
      BY <1>1, <1>2, <2>2 DEF Ends
    <3>3. Begins(G, Behind(t), s + 1) = u[1].start
      BY <1>1, <2>2 DEF Begins
    <3>4. Begins(F, t.start, s + 1) = u[1].start
      <4>1. CASE ts = <<>>
        BY <1>1, <1>2, <2>2, <4>1 DEF Begins
      <4>2. CASE ts # <<>>
        BY <1>1, <1>2, <2>2, <4>2 DEF Begins
      <4> QED BY <4>1, <4>2
    <3> QED BY <1>4, <3>1, <3>2, <3>3, <3>4
  <2>3. CASE s = n + 1
    <3>1. Ends(G, s) = Behind(t) /\ Begins(G, Behind(t), s + 1) = Behind(t)
      BY <1>1, <2>3 DEF Ends, Begins
    <3> QED BY <1>3, <3>1 DEF OnlySpaces
  <2> QED BY <1>1, <1>6, <2>1, <2>2, <2>3
<1>7. ASSUME NEW s \in DOMAIN G, NEW k \in 1..Len(G[s]) - 1 PROVE OnlySpaces(Behind(G[s][k]), G[s][k + 1].start)
  <2>1. CASE s \in 1..n
    BY <1>1, <1>2, <1>4, <1>7, <2>1
  <2>2. CASE s = n + 1 /\ k < m
    <3>1. k \in 1..m /\ k + 1 \in 1..m /\ ts # <<>> /\ k \in 1..Len(F[n + 1]) - 1
      BY <1>1, <1>2, <1>7, <2>2 DEF m
    <3>2. OnlySpaces(Behind(F[n + 1][k]), F[n + 1][k + 1].start)
      BY <1>2, <1>4, <3>1
    <3> QED BY <1>1, <1>2, <2>2, <3>1, <3>2
  <2>3. CASE s = n + 1 /\ k = m
    <3>1. ts # <<>> /\ m \in 1..m
      BY <1>1, <1>2, <1>7, <2>3
    <3>2. OnlySpaces(Ends(F, n + 1), Begins(F, t.start, n + 1 + 1))
      BY <1>1, <1>2, <1>4, <3>1
    <3>3. Ends(F, n + 1) = Behind(ts[m]) /\ Begins(F, t.start, n + 1 + 1) = t.start
      BY <1>1, <1>2, <3>1 DEF Ends, Begins
    <3> QED BY <1>1, <2>3, <3>1, <3>2, <3>3
  <2> QED BY <1>1, <1>7, <2>1, <2>2, <2>3
<1>8. ASSUME NEW s \in DOMAIN G, NEW k \in DOMAIN G[s]
      PROVE  /\ G[s][k].length > 0
             /\ ~allow_spaces => \A at \in G[s][k].start..Behind(G[s][k]) - 1 : ~is_space(at)
  <2>1. CASE s \in 1..n
    BY <1>1, <1>2, <1>4, <1>8, <2>1
  <2>2. CASE s = n + 1 /\ k \in 1..m
    <3>1. ts # <<>>
      BY <1>1, <1>2, <2>2
    <3> QED BY <1>1, <1>2, <1>4, <2>2, <3>1
  <2>3. CASE s = n + 1 /\ k = m + 1
    BY <1>1, <2>3
  <2> QED BY <1>1, <1>8, <2>1, <2>2, <2>3
<1>9. Covers(G, Behind(t))
  BY <1>5, <1>6, <1>7, <1>8, CoversIs
<1> QED BY <1>9 DEF G, u
-----------------------------------------------------------------------------
(* The steps.                                                                *)

\* What is said of a text does not change as long as it is the same text.
LEMMA SameText ==
  ASSUME UNCHANGED <<chars, allow_spaces>>
  PROVE  /\ size' = size /\ \A at : is_space(at)' = is_space(at) /\ NextStart(at)' = NextStart(at)
         /\ \A from, to : Paragraph(from, to)' = Paragraph(from, to)
         /\ \A at, r : Breaks(at, r)' <=> Breaks(at, r)
         /\ \A o, r, k : Follows(o, r, k)' <=> Follows(o, r, k)
         /\ \A found, reached : Covers(found, reached)' <=> Covers(found, reached)
         /\ \A t : IsAddress(t)' <=> IsAddress(t)
         /\ \A s : EndsAtParagraph(s)' <=> EndsAtParagraph(s)
         /\ \A ts : emergency_sentence_split(ts)' <=> emergency_sentence_split(ts)
BY DEF size, is_space, NextStart, Boundary, Paragraph, Breaks, Follows, Covers, OnlySpaces, IsAddress,
       EndsAtParagraph, emergency_sentence_split

\* The parts of the invariant after a step, in the terms of before.
LEMMA SameTextInv ==
  ASSUME UNCHANGED <<chars, allow_spaces>>
  PROVE  /\ size' = size
         /\ is_space(current)' <=> is_space(current')
         /\ (\A at \in token_start..current : ~is_space(at))' <=> \A at \in token_start'..current' : ~is_space(at)
         /\ \A k : Follows(network_offsets, network_outcomes, k)' <=> Follows(network_offsets', network_outcomes', k)
         /\ TokensCoverText' <=> Covers(Found', Reached')
         /\ ParagraphsEndSentences' <=> \A s \in DOMAIN sentences' : EndsAtParagraph(sentences'[s])
         /\ EndsAtParagraph(tokens)' <=> EndsAtParagraph(tokens')
         /\ IsAddress(Last(tokens))' <=> IsAddress(Last(tokens'))
         /\ Paragraph(Behind(Last(tokens)), Stop)' <=> Paragraph(Behind(Last(tokens')), Stop')
         /\ Stop' = IF pc' = "slurp" THEN token_start'
                    ELSE IF current' <= size /\ is_space(current') THEN NextStart(current') ELSE current'
<1>1. size' = size /\ (is_space(current)' <=> is_space(current'))
      /\ ((\A at \in token_start..current : ~is_space(at))' <=> \A at \in token_start'..current' : ~is_space(at))
  BY DEF size, is_space
<1>2. \A k : Follows(network_offsets, network_outcomes, k)' <=> Follows(network_offsets', network_outcomes', k)
  BY DEF size, is_space, NextStart, Boundary, Paragraph, Breaks, Follows
<1>3. TokensCoverText' <=> Covers(Found', Reached')
  BY DEF TokensCoverText, Covers, OnlySpaces, is_space
<1>4. ParagraphsEndSentences' <=> \A s \in DOMAIN sentences' : EndsAtParagraph(sentences'[s])
  BY DEF ParagraphsEndSentences, EndsAtParagraph, Paragraph, IsAddress
<1>5. EndsAtParagraph(tokens)' <=> EndsAtParagraph(tokens')
  BY DEF EndsAtParagraph, Paragraph, IsAddress
<1>6. /\ IsAddress(Last(tokens))' <=> IsAddress(Last(tokens'))
      /\ Paragraph(Behind(Last(tokens)), Stop)' <=> Paragraph(Behind(Last(tokens')), Stop')
  BY DEF Paragraph, IsAddress
<1>7. Stop' = IF pc' = "slurp" THEN token_start'
              ELSE IF current' <= size /\ is_space(current') THEN NextStart(current') ELSE current'
  BY DEF Stop, NextStart, Boundary, is_space, size
<1> QED BY <1>1, <1>2, <1>3, <1>4, <1>5, <1>6, <1>7

\* A token goes to the open sentence, which goes on or is returned.
LEMMA GotoKept ==
  ASSUME TypeInv, TokensCoverText, SentenceInv, pc # "idle", UNCHANGED <<model, chars>>,
         NEW eos \in BOOLEAN, NEW t \in Token, Goto(eos, Append(tokens, t)),
         t.start = Stop, t.start = Reached, t.length > 0, current' = Behind(t),
         ~allow_spaces => \A at \in t.start..Behind(t) - 1 : ~is_space(at),
         ~eos /\ ~IsAddress(t) /\ current' <= size /\ is_space(current') => ~Paragraph(current', NextStart(current'))
  PROVE  /\ tokens' \in Seq(Token) /\ sentences' \in Seq(Seq(Token)) /\ pc' \in {"idle", "spaces"}
         /\ TokensCoverText' /\ SentenceInv'
<1> DEFINE u == Append(tokens, t)
           n == Len(tokens)
<1>1. tokens \in Seq(Token) /\ sentences \in Seq(Seq(Token)) /\ n \in Nat
  BY DEF TypeInv
<1>2. u \in Seq(Token) /\ Len(u) = n + 1 /\ DOMAIN u = 1..n + 1 /\ u # <<>> /\ u[n + 1] = t
      /\ (\A k \in 1..n : u[k] = tokens[k])
  BY <1>1, Appended
<1>3. Last(u) = t /\ Behind(t) \in Nat
  <2>1. Last(u) = t
    BY <1>1, Appended
  <2>2. Behind(t) \in Nat
    BY DEF Behind, Token
  <2> QED BY <2>1, <2>2
<1>4. \/ pc' = "idle" /\ sentences' = Append(sentences, u)
      \/ pc' = "spaces" /\ sentences' = sentences /\ ~eos
  BY DEF Goto
<1>5. tokens' = u
  BY DEF Goto
<1>6. TokensCoverText'
  <2>1. Covers(Append(sentences, u), Behind(t))
    <3>1. Covers(IF tokens = <<>> THEN sentences ELSE Append(sentences, tokens), t.start)
      BY DEF TokensCoverText, Found
    <3> QED BY <1>1, <3>1, TokenCovered
  <2>2. Found' = Append(sentences, u) /\ Reached' = Behind(t)
    BY <1>2, <1>4, <1>5 DEF Found, Reached
  <2> QED BY <2>1, <2>2, SameTextInv DEF model
<1>7. EndsAtParagraph(u)
  <2> SUFFICES ASSUME NEW k \in 1..Len(u) - 1, Paragraph(Behind(u[k]), u[k + 1].start)
               PROVE  IsAddress(u[k])
    BY DEF EndsAtParagraph
  <2>1. EndsAtParagraph(tokens) /\ (tokens # <<>> /\ ~IsAddress(Last(tokens)) => ~Paragraph(Behind(Last(tokens)), Stop))
    BY DEF SentenceInv
  <2>2. CASE k < n
    <3>1. k \in 1..n - 1 /\ k + 1 \in 1..n /\ k \in 1..n
      BY <1>1, <1>2, <2>2
    <3>2. u[k] = tokens[k] /\ u[k + 1] = tokens[k + 1]
      BY <1>2, <3>1
    <3> QED BY <2>1, <3>1, <3>2 DEF EndsAtParagraph
  <2>3. CASE k = n
    <3>1. tokens # <<>> /\ Last(tokens) = tokens[n] /\ n \in 1..n
      BY <1>1, <1>2, <2>3 DEF Last
    <3>2. u[k] = Last(tokens) /\ u[k + 1] = t
      BY <1>2, <2>3, <3>1
    <3> QED BY <2>1, <3>1, <3>2
  <2> QED BY <1>1, <1>2, <2>2, <2>3
<1> HIDE DEF u, n
<1>8. ParagraphsEndSentences'
  <2>1. \A s \in DOMAIN sentences : EndsAtParagraph(sentences[s])
    BY DEF SentenceInv, ParagraphsEndSentences
  <2>2. \A s \in DOMAIN Append(sentences, u) : EndsAtParagraph(Append(sentences, u)[s])
    <3> SUFFICES ASSUME NEW s \in DOMAIN Append(sentences, u) PROVE EndsAtParagraph(Append(sentences, u)[s])
      OBVIOUS
    <3>1. CASE s \in DOMAIN sentences
      BY <1>1, <1>2, <2>1, <3>1
    <3>2. CASE s = Len(sentences) + 1
      BY <1>1, <1>2, <1>7, <3>2
    <3> QED BY <1>1, <1>2, <3>1, <3>2
  <2> QED BY <1>4, <2>1, <2>2, SameTextInv DEF model
<1>9. pc' # "idle" =>
        /\ EndsAtParagraph(tokens')
        /\ tokens' # <<>> /\ ~IsAddress(Last(tokens')) => ~Paragraph(Behind(Last(tokens')), Stop')
  <2> SUFFICES ASSUME pc' = "spaces", ~eos, ~IsAddress(t) PROVE ~Paragraph(Behind(t), Stop')
    BY <1>3, <1>4, <1>5, <1>7
  <2>1. Stop' = IF current' <= size /\ is_space(current') THEN NextStart(current') ELSE current'
    BY SameTextInv DEF model
  <2>2. ~Paragraph(current', current')
    BY <1>3 DEF Paragraph
  <2> QED BY <2>1, <2>2
<1>10. SentenceInv'
  BY <1>8, <1>9, SameTextInv DEF SentenceInv, model
<1>11. sentences' \in Seq(Seq(Token))
  <2>1. Append(sentences, u) \in Seq(Seq(Token))
    BY <1>1, <1>2, Appended
  <2> QED BY <1>1, <1>4, <2>1
<1> QED BY <1>2, <1>4, <1>5, <1>6, <1>10, <1>11

LEMMA NothingCovered == Covers(<<>>, 1)
<1>1. DOMAIN <<>> = {} /\ Len(<<>>) = 0
  OBVIOUS
<1>2. ASSUME NEW s \in 0..Len(<<>>) PROVE OnlySpaces(Ends(<<>>, s), Begins(<<>>, 1, s + 1))
  <2>1. Ends(<<>>, s) = 1 /\ Begins(<<>>, 1, s + 1) = 1
    BY <1>1, <1>2 DEF Ends, Begins
  <2> QED BY <2>1 DEF OnlySpaces
<1> QED BY <1>1, <1>2, CoversIs

LEMMA InitKept == Init => IInv
<1> SUFFICES ASSUME Init PROVE IInv
  OBVIOUS
<1>1. TypeInv
  <2>1. inputs \in Seq(Seq(Kinds)) /\ segment \in Nat /\ segment >= 10
    BY InputsAssumption, SegmentsAssumption DEF Init
  <2>2. size = 0 /\ network_offsets \in Seq(Nat) /\ Len(network_offsets) = 1
    BY DEF Init, size
  <2> QED BY <2>1, <2>2 DEF Init, TypeInv
<1>2. WindowInv /\ CursorInv
  BY DEF Init, WindowInv, CursorInv
<1>3. TokensCoverText
  BY NothingCovered DEF Init, TokensCoverText, Found, Reached
<1>4. SentenceInv
  BY DEF Init, SentenceInv, ParagraphsEndSentences
<1> QED BY <1>1, <1>2, <1>3, <1>4 DEF IInv

LEMMA SetTextKept == IInv /\ SetText => IInv'
<1> SUFFICES ASSUME IInv, SetText PROVE IInv'
  OBVIOUS
<1>1. TypeInv'
  <2>1. chars' \in Seq(Kinds) /\ inputs' \in Seq(Seq(Kinds))
    BY DEF SetText, IInv, TypeInv
  <2>2. size' \in Nat
    BY <2>1 DEF size
  <2>3. current' \in 1..size' + 1
    <3>1. \A n \in Nat : 1 \in 1..n + 1
      OBVIOUS
    <3>2. current' = 1
      BY DEF SetText
    <3> QED BY <2>2, <3>1, <3>2
  <2>4. sentences' \in Seq(Seq(Token))
    BY DEF SetText
  <2> QED BY <2>1, <2>3, <2>4 DEF SetText, IInv, TypeInv, model, window
<1>2. WindowInv' /\ CursorInv'
  BY DEF SetText, WindowInv, CursorInv
<1>3. TokensCoverText'
  <2>1. Covers(<<>>, 1)'
    <3>1. DOMAIN <<>> = {} /\ Len(<<>>) = 0
      OBVIOUS
    <3>2. ASSUME NEW at \in 1..0 PROVE FALSE
      OBVIOUS
    <3> QED BY <3>1, <3>2 DEF Covers, OnlySpaces
  <2>2. Found' = <<>> /\ Reached' = 1
    BY DEF SetText, Found, Reached
  <2> QED BY <2>1, <2>2 DEF TokensCoverText, Covers
<1>4. SentenceInv'
  BY DEF SetText, SentenceInv, ParagraphsEndSentences
<1> QED BY <1>1, <1>2, <1>3, <1>4 DEF IInv

LEMMA NextSentenceKept == IInv /\ NextSentence => IInv'
<1> SUFFICES ASSUME IInv, NextSentence PROVE IInv'
  OBVIOUS
<1>1. UNCHANGED <<chars, allow_spaces, segment, inputs, current, token_start, sentences>>
      /\ pc = "idle" /\ pc' = "spaces" /\ tokens' = <<>>
  BY DEF NextSentence, model
<1>2. \/ current = 1 /\ network_index' = 1 /\ network_length' = 0 /\ UNCHANGED <<network_outcomes, network_offsets>>
      \/ current # 1 /\ UNCHANGED window
  BY DEF NextSentence, Reset
<1>3. TypeInv'
  <2>1. size' = size
    BY <1>1 DEF size
  <2>2. network_index' \in Nat /\ network_length' \in Nat /\ network_outcomes' = network_outcomes
        /\ network_offsets' = network_offsets /\ network_length' <= Len(network_outcomes)
        /\ network_length' < Len(network_offsets)
    BY <1>2 DEF IInv, TypeInv, window
  <2> QED BY <1>1, <2>1, <2>2 DEF IInv, TypeInv
<1>4. WindowInv'
  <2>1. CASE current = 1
    BY <1>1, <1>2, <2>1 DEF WindowInv
  <2>2. CASE current # 1
    <3>1. \A k : Follows(network_offsets, network_outcomes, k)' <=> Follows(network_offsets, network_outcomes, k)
      BY <1>1, <1>2, <2>2, SameTextInv DEF window
    <3> QED BY <1>1, <1>2, <2>2, <3>1 DEF IInv, WindowInv, window
  <2> QED BY <2>1, <2>2
<1>5. CursorInv'
  BY <1>1 DEF CursorInv
<1>6. TokensCoverText'
  <2>1. Found' = Found /\ Reached' = Reached
    BY <1>1 DEF Found, Reached
  <2> QED BY <1>1, <2>1, SameTextInv DEF IInv, TokensCoverText
<1>7. SentenceInv'
  <2>1. EndsAtParagraph(tokens')
    BY <1>1 DEF EndsAtParagraph
  <2> QED BY <1>1, <2>1, SameTextInv DEF IInv, SentenceInv, ParagraphsEndSentences
<1> QED BY <1>3, <1>4, <1>5, <1>6, <1>7 DEF IInv

LEMMA SkipSpacesKept == IInv /\ SkipSpaces => IInv'
<1> SUFFICES ASSUME IInv, SkipSpaces PROVE IInv'
  OBVIOUS
<1>1. UNCHANGED <<chars, allow_spaces, segment, inputs, tokens, token_start, sentences>>
      /\ pc = "spaces" /\ pc' \in {"begin", "spaces"} /\ current <= size /\ is_space(current)
      /\ size' = size
  BY DEF SkipSpaces, model, size
<1>2. current \in 1..size /\ size \in Nat
  BY <1>1 DEF IInv, TypeInv, size
<1>3. /\ network_index' \in Nat /\ network_length' \in Nat
      /\ network_outcomes' \in Seq(Outcomes) /\ network_length' <= Len(network_outcomes')
      /\ network_offsets' \in Seq(Nat) /\ network_length' < Len(network_offsets')
      /\ network_index' \in 1..network_length' + 1
      /\ \A k \in 1..network_length' : Follows(network_offsets', network_outcomes', k)
      /\ network_index' <= network_length' => network_offsets'[network_index'] = current'
      /\ current' = NextStart(current) /\ current' \in current + 1..size + 1
  BY <1>1, NextOutcome DEF IInv, SkipSpaces
<1>4. (\A k \in current..current' - 1 : is_space(k)) /\ (current' <= size => ~is_space(current'))
  BY <1>1, <1>2, <1>3, NextOfSpaces DEF IInv, TypeInv
<1>5. TypeInv'
  <2>1. current' \in 1..size + 1
    BY <1>2, <1>3
  <2> QED BY <1>1, <1>3, <2>1 DEF IInv, TypeInv
<1>6. WindowInv'
  BY <1>1, <1>3, SameTextInv DEF WindowInv
<1>7. CursorInv'
  BY <1>1, <1>4, SameTextInv DEF CursorInv
<1>8. TokensCoverText'
  <2>1. Found' = Found /\ Reached = current /\ Reached' = current'
    BY <1>1 DEF Found, Reached
  <2>2. Found \in Seq(Seq(Token))
    BY Appended DEF IInv, TypeInv, Found
  <2>3. current \in Nat /\ current' \in Nat /\ OnlySpaces(current, current')
    BY <1>2, <1>3, <1>4 DEF OnlySpaces
  <2>4. Covers(Found, current')
    BY <2>1, <2>2, <2>3, SpacesCovered DEF IInv, TokensCoverText
  <2> QED BY <1>1, <2>1, <2>4, SameTextInv
<1>9. SentenceInv'
  <2>1. Stop' = Stop
    BY <1>1, <1>3, <1>4, SameTextInv DEF Stop
  <2> QED BY <1>1, <2>1, SameTextInv DEF IInv, SentenceInv, ParagraphsEndSentences
<1> QED BY <1>5, <1>6, <1>7, <1>8, <1>9 DEF IInv

\* At a token the spaces in front of it are behind the cursor.
LEMMA AtTokenStop ==
  ASSUME IInv, AtToken
  PROVE  /\ pc \in {"spaces", "begin"} /\ (current <= size => ~is_space(current))
         /\ Stop = current /\ Reached = current
<1>1. pc \in {"spaces", "begin"} /\ (current <= size => ~is_space(current))
  BY DEF AtToken, IInv, CursorInv
<1> QED BY <1>1 DEF Stop, Reached

LEMMA EndTextKept == IInv /\ EndText => IInv'
<1> SUFFICES ASSUME IInv, EndText PROVE IInv'
  OBVIOUS
<1>1. /\ UNCHANGED <<chars, allow_spaces, segment, inputs, current, tokens, token_start>> /\ UNCHANGED window
      /\ pc' = "idle" /\ AtToken /\ size' = size
      /\ sentences' = IF tokens = <<>> THEN sentences ELSE Append(sentences, tokens)
  BY DEF EndText, model, size
<1>2. pc \in {"spaces", "begin"} /\ Reached = current
  BY <1>1, AtTokenStop
<1>3. TypeInv'
  <2>1. sentences' \in Seq(Seq(Token))
    BY <1>1, Appended DEF IInv, TypeInv
  <2> QED BY <1>1, <2>1 DEF IInv, TypeInv, window
<1>4. WindowInv'
  <2>1. \A k : Follows(network_offsets, network_outcomes, k)' <=> Follows(network_offsets, network_outcomes, k)
    BY <1>1, SameTextInv DEF window
  <2> QED BY <1>1, <1>2, <2>1 DEF IInv, WindowInv, window
<1>5. CursorInv'
  BY <1>1 DEF CursorInv
<1>6. TokensCoverText'
  <2>1. Found' = Found /\ Reached' = Reached
    BY <1>1, <1>2 DEF Found, Reached
  <2> QED BY <1>1, <2>1, SameTextInv DEF IInv, TokensCoverText
<1>7. SentenceInv'
  <2>1. /\ \A s \in DOMAIN sentences : EndsAtParagraph(sentences[s])
        /\ EndsAtParagraph(tokens)
    BY <1>2 DEF IInv, SentenceInv, ParagraphsEndSentences
  <2>2. \A s \in DOMAIN sentences' : EndsAtParagraph(sentences'[s])
    <3>1. CASE tokens = <<>>
      BY <1>1, <2>1, <3>1
    <3>2. CASE tokens # <<>>
      <4> SUFFICES ASSUME NEW s \in DOMAIN sentences' PROVE EndsAtParagraph(sentences'[s])
        OBVIOUS
      <4>1. sentences' = Append(sentences, tokens) /\ tokens \in Seq(Token) /\ sentences \in Seq(Seq(Token))
        BY <1>1, <3>2 DEF IInv, TypeInv
      <4>2. (s \in DOMAIN sentences /\ sentences'[s] = sentences[s]) \/ sentences'[s] = tokens
        BY <4>1
      <4> QED BY <2>1, <4>2
    <3> QED BY <3>1, <3>2
  <2> QED BY <1>1, <2>2, SameTextInv DEF SentenceInv
<1> QED BY <1>3, <1>4, <1>5, <1>6, <1>7 DEF IInv

LEMMA BeginTokenKept == IInv /\ BeginToken => IInv'
<1> SUFFICES ASSUME IInv, BeginToken PROVE IInv'
  OBVIOUS
<1>1. /\ UNCHANGED <<chars, allow_spaces, segment, inputs, current, tokens, sentences>> /\ UNCHANGED window
      /\ pc' = "slurp" /\ AtToken /\ size' = size /\ current <= size /\ token_start' = current
  BY DEF BeginToken, model, size
<1>2. pc \in {"spaces", "begin"} /\ ~is_space(current) /\ Stop = current /\ Reached = current
  BY <1>1, AtTokenStop
<1>3. TypeInv'
  BY <1>1 DEF IInv, TypeInv, window
<1>4. WindowInv'
  <2>1. \A k : Follows(network_offsets, network_outcomes, k)' <=> Follows(network_offsets, network_outcomes, k)
    BY <1>1, SameTextInv DEF window
  <2> QED BY <1>1, <1>2, <2>1 DEF IInv, WindowInv, window
<1>5. CursorInv'
  <2>1. current \in 1..size /\ \A at \in current..current : at = current
    BY <1>1 DEF IInv, TypeInv
  <2>2. \A at \in token_start'..current' : ~is_space(at)
    BY <1>1, <1>2, <2>1
  <2>3. current' <= size' /\ token_start' \in 1..current'
    BY <1>1, <2>1
  <2> QED BY <1>1, <2>2, <2>3, SameTextInv DEF CursorInv
<1>6. TokensCoverText'
  <2>1. Found' = Found /\ Reached' = Reached
    BY <1>1, <1>2 DEF Found, Reached
  <2> QED BY <1>1, <2>1, SameTextInv DEF IInv, TokensCoverText
<1>7. SentenceInv'
  <2>1. Stop' = Stop
    BY <1>1, <1>2, SameTextInv
  <2> QED BY <1>1, <1>2, <2>1, SameTextInv DEF IInv, SentenceInv, ParagraphsEndSentences
<1> QED BY <1>3, <1>4, <1>5, <1>6, <1>7 DEF IInv

LEMMA AddressIs ==
  ASSUME chars \in Seq(Kinds), current \in 1..size, EndOfAddress > current
  PROVE  /\ EndOfAddress \in current + 1..size + 1 /\ EndOfAddress - current >= address_length
         /\ chars[current] = "address" /\ Boundary(EndOfAddress)
         /\ \A k \in current..EndOfAddress - 1 : ~is_space(k)
<1> DEFINE T == {k \in current..size + 1 : k > size \/ chars[k] # "address"}
           end == Min(T)
<1>1. size \in Nat /\ current \in Nat /\ address_length \in Nat
  BY LimitsAssumption DEF size
<1>2. T \in SUBSET Nat /\ size + 1 \in T
  BY <1>1
<1>3. end \in T /\ \A k \in T : end <= k
  <2> HIDE DEF T
  <2> QED BY <1>2, LeastIsMin
<1>4. end \in current..size + 1 /\ \A k \in current..end - 1 : chars[k] = "address"
  <2>1. end \in current..size + 1
    BY <1>3
  <2>2. ASSUME NEW k \in current..end - 1, chars[k] # "address" PROVE FALSE
    <3>1. k \in T /\ k < end
      BY <1>1, <2>1, <2>2
    <3> QED BY <1>1, <1>3, <2>1, <3>1
  <2> QED BY <2>1, <2>2
<1>5. EndOfAddress = (IF end - current >= address_length THEN end ELSE current)
  BY DEF EndOfAddress
<1> HIDE DEF T, end
<1>6. EndOfAddress = end /\ end - current >= address_length /\ end > current
  BY <1>1, <1>4, <1>5
<1>7. \A k \in current..end - 1 : ~is_space(k)
  BY <1>4 DEF is_space, Spaces
<1>8. Boundary(end)
  <2>1. end - 1 \in current..end - 1
    BY <1>1, <1>4, <1>6
  <2> QED BY <1>7, <2>1 DEF Boundary
<1> QED BY <1>1, <1>4, <1>6, <1>7, <1>8

\* Behind an address the window goes on with the item right there.
LEMMA CaughtUpIs ==
  ASSUME TypeInv, WindowInv, pc # "idle", current <= size, NEW end \in current + 1..size + 1, Boundary(end)
  PROVE  /\ CaughtUp(end) \in 1..network_length + 1
         /\ CaughtUp(end) <= network_length => network_offsets[CaughtUp(end)] = end
<1> DEFINE T == {network_length + 1} \cup {k \in network_index..network_length : network_offsets[k] >= end}
           j == CaughtUp(end)
<1>1. /\ network_index \in 1..network_length + 1 /\ network_length \in Nat
      /\ \A k \in 1..network_length : Follows(network_offsets, network_outcomes, k)
      /\ network_index <= network_length => network_offsets[network_index] = current
  BY DEF TypeInv, WindowInv
<1>2. size \in Nat /\ current \in 1..size /\ end \in Nat /\ current < end
  BY DEF TypeInv, size
<1>3. T \in SUBSET Nat /\ T # {} /\ j = Min(T)
  BY <1>1 DEF CaughtUp
<1>4. j \in T /\ \A k \in T : j <= k
  <2> HIDE DEF T, j
  <2> QED BY <1>3, LeastIsMin
<1> HIDE DEF j
<1>5. j \in network_index..network_length + 1
  BY <1>1, <1>4
<1>6. ASSUME j <= network_length PROVE network_offsets[j] = end
  <2>1. network_offsets[j] >= end /\ j \in 1..network_length
    BY <1>1, <1>4, <1>5, <1>6
  <2>2. j # network_index
    BY <1>1, <1>2, <1>6, <2>1
  <2>3. j - 1 \in network_index..network_length /\ j - 1 \in 1..network_length /\ j - 1 + 1 = j
    BY <1>1, <1>5, <1>6, <2>2
  <2>4. Follows(network_offsets, network_outcomes, j - 1)
    BY <1>1, <2>3
  <2>5. network_offsets[j - 1] \in 1..size /\ network_offsets[j] = NextStart(network_offsets[j - 1])
    BY <2>3, <2>4 DEF Follows
  <2>6. network_offsets[j - 1] < end
    <3> SUFFICES ASSUME network_offsets[j - 1] >= end PROVE FALSE
      BY <1>2, <2>5
    <3>1. j - 1 \in T
      BY <2>3
    <3> QED BY <1>1, <1>4, <1>5, <3>1
  <2>7. end \in network_offsets[j - 1] + 1..size + 1
    BY <1>2, <2>5, <2>6
  <2>8. NextStart(network_offsets[j - 1]) <= end /\ NextStart(network_offsets[j - 1]) \in Nat
    <3>1. /\ NextStart(network_offsets[j - 1]) \in network_offsets[j - 1] + 1..size + 1
          /\ NextStart(network_offsets[j - 1]) <= end
      BY <2>5, <2>7, NextStartIs DEF TypeInv
    <3> QED BY <1>2, <2>5, <3>1
  <2> QED BY <1>2, <2>1, <2>5, <2>8
<1> QED BY <1>1, <1>5, <1>6 DEF j

LEMMA TokenizeAddressKept == IInv /\ TokenizeAddress => IInv'
<1> SUFFICES ASSUME IInv, TokenizeAddress PROVE IInv'
  OBVIOUS
<1> DEFINE end == EndOfAddress
           t == token(current, end)
<1>1. /\ UNCHANGED <<chars, allow_spaces, segment, inputs, token_start>>
      /\ UNCHANGED <<network_length, network_outcomes, network_offsets>>
      /\ AtToken /\ size' = size /\ current <= size /\ end > current /\ current' = end
      /\ network_index' = CaughtUp(end)
  BY DEF TokenizeAddress, model, size
<1>2. pc # "idle" /\ Stop = current /\ Reached = current
  BY <1>1, AtTokenStop
<1>3. size \in Nat /\ current \in 1..size /\ chars \in Seq(Kinds) /\ address_length \in Nat \ {0}
  BY <1>1, LimitsAssumption DEF IInv, TypeInv, size
<1>4. /\ end \in current + 1..size + 1 /\ end - current >= address_length
      /\ chars[current] = "address" /\ Boundary(end) /\ \A k \in current..end - 1 : ~is_space(k)
  BY <1>1, <1>3, AddressIs
<1> HIDE DEF end
<1>5. CaughtUp(end) \in 1..network_length + 1 /\ (CaughtUp(end) <= network_length => network_offsets[CaughtUp(end)] = end)
  BY <1>1, <1>2, <1>4, CaughtUpIs DEF IInv
<1>6. /\ t \in Token /\ t.start = current /\ t.length = end - current /\ t.length > 0 /\ Behind(t) = end /\ IsAddress(t)
  BY <1>3, <1>4 DEF token, Token, Behind, IsAddress
<1>7. PICK eos \in BOOLEAN : Goto(eos, Append(tokens, t))
  <2> DEFINE E == \E k \in network_index..network_index' - 1 : network_outcomes[k] = END_OF_SENTENCE
  <2>1. Goto(E, Append(tokens, t))
    BY DEF TokenizeAddress, end
  <2>2. E \in BOOLEAN
    OBVIOUS
  <2> HIDE DEF E, t
  <2> QED BY <2>1, <2>2
<1> HIDE DEF t
<1>8. /\ tokens' \in Seq(Token) /\ sentences' \in Seq(Seq(Token)) /\ pc' \in {"idle", "spaces"}
      /\ TokensCoverText' /\ SentenceInv'
  <2>1. \A at \in t.start..Behind(t) - 1 : ~is_space(at)
    BY <1>4, <1>6
  <2> QED BY <1>1, <1>2, <1>6, <1>7, <2>1, GotoKept DEF IInv, model
<1>9. TypeInv'
  <2>1. current' \in 1..size + 1 /\ CaughtUp(end) \in Nat
    BY <1>1, <1>3, <1>4, <1>5 DEF IInv, TypeInv
  <2> QED BY <1>1, <1>8, <2>1 DEF IInv, TypeInv
<1>10. WindowInv'
  <2>1. \A k : Follows(network_offsets, network_outcomes, k)' <=> Follows(network_offsets, network_outcomes, k)
    BY <1>1, SameTextInv
  <2> QED BY <1>1, <1>2, <1>5, <2>1 DEF IInv, WindowInv
<1>11. CursorInv'
  BY <1>8 DEF CursorInv
<1> QED BY <1>8, <1>9, <1>10, <1>11 DEF IInv

LEMMA SlurpTokenKept == IInv /\ SlurpToken => IInv'
<1> SUFFICES ASSUME IInv, SlurpToken PROVE IInv'
  OBVIOUS
<1>1. UNCHANGED <<chars, allow_spaces, segment, inputs, token_start>> /\ pc = "slurp" /\ size' = size
  BY DEF SlurpToken, model, size
<1>2. /\ size \in Nat /\ current \in 1..size /\ current <= size /\ token_start \in 1..current
      /\ ~allow_spaces => \A at \in token_start..current : ~is_space(at)
  BY <1>1 DEF IInv, TypeInv, CursorInv, size
<1>3. /\ network_index' \in Nat /\ network_length' \in Nat
      /\ network_outcomes' \in Seq(Outcomes) /\ network_length' <= Len(network_outcomes')
      /\ network_offsets' \in Seq(Nat) /\ network_length' < Len(network_offsets')
      /\ network_index' \in 1..network_length' + 1
      /\ \A k \in 1..network_length' : Follows(network_offsets', network_outcomes', k)
      /\ network_index' <= network_length' => network_offsets'[network_index'] = current'
      /\ current' = NextStart(current) /\ current' \in current + 1..size + 1
      /\ Breaks(current', outcome)
  BY <1>1, <1>2, NextOutcome DEF IInv, SlurpToken
<1>4. ~allow_spaces => current' = current + 1 /\ \A at \in token_start..current' - 1 : ~is_space(at)
  <2> SUFFICES ASSUME ~allow_spaces PROVE current' = current + 1 /\ \A at \in token_start..current' - 1 : ~is_space(at)
    OBVIOUS
  <2>1. ~is_space(current)
    BY <1>2
  <2>2. current' = current + 1
    BY <1>2, <1>3, <2>1, NextOfLetter DEF IInv, TypeInv
  <2> QED BY <1>2, <2>2
<1>5. Stop = token_start /\ Reached = token_start
  BY <1>1 DEF Stop, Reached
<1>6. CASE outcome = NO_SPLIT /\ current' <= size /\ UNCHANGED <<pc, tokens, sentences>>
  <2>1. TypeInv'
    <3>1. current' \in 1..size + 1
      BY <1>2, <1>3
    <3> QED BY <1>1, <1>3, <1>6, <3>1 DEF IInv, TypeInv
  <2>2. WindowInv'
    BY <1>1, <1>3, SameTextInv DEF WindowInv
  <2>3. CursorInv'
    <3>1. ASSUME ~allow_spaces PROVE \A at \in token_start..current' : ~is_space(at)
      <4>1. ~is_space(current')
        BY <1>3, <1>6, <3>1 DEF Breaks
      <4> QED BY <1>2, <1>3, <1>4, <3>1, <4>1
    <3>2. token_start \in 1..current'
      BY <1>2, <1>3
    <3> QED BY <1>1, <1>6, <3>1, <3>2, SameTextInv DEF CursorInv
  <2>4. TokensCoverText'
    <3>1. Found' = Found /\ Reached' = Reached
      BY <1>1, <1>6 DEF Found, Reached
    <3> QED BY <1>1, <3>1, SameTextInv DEF IInv, TokensCoverText
  <2>5. SentenceInv'
    <3>1. Stop' = Stop
      BY <1>1, <1>6 DEF Stop
    <3> QED BY <1>1, <1>6, <3>1, SameTextInv DEF IInv, SentenceInv, ParagraphsEndSentences
  <2> QED BY <2>1, <2>2, <2>3, <2>4, <2>5 DEF IInv
<1>7. CASE Goto(outcome = END_OF_SENTENCE, Append(tokens, token(token_start, current')))
           /\ ~(outcome = NO_SPLIT /\ current' <= size)
  <2> DEFINE t == token(token_start, current')
  <2>1. t \in Token /\ t.start = token_start /\ t.length > 0 /\ Behind(t) = current'
    BY <1>2, <1>3 DEF token, Token, Behind
  <2>2. PICK eos \in BOOLEAN : eos <=> outcome = END_OF_SENTENCE
    OBVIOUS
  <2>3. Goto(eos, Append(tokens, t))
    BY <1>7, <2>2 DEF Goto
  <2> HIDE DEF t
  <2>4. ~allow_spaces => \A at \in t.start..Behind(t) - 1 : ~is_space(at)
    BY <1>4, <2>1
  <2>5. ~eos /\ ~IsAddress(t) /\ current' <= size /\ is_space(current') => ~Paragraph(current', NextStart(current'))
    BY <1>3, <2>2 DEF Breaks
  <2>6. /\ tokens' \in Seq(Token) /\ sentences' \in Seq(Seq(Token)) /\ pc' \in {"idle", "spaces"}
        /\ TokensCoverText' /\ SentenceInv'
    BY <1>1, <1>5, <2>1, <2>3, <2>4, <2>5, GotoKept DEF IInv, model
  <2>7. TypeInv'
    <3>1. current' \in 1..size + 1
      BY <1>2, <1>3
    <3> QED BY <1>1, <1>3, <2>6, <3>1 DEF IInv, TypeInv
  <2>8. WindowInv'
    BY <1>1, <1>3, SameTextInv DEF WindowInv
  <2>9. CursorInv'
    BY <2>6 DEF CursorInv
  <2> QED BY <2>6, <2>7, <2>8, <2>9 DEF IInv
<1> QED BY <1>6, <1>7 DEF SlurpToken

LEMMA StutterKept == IInv /\ UNCHANGED vars => IInv'
<1> SUFFICES ASSUME IInv, UNCHANGED vars PROVE IInv'
  OBVIOUS
<1>1. /\ UNCHANGED <<segment, allow_spaces, inputs, chars, current, pc, tokens, token_start, sentences>>
      /\ UNCHANGED <<network_index, network_length, network_outcomes, network_offsets>>
      /\ size' = size /\ Found' = Found /\ Reached' = Reached
  BY DEF vars, model, window, size, Found, Reached
<1>2. Stop' = Stop
  BY <1>1, SameTextInv DEF Stop
<1>3. TypeInv'
  BY <1>1 DEF IInv, TypeInv
<1>4. WindowInv'
  <2>1. \A k : Follows(network_offsets, network_outcomes, k)' <=> Follows(network_offsets, network_outcomes, k)
    BY <1>1, SameTextInv
  <2> QED BY <1>1, <2>1 DEF IInv, WindowInv
<1>5. CursorInv'
  BY <1>1, SameTextInv DEF IInv, CursorInv
<1>6. TokensCoverText' /\ SentenceInv'
  BY <1>1, <1>2, SameTextInv DEF IInv, TokensCoverText, SentenceInv, ParagraphsEndSentences
<1> QED BY <1>3, <1>4, <1>5, <1>6 DEF IInv

LEMMA StepKept == IInv /\ [Next]_vars => IInv'
BY SetTextKept, NextSentenceKept, SkipSpacesKept, EndTextKept, TokenizeAddressKept, BeginTokenKept, SlurpTokenKept,
   StutterKept DEF Next
-----------------------------------------------------------------------------
THEOREM Inductive == Spec => []IInv
<1>1. Init => IInv
  BY InitKept
<1>2. IInv /\ [Next]_vars => IInv'
  BY StepKept
<1> QED BY <1>1, <1>2, PTL DEF Spec

\* A window never loses the cursor: however the windows are cut, whatever address or other
\* text moves the cursor, the outcome that is used next is that of the item at the cursor.
THEOREM CursorStaysInWindow == Spec => []CursorInWindow
<1>1. IInv => CursorInWindow
  BY DEF IInv, WindowInv, CursorInWindow
<1> QED BY <1>1, Inductive, PTL

\* next_sentence returns every character of the text once, in tokens or as spaces between them;
\* without allow_spaces no token contains a space.
THEOREM TextIsCovered == Spec => []TokensCoverText
<1>1. IInv => TokensCoverText
  BY DEF IInv
<1> QED BY <1>1, Inductive, PTL

\* A sentence goes on behind an empty line only after an address.
THEOREM ParagraphsEnd == Spec => []ParagraphsEndSentences
<1>1. IInv => ParagraphsEndSentences
  BY DEF IInv, SentenceInv
<1> QED BY <1>1, Inductive, PTL
=============================================================================
