------------------------ MODULE ServiceResponseProofs -----------------------
(* What a client receives from the generators of the service, for any        *)
(* requests, any sizes of the buffers and any amount that is generated ahead. *)
EXTENDS ServiceResponse, SequenceTheorems, WellFoundedInduction, TLAPS

\* Induction up to a bound, for a set of numbers: there is no least counterexample.
LEMMA UpTo ==
  ASSUME NEW bound \in Nat, NEW S, 0 \in S, \A n \in 0..bound - 1 : n \in S => n + 1 \in S
  PROVE  \A n \in 0..bound : n \in S
<1> DEFINE Below == {p \in Nat \X Nat : p[1] < p[2]}
           Missing == {n \in 0..bound : n \notin S}
<1> SUFFICES ASSUME Missing # {} PROVE FALSE
  OBVIOUS
<1>1. IsWellFoundedOn(Below, Nat)
  BY NatLessThanWellFounded DEF OpToRel
<1>2. \A m, n \in Nat : n < m => <<n, m>> \in Below
  OBVIOUS
<1>3. Missing \in SUBSET Nat
  OBVIOUS
<1> HIDE DEF Below
<1>4. PICK m \in Missing : \A n \in Missing : ~ (<<n, m>> \in Below)
  BY <1>1, <1>3, WFMin
<1>5. m - 1 \in 0..bound - 1 /\ m - 1 + 1 = m
  BY <1>4
<1>6. m - 1 \in S
  <2>1. m \in Nat /\ m - 1 \in Nat /\ m - 1 < m
    BY <1>3, <1>5
  <2>2. m - 1 \notin Missing
    BY <1>2, <1>4, <2>1
  <2> QED BY <1>5, <2>2
<1> QED BY <1>4, <1>5, <1>6

-----------------------------------------------------------------------------
(* Folds. The operators that go through a sequence are all of this form.     *)

Folder(F, D, E) == F \in [D -> [E -> D]]

Fold(F, a, s) ==
  LET fold[k \in 0..Len(s)] == IF k = 0 THEN a ELSE F[fold[k - 1]][s[k]]
  IN  fold[Len(s)]

\* The values of a fold on the way.
Folds(F, a, s, r) == r[0] = a /\ \A k \in 1..Len(s) : r[k] = F[r[k - 1]][s[k]]

\* There are such values.
LEMMA FoldExists ==
  ASSUME NEW D, NEW E, NEW F, Folder(F, D, E), NEW a \in D, NEW s \in Seq(E)
  PROVE  \E r \in [0..Len(s) -> D] : Folds(F, a, s, r)
<1> DEFINE Steps(r, n) == r[0] = a /\ \A k \in 1..n : r[k] = F[r[k - 1]][s[k]]
           A == {n \in 0..Len(s) : \E r \in [0..n -> D] : Steps(r, n)}
<1>1. 0 \in A
  <2>1. [k \in 0..0 |-> a] \in [0..0 -> D] /\ Steps([k \in 0..0 |-> a], 0)
    OBVIOUS
  <2> HIDE DEF Steps
  <2> QED BY <2>1
<1>2. ASSUME NEW n \in 0..Len(s) - 1, n \in A PROVE n + 1 \in A
  <2>1. PICK r \in [0..n -> D] : Steps(r, n)
    BY <1>2
  <2>2. n + 1 \in 1..Len(s) /\ s[n + 1] \in E /\ r[n] \in D
    BY ElementOfSeq
  <2>3. F[r[n]][s[n + 1]] \in D
    BY <2>2 DEF Folder
  <2> DEFINE g == [k \in 0..n + 1 |-> IF k = n + 1 THEN F[r[n]][s[n + 1]] ELSE r[k]]
  <2>4. g \in [0..n + 1 -> D]
    <3>1. \A k \in 0..n + 1 : k # n + 1 => k \in 0..n
      OBVIOUS
    <3> QED BY <2>3, <3>1
  <2>5. g[0] = a
    BY <2>1
  <2>6. ASSUME NEW k \in 1..n + 1 PROVE g[k] = F[g[k - 1]][s[k]]
    <3>1. k \in 0..n + 1 /\ k - 1 \in 0..n /\ k - 1 # n + 1 /\ k - 1 \in 0..n + 1
      OBVIOUS
    <3>2. g[k - 1] = r[k - 1]
      BY <3>1
    <3>3. CASE k = n + 1
      BY <3>1, <3>2, <3>3
    <3>4. CASE k # n + 1
      <4>1. k \in 1..n /\ g[k] = r[k]
        BY <3>1, <3>4
      <4> QED BY <2>1, <3>2, <4>1
    <3> QED BY <3>3, <3>4
  <2>7. Steps(g, n + 1)
    BY <2>5, <2>6
  <2> HIDE DEF Steps, g
  <2> QED BY <2>4, <2>7
<1>3. Len(s) \in Nat
  OBVIOUS
<1>4. Len(s) \in A
  <2> HIDE DEF A
  <2>1. Len(s) \in 0..Len(s)
    BY <1>3
  <2>2. \A n \in 0..Len(s) : n \in A
    BY <1>1, <1>2, <1>3, UpTo
  <2> QED BY <2>1, <2>2
<1> QED BY <1>4 DEF Folds

\* They are unique.
LEMMA FoldsAgree ==
  ASSUME NEW s, Len(s) \in Nat, NEW F, NEW a, NEW r, NEW q, Folds(F, a, s, r), Folds(F, a, s, q)
  PROVE  \A k \in 0..Len(s) : r[k] = q[k]
<1> DEFINE A == {k \in 0..Len(s) : r[k] = q[k]}
<1>1. 0 \in A
  BY DEF Folds
<1>2. ASSUME NEW n \in 0..Len(s) - 1, n \in A PROVE n + 1 \in A
  <2>1. n + 1 \in 1..Len(s) /\ n + 1 - 1 = n
    OBVIOUS
  <2> QED BY <1>2, <2>1 DEF Folds
<1>3. \A k \in 0..Len(s) : k \in A
  <2> HIDE DEF A
  <2> QED BY <1>1, <1>2, UpTo
<1> QED BY <1>3

\* The value of a fold is the last one of any such values.
LEMMA FoldIs ==
  ASSUME NEW D, NEW E, NEW F, Folder(F, D, E), NEW a \in D, NEW s \in Seq(E), NEW q, Folds(F, a, s, q)
  PROVE  Fold(F, a, s) = q[Len(s)]
<1> DEFINE G(f) == f = [k \in 0..Len(s) |-> IF k = 0 THEN a ELSE F[f[k - 1]][s[k]]]
<1>1. PICK r \in [0..Len(s) -> D] : Folds(F, a, s, r)
  BY FoldExists
<1>2. G(r)
  <2>1. ASSUME NEW k \in 0..Len(s) PROVE r[k] = IF k = 0 THEN a ELSE F[r[k - 1]][s[k]]
    BY <1>1 DEF Folds
  <2> QED BY <2>1
<1>3. G(CHOOSE f : G(f))
  <2> HIDE DEF G
  <2> QED BY <1>2
<1> DEFINE c == CHOOSE f : G(f)
<1>4. Folds(F, a, s, c)
  <2> HIDE DEF c
  <2>1. G(c)
    BY <1>3 DEF c
  <2>2. \A k \in 0..Len(s) : c[k] = IF k = 0 THEN a ELSE F[c[k - 1]][s[k]]
    BY <2>1
  <2> HIDE DEF G
  <2>3. 0 \in 0..Len(s) /\ \A k \in 1..Len(s) : k \in 0..Len(s) /\ k # 0
    OBVIOUS
  <2> QED BY ONLY <2>2, <2>3 DEF Folds
<1>5. Fold(F, a, s) = c[Len(s)]
  BY DEF Fold
<1> HIDE DEF c
<1>6. Len(s) \in 0..Len(s)
  OBVIOUS
<1> QED BY <1>4, <1>5, <1>6, FoldsAgree

\* The value of a fold is of the type of its values.
LEMMA FoldType ==
  ASSUME NEW D, NEW E, NEW F, Folder(F, D, E), NEW a \in D, NEW s \in Seq(E)
  PROVE  Fold(F, a, s) \in D
<1>1. PICK r \in [0..Len(s) -> D] : Folds(F, a, s, r)
  BY FoldExists
<1>2. Fold(F, a, s) = r[Len(s)]
  BY <1>1, FoldIs
<1> QED BY <1>2

\* Nothing is done for an empty sequence.
LEMMA FoldNone ==
  ASSUME NEW D, NEW E, NEW F, Folder(F, D, E), NEW a \in D
  PROVE  Fold(F, a, <<>>) = a
<1>1. <<>> \in Seq(E) /\ Len(<<>>) = 0
  OBVIOUS
<1>2. PICK r \in [0..Len(<<>>) -> D] : Folds(F, a, <<>>, r)
  BY <1>1, FoldExists
<1>3. Fold(F, a, <<>>) = r[Len(<<>>)]
  BY <1>1, <1>2, FoldIs
<1>4. r[Len(<<>>)] = r[0]
  BY <1>1
<1> QED BY <1>2, <1>3, <1>4 DEF Folds

\* The last element comes last.
LEMMA FoldAppend ==
  ASSUME NEW D, NEW E, NEW F, Folder(F, D, E), NEW a \in D, NEW s \in Seq(E), NEW e \in E
  PROVE  Fold(F, a, Append(s, e)) = F[Fold(F, a, s)][e]
<1> DEFINE t == Append(s, e)
<1>1. t \in Seq(E) /\ Len(t) = Len(s) + 1 /\ t[Len(s) + 1] = e /\ \A k \in 1..Len(s) : t[k] = s[k]
  OBVIOUS
<1> HIDE DEF t
<1>2. PICK r \in [0..Len(t) -> D] : Folds(F, a, t, r)
  BY <1>1, FoldExists
<1>3. Folds(F, a, s, r)
  <2>1. r[0] = a
    BY <1>2 DEF Folds
  <2>2. ASSUME NEW k \in 1..Len(s) PROVE r[k] = F[r[k - 1]][s[k]]
    <3>1. k \in 1..Len(t) /\ t[k] = s[k]
      BY <1>1
    <3> QED BY <1>2, <3>1 DEF Folds
  <2> QED BY <2>1, <2>2 DEF Folds
<1>4. Fold(F, a, s) = r[Len(s)]
  BY <1>3, FoldIs
<1>6. Fold(F, a, t) = r[Len(t)]
  BY <1>1, <1>2, FoldIs
<1>5. r[Len(s) + 1] = F[r[Len(s)]][e]
  <2>1. Len(s) + 1 \in 1..Len(t) /\ Len(s) + 1 - 1 = Len(s)
    BY <1>1
  <2>2. r[Len(s) + 1] = F[r[Len(s) + 1 - 1]][t[Len(s) + 1]]
    BY <1>2, <2>1 DEF Folds
  <2>3. t[Len(s) + 1] = e
    BY <1>1
  <2> QED BY ONLY <2>1, <2>2, <2>3
<1>7. Len(t) = Len(s) + 1
  BY <1>1
<1>8. Fold(F, a, t) = F[Fold(F, a, s)][e]
  BY ONLY <1>4, <1>5, <1>6, <1>7
<1> QED BY ONLY <1>8 DEF t

\* What holds of the empty sequence, and of a sequence with one more element, holds of all.
LEMMA ByAppending ==
  ASSUME NEW E, NEW S, <<>> \in S, \A s \in Seq(E) : \A e \in E : s \in S => Append(s, e) \in S
  PROVE  Seq(E) \subseteq S
<1> SUFFICES ASSUME NEW t \in Seq(E) PROVE t \in S
  OBVIOUS
<1> DEFINE A == {n \in 0..Len(t) : \A s \in Seq(E) : Len(s) = n => s \in S}
<1>1. 0 \in A
  <2>1. \A s \in Seq(E) : Len(s) = 0 => s = <<>>
    BY EmptySeq
  <2> QED BY <2>1
<1>2. ASSUME NEW n \in 0..Len(t) - 1, n \in A PROVE n + 1 \in A
  <2>1. ASSUME NEW s \in Seq(E), Len(s) = n + 1 PROVE s \in S
    <3>1. PICK u \in Seq(E), e \in E : s = Append(u, e)
      <4>1. s # <<>>
        BY <2>1
      <4> QED BY <4>1, SequenceEmptyOrAppend
    <3>2. Len(u) = n
      <4>1. Len(u) \in Nat /\ Len(Append(u, e)) = Len(u) + 1
        BY <3>1
      <4> QED BY <2>1, <3>1, <4>1
    <3> QED BY <1>2, <3>1, <3>2
  <2> QED BY <2>1
<1>3. Len(t) \in A
  <2> HIDE DEF A
  <2>1. Len(t) \in Nat /\ Len(t) \in 0..Len(t)
    OBVIOUS
  <2>2. \A n \in 0..Len(t) : n \in A
    BY <1>1, <1>2, <2>1, UpTo
  <2> QED BY <2>1, <2>2
<1> QED BY <1>3

\* A fold over two sequences goes on where the first one ends.
LEMMA FoldConcat ==
  ASSUME NEW D, NEW E, NEW F, Folder(F, D, E), NEW a \in D, NEW s \in Seq(E), NEW t \in Seq(E)
  PROVE  Fold(F, a, s \o t) = Fold(F, Fold(F, a, s), t)
<1> DEFINE S == {u \in Seq(E) : Fold(F, a, s \o u) = Fold(F, Fold(F, a, s), u)}
<1>0. Fold(F, a, s) \in D
  BY FoldType
<1>1. <<>> \in S
  <2>1. s \o <<>> = s /\ <<>> \in Seq(E)
    OBVIOUS
  <2>2. Fold(F, Fold(F, a, s), <<>>) = Fold(F, a, s)
    BY <1>0, FoldNone
  <2> QED BY <2>1, <2>2, Zenon
<1>2. ASSUME NEW u \in Seq(E), NEW e \in E, u \in S PROVE Append(u, e) \in S
  <2>1. s \o Append(u, e) = Append(s \o u, e) /\ s \o u \in Seq(E) /\ Append(u, e) \in Seq(E)
    OBVIOUS
  <2>2. ASSUME NEW v \in Seq(E) PROVE Fold(F, a, Append(v, e)) = F[Fold(F, a, v)][e]
    BY FoldAppend
  <2>3. Fold(F, Fold(F, a, s), Append(u, e)) = F[Fold(F, Fold(F, a, s), u)][e]
    BY <1>0, FoldAppend
  <2>4. Fold(F, a, s \o u) = Fold(F, Fold(F, a, s), u)
    BY <1>2
  <2> QED BY <2>1, <2>2, <2>3, <2>4, Zenon
<1>3. Seq(E) \subseteq S
  <2> HIDE DEF S
  <2> QED BY <1>1, <1>2, ByAppending
<1> QED BY <1>3

-----------------------------------------------------------------------------
(* Selected tokens of a text.                                                *)

\* The words of a response: those of the request and those of the service. None is a quote.
Words == Pieces \cup
  {"model", "acknowledgements", "result", "id", "url", "model-url", "lemma", "l", "tag", "t", "analyses", "token",
   "space", "form", "<token lemma=", "tag=", ">", "<token>", "<analysis lemma=", "/>", "<sentence>", "</token>",
   "</sentence>", "\\t", "\\n"}
Tokens == Words \cup {"\"", "{", "}", "[", "]", ":", ",", " ", "\n"}
Streams == Seq(Tokens)
Selecting(tokens, among) == [c \in Streams |-> [e \in Tokens |-> IF (e \in tokens) = among THEN Append(c, e) ELSE c]]

LEMMA SelectingType ==
  ASSUME NEW tokens, NEW among PROVE Folder(Selecting(tokens, among), Streams, Tokens)
<1>1. \A c \in Streams : \A e \in Tokens : (IF (e \in tokens) = among THEN Append(c, e) ELSE c) \in Streams
  BY AppendProperties DEF Streams
<1> QED BY <1>1 DEF Folder, Selecting

\* Selected is a fold.
LEMMA SelectedIsFold ==
  ASSUME NEW tokens, NEW among, NEW text \in Streams
  PROVE  Selected(text, tokens, among) = Fold(Selecting(tokens, among), <<>>, text)
<1> DEFINE F == Selecting(tokens, among)
           Then(c, e) == IF (e \in tokens) = among THEN Append(c, e) ELSE c
           G(f) == f = [k \in 0..Len(text) |->
                          IF k = 0 THEN <<>> ELSE IF (text[k] \in tokens) = among THEN Append(f[k - 1], text[k]) ELSE f[k - 1]]
<1>0. <<>> \in Streams /\ text \in Seq(Tokens)
  BY DEF Streams
<1>1. Folder(F, Streams, Tokens)
  BY SelectingType
<1>2. \A c \in Streams : \A e \in Tokens : F[c][e] = Then(c, e)
  BY DEF Selecting
<1> HIDE DEF F
<1>3. PICK r \in [0..Len(text) -> Streams] : Folds(F, <<>>, text, r)
  BY <1>0, <1>1, FoldExists
<1>4. \A k \in 1..Len(text) : r[k] = Then(r[k - 1], text[k])
  <2> TAKE k \in 1..Len(text)
  <2>1. k - 1 \in 0..Len(text) /\ text[k] \in Tokens
    BY ElementOfSeq DEF Streams
  <2>2. r[k] = F[r[k - 1]][text[k]]
    BY <1>3 DEF Folds
  <2> HIDE DEF Then
  <2> QED BY <1>2, <2>1, <2>2
<1>5. G(r)
  <2>1. \A k \in 0..Len(text) : r[k] = IF k = 0 THEN <<>> ELSE Then(r[k - 1], text[k])
    <3> TAKE k \in 0..Len(text)
    <3>1. CASE k = 0
      BY <1>3, <3>1 DEF Folds
    <3>2. CASE k # 0
      <4>1. k \in 1..Len(text)
        BY <3>2
      <4> HIDE DEF Then
      <4> QED BY <1>4, <3>2, <4>1
    <3> QED BY <3>1, <3>2
  <2> QED BY <2>1
<1> DEFINE c == CHOOSE f : G(f)
<1>6. G(c)
  <2> HIDE DEF G
  <2> QED BY <1>5
<1>7. Selected(text, tokens, among) = c[Len(text)]
  BY DEF Selected
<1> HIDE DEF c
<1>8. \A k \in 0..Len(text) : c[k] = IF k = 0 THEN <<>> ELSE Then(c[k - 1], text[k])
  BY <1>6
<1> HIDE DEF Then, G
<1> DEFINE A == {k \in 0..Len(text) : c[k] = r[k]}
<1>9. 0 \in A
  BY <1>3, <1>8 DEF Folds
<1>10. ASSUME NEW n \in 0..Len(text) - 1, n \in A PROVE n + 1 \in A
  <2>1. n + 1 \in 1..Len(text) /\ n + 1 \in 0..Len(text) /\ n + 1 # 0 /\ n + 1 - 1 = n
    BY DEF Streams
  <2> QED BY <1>4, <1>8, <1>10, <2>1
<1>11. Len(text) \in Nat /\ Len(text) \in 0..Len(text)
  BY DEF Streams
<1>12. \A k \in 0..Len(text) : k \in A
  <2> HIDE DEF A
  <2> QED BY <1>9, <1>10, <1>11, UpTo
<1>13. r[Len(text)] = Fold(F, <<>>, text)
  BY <1>0, <1>1, <1>3, FoldIs
<1> QED BY <1>7, <1>11, <1>12, <1>13 DEF F

\* Nothing is selected from nothing.
LEMMA SelectedNone ==
  ASSUME NEW tokens, NEW among PROVE Selected(<<>>, tokens, among) = <<>>
<1>1. <<>> \in Streams
  BY DEF Streams
<1> QED BY <1>1, SelectedIsFold, SelectingType, FoldNone

\* The last token is selected, or not.
LEMMA SelectedAppend ==
  ASSUME NEW tokens, NEW among, NEW s \in Streams, NEW e \in Tokens
  PROVE  /\ Selected(s, tokens, among) \in Streams
         /\ Selected(Append(s, e), tokens, among) =
              IF (e \in tokens) = among THEN Append(Selected(s, tokens, among), e) ELSE Selected(s, tokens, among)
<1> DEFINE F == Selecting(tokens, among)
<1>1. <<>> \in Streams /\ Append(s, e) \in Streams /\ s \in Seq(Tokens)
  BY AppendProperties DEF Streams
<1>2. Folder(F, Streams, Tokens)
  BY SelectingType
<1>3. Selected(s, tokens, among) = Fold(F, <<>>, s) /\ Selected(Append(s, e), tokens, among) = Fold(F, <<>>, Append(s, e))
  BY <1>1, SelectedIsFold
<1> HIDE DEF F
<1>4. Fold(F, <<>>, s) \in Streams
  BY <1>1, <1>2, FoldType
<1>5. Fold(F, <<>>, Append(s, e)) = F[Fold(F, <<>>, s)][e]
  BY <1>1, <1>2, FoldAppend
<1>6. \A c \in Streams : F[c][e] = IF (e \in tokens) = among THEN Append(c, e) ELSE c
  BY DEF F, Selecting
<1> QED BY <1>3, <1>4, <1>5, <1>6

\* A selection is a text.
LEMMA SelectedType ==
  ASSUME NEW tokens, NEW among, NEW s \in Streams PROVE Selected(s, tokens, among) \in Streams
<1>1. "{" \in Tokens
  BY DEF Tokens
<1> QED BY <1>1, SelectedAppend

\* Appending to two texts is appending to the second one.
LEMMA AppendLast ==
  ASSUME NEW s \in Streams, NEW t \in Streams, NEW e \in Tokens
  PROVE  Append(s \o t, e) = s \o Append(t, e)
BY DEF Streams

\* What is selected from two texts follows one another.
LEMMA SelectedConcat ==
  ASSUME NEW tokens, NEW among, NEW s \in Streams, NEW t \in Streams
  PROVE  Selected(s \o t, tokens, among) = Selected(s, tokens, among) \o Selected(t, tokens, among)
<1> DEFINE Sel(u) == Selected(u, tokens, among)
           S == {u \in Streams : Sel(s \o u) = Sel(s) \o Sel(u)}
<1>0. \A u \in Streams : Sel(u) \in Streams
  BY SelectedType
<1>1. <<>> \in S
  <2>1. s \o <<>> = s /\ Sel(s) \o <<>> = Sel(s) /\ <<>> \in Streams
    BY <1>0 DEF Streams
  <2> QED BY <2>1, SelectedNone
<1>2. ASSUME NEW u \in Streams, NEW e \in Tokens, u \in S PROVE Append(u, e) \in S
  <2> DEFINE v == s \o u
  <2>1. s \o Append(u, e) = Append(v, e) /\ v \in Streams /\ Append(u, e) \in Streams
    BY DEF Streams
  <2>2. Sel(v) = Sel(s) \o Sel(u)
    BY <1>2
  <2> HIDE DEF v
  <2>3. Sel(Append(v, e)) = IF (e \in tokens) = among THEN Append(Sel(v), e) ELSE Sel(v)
    BY <2>1, SelectedAppend
  <2>4. Sel(Append(u, e)) = IF (e \in tokens) = among THEN Append(Sel(u), e) ELSE Sel(u)
    BY SelectedAppend
  <2>5. Sel(s) \in Streams /\ Sel(u) \in Streams
    BY <1>0
  <2> HIDE DEF Sel
  <2>6. Append(Sel(s) \o Sel(u), e) = Sel(s) \o Append(Sel(u), e)
    BY <2>5, AppendLast, Zenon
  <2>7. Sel(Append(v, e)) = Sel(s) \o Sel(Append(u, e))
    BY <2>2, <2>3, <2>4, <2>6
  <2> QED BY <2>1, <2>7
<1>3. Seq(Tokens) \subseteq S
  <2> HIDE DEF S
  <2> QED BY <1>1, <1>2, ByAppending DEF Streams
<1> QED BY <1>3 DEF Streams

-----------------------------------------------------------------------------
(* What the operations of a builder have in common.                          *)

Brackets == {"}", "]"}
BuilderModes == {"NORMAL", "IN_VALUE", "AFTER_VALUE"}
Builders == [json : Streams, stack : Seq(Brackets), mode : BuilderModes, need_indent : BOOLEAN]
Ops == [do : {"object", "array", "key", "value", "append", "indent", "close", "finish"}, text : Seq(Words)]

\* A builder becomes another one by adding a text with the given content.
Adds(b, d, text) == d \in Builders /\ \E t \in Streams : d.json = b.json \o t /\ Content(t) = text

\* The same, with the rest of what it is then.
Becomes(b, d, text, stack, mode, need_indent) ==
  Adds(b, d, text) /\ d.stack = stack /\ d.mode = mode /\ d.need_indent = need_indent

\* Two builders that differ in what was discarded, g, and in layout.
Behind(g, b, c) ==
  /\ b.stack = c.stack /\ b.mode = c.mode /\ b.need_indent = c.need_indent
  /\ Content(c.json) = g \o Content(b.json)

\* The fields of a builder.
LEMMA Fields ==
  ASSUME NEW b \in Builders
  PROVE  /\ b.json \in Streams /\ b.stack \in Seq(Brackets) /\ b.mode \in BuilderModes /\ b.need_indent \in BOOLEAN
         /\ \A t \in Streams : b.json \o t \in Streams
BY DEF Builders, Streams

LEMMA Pushed ==
  ASSUME NEW b \in Builders, NEW t \in Streams
  PROVE  /\ Push(b, t) \in Builders
         /\ Push(b, t).json = b.json \o t /\ Push(b, t).stack = b.stack
         /\ Push(b, t).mode = b.mode /\ Push(b, t).need_indent = b.need_indent
<1>1. b.json \o t \in Streams
  BY Fields
<1> QED BY <1>1 DEF Builders, Push

LEMMA ModeSet ==
  ASSUME NEW b \in Builders, NEW m \in BuilderModes
  PROVE  LET d == [b EXCEPT !.mode = m] IN
         /\ d \in Builders /\ d.json = b.json /\ d.stack = b.stack /\ d.mode = m /\ d.need_indent = b.need_indent
BY DEF Builders

LEMMA IndentSet ==
  ASSUME NEW b \in Builders, NEW m \in BOOLEAN
  PROVE  LET d == [b EXCEPT !.need_indent = m] IN
         /\ d \in Builders /\ d.json = b.json /\ d.stack = b.stack /\ d.mode = b.mode /\ d.need_indent = m
BY DEF Builders

LEMMA StackSet ==
  ASSUME NEW b \in Builders, NEW s \in Seq(Brackets)
  PROVE  LET d == [b EXCEPT !.stack = s] IN
         /\ d \in Builders /\ d.json = b.json /\ d.stack = s /\ d.mode = b.mode /\ d.need_indent = b.need_indent
BY DEF Builders

\* A short text.
LEMMA ShortTexts ==
  /\ <<>> \in Streams
  /\ \A e \in Tokens : <<e>> \in Streams
  /\ \A e \in {"\"", "{", "}", "[", "]", ":", ",", " ", "\n"} : e \in Tokens
  /\ Seq(Words) \subseteq Streams
<1>1. Words \subseteq Tokens
  BY DEF Tokens
<1>2. \A s \in Seq(Words) : s \in Seq(Tokens)
  BY <1>1, SeqMonotonic
<1>3. \A e \in Tokens : <<e>> \in Seq(Tokens)
  OBVIOUS
<1>4. \A e \in {"\"", "{", "}", "[", "]", ":", ",", " ", "\n"} : e \in Tokens
  BY DEF Tokens
<1>5. <<>> \in Seq(Tokens)
  OBVIOUS
<1> QED BY <1>2, <1>3, <1>4, <1>5, Zenon DEF Streams

\* The content of two texts is that of one after that of the other; layout has none.
LEMMA ContentConcat ==
  ASSUME NEW s \in Streams, NEW t \in Streams
  PROVE  Content(s) \in Streams /\ Content(s \o t) = Content(s) \o Content(t)
BY SelectedType, SelectedConcat DEF Content

LEMMA ContentNone == Content(<<>>) = <<>>
BY SelectedNone DEF Content

LEMMA ContentAppend ==
  ASSUME NEW s \in Streams, NEW e \in Tokens
  PROVE  Content(Append(s, e)) = IF e \in Whitespace THEN Content(s) ELSE Append(Content(s), e)
<1>1. Content(Append(s, e)) = IF (e \in Whitespace) = FALSE THEN Append(Content(s), e) ELSE Content(s)
  BY SelectedAppend, Zenon DEF Content
<1> QED BY <1>1

LEMMA ContentOne ==
  ASSUME NEW e \in Tokens PROVE Content(<<e>>) = IF e \in Whitespace THEN <<>> ELSE <<e>>
<1>1. <<e>> = Append(<<>>, e) /\ <<>> \in Streams
  BY DEF Streams
<1>2. ASSUME NEW s \in Streams, Content(s) = <<>> PROVE Content(Append(s, e)) = IF e \in Whitespace THEN <<>> ELSE <<e>>
  BY <1>2, ContentAppend
<1> QED BY <1>1, <1>2, ContentNone, Zenon

\* Texts with nothing but layout have no content.
LEMMA ContentBlank ==
  ASSUME NEW s \in Seq(Whitespace) PROVE s \in Streams /\ Content(s) = <<>>
<1> DEFINE S == {u \in Streams : Content(u) = <<>>}
<1>1. Whitespace \subseteq Tokens
  BY DEF Whitespace, Tokens
<1>2. <<>> \in S
  BY ContentNone, ShortTexts
<1>3. ASSUME NEW u \in Seq(Whitespace), NEW e \in Whitespace, u \in S PROVE Append(u, e) \in S
  <2>1. e \in Tokens /\ u \in Streams /\ Content(u) = <<>>
    BY <1>1, <1>3
  <2>2. Append(u, e) \in Streams
    BY <2>1 DEF Streams
  <2>3. Content(Append(u, e)) = Content(u)
    BY <2>1, ContentAppend
  <2> QED BY <2>1, <2>2, <2>3
<1>4. Seq(Whitespace) \subseteq S
  <2> HIDE DEF S
  <2> QED BY <1>2, <1>3, ByAppending
<1> QED BY <1>4

LEMMA StreamConcat ==
  ASSUME NEW s \in Streams, NEW t \in Streams
  PROVE  s \o t \in Streams /\ \A u \in Streams : (s \o t) \o u = s \o (t \o u)
<1>1. s \o t \in Streams
  BY ConcatProperties DEF Streams
<1>2. ASSUME NEW u \in Streams PROVE (s \o t) \o u = s \o (t \o u)
  BY ConcatAssociative DEF Streams
<1> QED BY <1>1, <1>2

\* Nothing is added; one addition follows another.
LEMMA AddsNothing ==
  ASSUME NEW b \in Builders PROVE Adds(b, b, <<>>)
<1>1. b.json = b.json \o <<>> /\ <<>> \in Streams
  BY Fields DEF Streams
<1> QED BY <1>1, ContentNone DEF Adds

LEMMA AddsMore ==
  ASSUME NEW b \in Builders, NEW c, NEW d, NEW x, NEW y, Adds(b, c, x), Adds(c, d, y)
  PROVE  Adds(b, d, x \o y)
<1>1. PICK s \in Streams : c.json = b.json \o s /\ Content(s) = x
  BY DEF Adds
<1>2. PICK t \in Streams : d.json = c.json \o t /\ Content(t) = y
  BY DEF Adds
<1>3. d.json = b.json \o (s \o t) /\ s \o t \in Streams
  <2>1. b.json \in Streams
    BY Fields
  <2>2. d.json = (b.json \o s) \o t
    BY <1>1, <1>2
  <2>3. (b.json \o s) \o t = b.json \o (s \o t) /\ s \o t \in Streams
    BY <2>1, StreamConcat, Zenon
  <2> QED BY <2>2, <2>3, Zenon
<1>4. Content(s \o t) = x \o y
  <2>1. Content(s \o t) = Content(s) \o Content(t)
    BY ContentConcat, Zenon
  <2> QED BY <1>1, <1>2, <2>1, Zenon
<1>5. d \in Builders
  BY DEF Adds
<1> QED BY <1>3, <1>4, <1>5, Zenon DEF Adds

LEMMA AddsPushed ==
  ASSUME NEW b \in Builders, NEW t \in Streams, NEW d \in Builders, d.json = b.json \o t
  PROVE  Adds(b, d, Content(t))
BY DEF Adds

\* What a builder adds is content.
LEMMA AddsContent ==
  ASSUME NEW b \in Builders, NEW d, NEW x, Adds(b, d, x)
  PROVE  x \in Streams /\ Content(d.json) = Content(b.json) \o x
<1>1. PICK s \in Streams : d.json = b.json \o s /\ Content(s) = x
  BY DEF Adds
<1>2. b.json \in Streams
  BY Fields
<1>3. Content(s) \in Streams /\ Content(b.json \o s) = Content(b.json) \o Content(s)
  BY <1>2, ContentConcat, Zenon
<1> QED BY <1>1, <1>3, Zenon

\* Adding the same content keeps a builder behind another one.
LEMMA BehindAdded ==
  ASSUME NEW b \in Builders, NEW c \in Builders, NEW g \in Streams, Behind(g, b, c),
         NEW d, NEW e, NEW x, Adds(b, d, x), Adds(c, e, x),
         d.stack = e.stack, d.mode = e.mode, d.need_indent = e.need_indent
  PROVE  Behind(g, d, e)
<1>1. x \in Streams /\ Content(d.json) = Content(b.json) \o x /\ Content(e.json) = Content(c.json) \o x
  BY AddsContent, Zenon
<1>2. Content(c.json) = g \o Content(b.json)
  BY DEF Behind
<1>3. Content(b.json) \in Streams
  BY Fields, ContentConcat
<1>4. (g \o Content(b.json)) \o x = g \o (Content(b.json) \o x)
  BY <1>1, <1>3, StreamConcat, Zenon
<1>5. Content(e.json) = g \o Content(d.json)
  BY <1>1, <1>2, <1>4, Zenon
<1> QED BY <1>5 DEF Behind

-----------------------------------------------------------------------------
(* What each operation adds.                                                 *)

\* The end of a string that is open, and a comma before something new.
Joint(mode, start_value) ==
  IF mode = "IN_VALUE" THEN IF start_value THEN <<"\"">> \o <<",">> ELSE <<"\"">>
  ELSE IF mode = "AFTER_VALUE" /\ start_value THEN <<",">> ELSE <<>>

LEMMA QuoteClosedAdds ==
  ASSUME NEW b \in Builders
  PROVE  Becomes(b, QuoteClosed(b), Joint(b.mode, FALSE), b.stack,
                 IF b.mode = "IN_VALUE" THEN "AFTER_VALUE" ELSE b.mode, b.need_indent)
<1>1. CASE b.mode = "IN_VALUE"
  <2> DEFINE c == Push(b, <<"\"">>)
             d == [c EXCEPT !.mode = "AFTER_VALUE"]
  <2>1. <<"\"">> \in Streams /\ Content(<<"\"">>) = <<"\"">>
    BY ShortTexts, ContentOne DEF Whitespace
  <2>2. c \in Builders /\ c.json = b.json \o <<"\"">> /\ c.stack = b.stack /\ c.need_indent = b.need_indent
    BY <2>1, Pushed
  <2> HIDE DEF c
  <2>3. d \in Builders /\ d.json = c.json /\ d.stack = c.stack /\ d.mode = "AFTER_VALUE" /\ d.need_indent = c.need_indent
    BY <2>2, ModeSet DEF BuilderModes
  <2>4. d = QuoteClosed(b)
    BY <1>1 DEF QuoteClosed, c
  <2> HIDE DEF d
  <2>5. Adds(b, d, Content(<<"\"">>))
    BY <2>1, <2>2, <2>3, AddsPushed
  <2>6. Joint(b.mode, FALSE) = <<"\"">>
    BY <1>1 DEF Joint
  <2> QED BY <1>1, <2>1, <2>2, <2>3, <2>4, <2>5, <2>6 DEF Becomes
<1>2. CASE b.mode # "IN_VALUE"
  BY <1>2, AddsNothing DEF QuoteClosed, Becomes, Joint
<1> QED BY <1>1, <1>2

LEMMA SeparatedAdds ==
  ASSUME NEW b \in Builders, b.mode # "IN_VALUE"
  PROVE  Becomes(b, Separated(b), Joint(b.mode, TRUE), b.stack, "NORMAL", b.need_indent)
<1>1. CASE b.mode = "AFTER_VALUE"
  <2> DEFINE c == Push(b, <<",">>)
             d == [c EXCEPT !.mode = "NORMAL"]
  <2>1. <<",">> \in Streams /\ Content(<<",">>) = <<",">>
    BY ShortTexts, ContentOne DEF Whitespace
  <2>2. c \in Builders /\ c.json = b.json \o <<",">> /\ c.stack = b.stack /\ c.need_indent = b.need_indent
    BY <2>1, Pushed
  <2> HIDE DEF c
  <2>3. d \in Builders /\ d.json = c.json /\ d.stack = c.stack /\ d.mode = "NORMAL" /\ d.need_indent = c.need_indent
    BY <2>2, ModeSet DEF BuilderModes
  <2>4. d = Separated(b)
    BY <1>1 DEF Separated, c
  <2> HIDE DEF d
  <2>5. Adds(b, d, Content(<<",">>))
    BY <2>1, <2>2, <2>3, AddsPushed
  <2>6. Joint(b.mode, TRUE) = <<",">>
    BY <1>1 DEF Joint
  <2> QED BY <2>1, <2>2, <2>3, <2>4, <2>5, <2>6 DEF Becomes
<1>2. CASE b.mode # "AFTER_VALUE"
  <2>1. b.mode = "NORMAL"
    BY <1>2, Fields DEF BuilderModes
  <2> QED BY <2>1, AddsNothing DEF Separated, Becomes, Joint
<1> QED BY <1>1, <1>2

LEMMA IndentedAdds ==
  ASSUME NEW b \in Builders
  PROVE  Becomes(b, Indented(b), <<>>, b.stack, b.mode, FALSE)
<1>1. CASE ~ b.need_indent
  <2>1. b.need_indent = FALSE
    BY <1>1, Fields
  <2> QED BY <2>1, AddsNothing DEF Indented, Becomes
<1>2. CASE b.need_indent
  <2> DEFINE t == IF b.json # <<>> /\ Last(b.json) = ":" THEN <<" ">> ELSE <<"\n">> \o [k \in DOMAIN b.stack |-> " "]
             c == Push(b, t)
             d == [c EXCEPT !.need_indent = FALSE]
  <2>1. t \in Seq(Whitespace)
    <3>1. <<" ">> \in Seq(Whitespace) /\ <<"\n">> \in Seq(Whitespace)
      BY DEF Whitespace
    <3>2. [k \in DOMAIN b.stack |-> " "] \in Seq(Whitespace)
      <4>1. " " \in Whitespace /\ DOMAIN b.stack = 1..Len(b.stack) /\ Len(b.stack) \in Nat
        BY Fields DEF Whitespace
      <4> DEFINE f == [k \in DOMAIN b.stack |-> " "]
                 n == Len(b.stack)
      <4>2. f \in [1..n -> Whitespace] /\ n \in Nat
        BY <4>1
      <4> HIDE DEF f, n
      <4>3. f \in Seq(Whitespace)
        BY <4>2
      <4> QED BY <4>3 DEF f
    <3>3. <<"\n">> \o [k \in DOMAIN b.stack |-> " "] \in Seq(Whitespace)
      BY <3>1, <3>2, ConcatProperties
    <3> QED BY <3>1, <3>3, Zenon
  <2>2. t \in Streams /\ Content(t) = <<>>
    <3> HIDE DEF t
    <3> QED BY <2>1, ContentBlank
  <2>3. d = Indented(b)
    BY <1>2 DEF Indented
  <2> HIDE DEF t
  <2>4. c \in Builders /\ c.json = b.json \o t /\ c.stack = b.stack /\ c.mode = b.mode
    BY <2>2, Pushed
  <2> HIDE DEF c
  <2>5. d \in Builders /\ d.json = c.json /\ d.stack = c.stack /\ d.mode = c.mode /\ d.need_indent = FALSE
    BY <2>4, IndentSet
  <2> HIDE DEF d
  <2>6. Adds(b, d, Content(t))
    BY <2>2, <2>4, <2>5, AddsPushed
  <2> QED BY <2>2, <2>3, <2>4, <2>5, <2>6 DEF Becomes
<1> QED BY <1>1, <1>2

LEMMA NormalizeAdds ==
  ASSUME NEW b \in Builders, NEW start_value \in BOOLEAN
  PROVE  Becomes(b, normalize_mode(b, start_value), Joint(b.mode, start_value), b.stack,
                 IF start_value THEN "NORMAL" ELSE IF b.mode = "IN_VALUE" THEN "AFTER_VALUE" ELSE b.mode, FALSE)
<1> DEFINE q == QuoteClosed(b)
           p == IF start_value THEN Separated(q) ELSE q
           d == Indented(p)
<1>1. Becomes(b, q, Joint(b.mode, FALSE), b.stack, IF b.mode = "IN_VALUE" THEN "AFTER_VALUE" ELSE b.mode, b.need_indent)
  BY QuoteClosedAdds
<1>2. d = normalize_mode(b, start_value)
  BY DEF normalize_mode
<1> HIDE DEF q
<1>3. q \in Builders /\ q.mode # "IN_VALUE" /\ Adds(b, q, Joint(b.mode, FALSE)) /\ q.stack = b.stack
      /\ q.mode = IF b.mode = "IN_VALUE" THEN "AFTER_VALUE" ELSE b.mode
  BY <1>1 DEF Becomes, Adds
<1>4. /\ p \in Builders /\ Adds(b, p, Joint(b.mode, start_value)) /\ p.stack = b.stack
      /\ p.mode = IF start_value THEN "NORMAL" ELSE q.mode
  <2>1. CASE start_value
    <3>1. Becomes(q, Separated(q), Joint(q.mode, TRUE), q.stack, "NORMAL", q.need_indent)
      BY <1>3, SeparatedAdds
    <3>2. p \in Builders /\ Adds(q, p, Joint(q.mode, TRUE)) /\ p.stack = b.stack /\ p.mode = "NORMAL"
      BY <1>3, <2>1, <3>1 DEF Becomes, Adds
    <3>3. Adds(b, p, Joint(b.mode, FALSE) \o Joint(q.mode, TRUE))
      BY <1>3, <3>2, AddsMore, Zenon
    <3>4. Joint(b.mode, FALSE) \o Joint(q.mode, TRUE) = Joint(b.mode, start_value)
      <4>1. CASE b.mode = "IN_VALUE"
        <5>1. Joint(b.mode, FALSE) = <<"\"">> /\ Joint(q.mode, TRUE) = <<",">>
          BY <1>3, <2>1, <4>1 DEF Joint
        <5>2. Joint(b.mode, start_value) = <<"\"">> \o <<",">>
          BY <2>1, <4>1 DEF Joint
        <5> QED BY <5>1, <5>2, Zenon
      <4>2. CASE b.mode # "IN_VALUE"
        <5>1. Joint(b.mode, FALSE) = <<>> /\ q.mode = b.mode /\ Joint(b.mode, start_value) = Joint(b.mode, TRUE)
          BY <1>3, <2>1, <4>2 DEF Joint
        <5>2. <<>> \o Joint(b.mode, TRUE) = Joint(b.mode, TRUE)
          BY DEF Joint
        <5> QED BY <5>1, <5>2, Zenon
      <4> QED BY <4>1, <4>2
    <3> QED BY <2>1, <3>2, <3>3, <3>4
  <2>2. CASE ~ start_value
    BY <1>3, <2>2
  <2> QED BY <2>1, <2>2
<1> HIDE DEF p
<1>5. Becomes(p, d, <<>>, p.stack, p.mode, FALSE)
  BY <1>4, IndentedAdds
<1> HIDE DEF d
<1>6. Adds(b, d, Joint(b.mode, start_value) \o <<>>)
  BY <1>4, <1>5, AddsMore, Zenon DEF Becomes
<1>7. Joint(b.mode, start_value) \o <<>> = Joint(b.mode, start_value)
  BY DEF Joint
<1> QED BY <1>2, <1>3, <1>4, <1>5, <1>6, <1>7 DEF Becomes

\* Pushing comes after what was added.
LEMMA BecomesPushed ==
  ASSUME NEW b \in Builders, NEW c, NEW x, NEW stack, NEW mode, NEW need_indent,
         Becomes(b, c, x, stack, mode, need_indent), NEW t \in Streams
  PROVE  Push(c, t) \in Builders /\ Becomes(b, Push(c, t), x \o Content(t), stack, mode, need_indent)
<1> DEFINE d == Push(c, t)
<1>1. c \in Builders /\ Adds(b, c, x) /\ c.stack = stack /\ c.mode = mode /\ c.need_indent = need_indent
  BY DEF Becomes, Adds
<1>2. d \in Builders /\ d.json = c.json \o t /\ d.stack = c.stack /\ d.mode = c.mode /\ d.need_indent = c.need_indent
  BY <1>1, Pushed
<1> HIDE DEF d
<1>3. Adds(c, d, Content(t))
  BY <1>1, <1>2, AddsPushed
<1>4. Adds(b, d, x \o Content(t))
  BY <1>1, <1>3, AddsMore, Zenon
<1>5. d \in Builders /\ Becomes(b, d, x \o Content(t), stack, mode, need_indent)
  BY <1>1, <1>2, <1>4 DEF Becomes
<1> QED BY <1>5 DEF d

LEMMA OpenedAdds ==
  ASSUME NEW b \in Builders, NEW open \in {"{", "["}, NEW close \in Brackets
  PROVE  Becomes(b, Opened(b, open, close), Joint(b.mode, TRUE) \o <<open>>, Append(b.stack, close), "NORMAL", FALSE)
<1> DEFINE n == normalize_mode(b, TRUE)
           c == Push(n, <<open>>)
           d == [c EXCEPT !.stack = Append(b.stack, close)]
<1>1. Becomes(b, n, Joint(b.mode, TRUE), b.stack, "NORMAL", FALSE)
  BY NormalizeAdds
<1> HIDE DEF n
<1>2. <<open>> \in Streams /\ Content(<<open>>) = <<open>>
  <2>1. open \in Tokens /\ open \notin Whitespace
    BY ShortTexts DEF Whitespace
  <2> QED BY <2>1, ShortTexts, ContentOne
<1>3. c \in Builders /\ Becomes(b, c, Joint(b.mode, TRUE) \o <<open>>, b.stack, "NORMAL", FALSE)
  BY <1>1, <1>2, BecomesPushed
<1>4. d = Opened(b, open, close)
  <2>1. c.stack = b.stack
    BY <1>3 DEF Becomes
  <2> QED BY <2>1 DEF Opened, n
<1> HIDE DEF c
<1>5. Append(b.stack, close) \in Seq(Brackets)
  <2>1. b.stack \in Seq(Brackets)
    BY Fields
  <2> QED BY <2>1, AppendProperties
<1>6. d \in Builders /\ d.json = c.json /\ d.stack = Append(b.stack, close) /\ d.mode = c.mode /\ d.need_indent = c.need_indent
  BY <1>3, <1>5, StackSet
<1> HIDE DEF d
<1>7. Adds(b, d, Joint(b.mode, TRUE) \o <<open>>)
  BY <1>3, <1>6, Zenon DEF Becomes, Adds
<1> QED BY <1>3, <1>4, <1>6, <1>7 DEF Becomes

\* A key, as it is read.
Quoted(str) == <<"\"">> \o str \o <<"\"", ":">>

LEMMA KeyAdds ==
  ASSUME NEW b \in Builders, NEW str \in Seq(Words)
  PROVE  Quoted(str) \in Streams
         /\ Becomes(b, KeyAdded(b, str), Joint(b.mode, TRUE) \o Content(Quoted(str)), b.stack, "NORMAL", FALSE)
<1>1. Becomes(b, normalize_mode(b, TRUE), Joint(b.mode, TRUE), b.stack, "NORMAL", FALSE)
  BY NormalizeAdds
<1>2. Quoted(str) \in Streams
  <2>1. str \in Streams /\ <<"\"">> \in Streams
    BY ShortTexts
  <2>2. <<"\"", ":">> \in Streams
    <3>1. "\"" \in Tokens /\ ":" \in Tokens
      BY ShortTexts
    <3>2. \A x, y \in Tokens : <<x, y>> \in Seq(Tokens)
      OBVIOUS
    <3> QED BY <3>1, <3>2, Zenon DEF Streams
  <2>3. <<"\"">> \o str \in Streams
    BY <2>1, StreamConcat
  <2> QED BY <2>2, <2>3, StreamConcat DEF Quoted
<1> QED BY <1>1, <1>2, BecomesPushed, Zenon DEF KeyAdded, Quoted

LEMMA ValueStartedAdds ==
  ASSUME NEW b \in Builders
  PROVE  Becomes(b, ValueStarted(b), Joint(b.mode, TRUE) \o <<"\"">>, b.stack, "IN_VALUE", FALSE)
<1> DEFINE c == Push(normalize_mode(b, TRUE), <<"\"">>)
           d == [c EXCEPT !.mode = "IN_VALUE"]
<1>1. Becomes(b, normalize_mode(b, TRUE), Joint(b.mode, TRUE), b.stack, "NORMAL", FALSE)
  BY NormalizeAdds
<1>2. <<"\"">> \in Streams /\ Content(<<"\"">>) = <<"\"">>
  BY ShortTexts, ContentOne DEF Whitespace
<1>3. c \in Builders /\ Becomes(b, c, Joint(b.mode, TRUE) \o <<"\"">>, b.stack, "NORMAL", FALSE)
  BY <1>1, <1>2, BecomesPushed
<1>4. d = ValueStarted(b)
  BY DEF ValueStarted
<1> HIDE DEF c
<1>5. d \in Builders /\ d.json = c.json /\ d.stack = c.stack /\ d.mode = "IN_VALUE" /\ d.need_indent = c.need_indent
  BY <1>3, ModeSet DEF BuilderModes
<1> HIDE DEF d
<1>6. Adds(b, d, Joint(b.mode, TRUE) \o <<"\"">>)
  BY <1>3, <1>5, Zenon DEF Becomes, Adds
<1> QED BY <1>3, <1>4, <1>5, <1>6 DEF Becomes

LEMMA ValueAdds ==
  ASSUME NEW b \in Builders, NEW str \in Seq(Words)
  PROVE  Becomes(b, ValueAdded(b, str), (Joint(b.mode, TRUE) \o <<"\"">>) \o Content(str), b.stack, "IN_VALUE", FALSE)
<1>1. str \in Streams
  BY ShortTexts
<1>2. Becomes(b, ValueStarted(b), Joint(b.mode, TRUE) \o <<"\"">>, b.stack, "IN_VALUE", FALSE)
  BY ValueStartedAdds
<1> QED BY <1>1, <1>2, BecomesPushed, Zenon DEF ValueAdded

LEMMA AppendAdds ==
  ASSUME NEW b \in Builders, NEW str \in Seq(Words), b.mode = "IN_VALUE"
  PROVE  Becomes(b, ValueAppended(b, str), <<>> \o Content(str), b.stack, "IN_VALUE", b.need_indent)
<1>1. str \in Streams
  BY ShortTexts
<1>2. Becomes(b, b, <<>>, b.stack, "IN_VALUE", b.need_indent)
  BY AddsNothing DEF Becomes
<1>3. ValueAppended(b, str) = Push(b, str)
  BY DEF ValueAppended
<1> QED BY <1>1, <1>2, <1>3, BecomesPushed, Zenon

LEMMA IndentAdds ==
  ASSUME NEW b \in Builders, ~ b.need_indent
  PROVE  Becomes(b, IndentAsked(b), Joint(b.mode, FALSE), b.stack, IF b.mode = "IN_VALUE" THEN "AFTER_VALUE" ELSE b.mode, TRUE)
<1> DEFINE c == normalize_mode(b, FALSE)
           d == [c EXCEPT !.need_indent = TRUE]
<1>1. Becomes(b, c, Joint(b.mode, FALSE), b.stack, IF b.mode = "IN_VALUE" THEN "AFTER_VALUE" ELSE b.mode, FALSE)
  BY NormalizeAdds
<1>2. d = IndentAsked(b)
  BY DEF IndentAsked
<1> HIDE DEF c
<1>3. c \in Builders
  BY <1>1 DEF Becomes, Adds
<1>4. d \in Builders /\ d.json = c.json /\ d.stack = c.stack /\ d.mode = c.mode /\ d.need_indent = TRUE
  BY <1>3, IndentSet
<1> HIDE DEF d
<1>5. Adds(b, d, Joint(b.mode, FALSE))
  BY <1>1, <1>4, Zenon DEF Becomes, Adds
<1> QED BY <1>1, <1>2, <1>4, <1>5 DEF Becomes

LEMMA CloseAdds ==
  ASSUME NEW b \in Builders, b.stack # <<>>
  PROVE  Becomes(b, Closed(b), Joint(b.mode, FALSE) \o <<Last(b.stack)>>, Front(b.stack), "AFTER_VALUE", FALSE)
<1> DEFINE a == [b EXCEPT !.stack = Front(b.stack)]
           n == normalize_mode(a, FALSE)
           c == Push(n, <<Last(b.stack)>>)
           d == [c EXCEPT !.mode = "AFTER_VALUE"]
<1>1. d = Closed(b)
  BY DEF Closed
<1>2. Front(b.stack) \in Seq(Brackets) /\ Last(b.stack) \in Brackets
  <2>1. b.stack \in Seq(Brackets) /\ Len(b.stack) \in Nat /\ Len(b.stack) # 0
    BY Fields, EmptySeq
  <2>2. \A i \in 1..Len(b.stack) - 1 : b.stack[i] \in Brackets
    BY <2>1, ElementOfSeq
  <2>3. b.stack[Len(b.stack)] \in Brackets
    BY <2>1, ElementOfSeq
  <2> QED BY <2>1, <2>2, <2>3, SubSeqProperties DEF Front, Last
<1>3. a \in Builders /\ a.json = b.json /\ a.stack = Front(b.stack) /\ a.mode = b.mode /\ a.need_indent = b.need_indent
  BY <1>2, StackSet
<1> HIDE DEF a
<1>4. Becomes(a, n, Joint(b.mode, FALSE), Front(b.stack), IF b.mode = "IN_VALUE" THEN "AFTER_VALUE" ELSE b.mode, FALSE)
  <2>1. Becomes(a, n, Joint(a.mode, FALSE), a.stack, IF a.mode = "IN_VALUE" THEN "AFTER_VALUE" ELSE a.mode, FALSE)
    BY <1>3, NormalizeAdds
  <2> QED BY <1>3, <2>1
<1> HIDE DEF n
<1>5. <<Last(b.stack)>> \in Streams /\ Content(<<Last(b.stack)>>) = <<Last(b.stack)>>
  <2>1. Last(b.stack) \in Tokens /\ Last(b.stack) \notin Whitespace
    BY <1>2, ShortTexts DEF Brackets, Whitespace
  <2> QED BY <2>1, ShortTexts, ContentOne
<1>6. c \in Builders /\ Becomes(a, c, Joint(b.mode, FALSE) \o <<Last(b.stack)>>, Front(b.stack),
                                IF b.mode = "IN_VALUE" THEN "AFTER_VALUE" ELSE b.mode, FALSE)
  BY <1>3, <1>4, <1>5, BecomesPushed
<1> HIDE DEF c
<1>7. d \in Builders /\ d.json = c.json /\ d.stack = c.stack /\ d.mode = "AFTER_VALUE" /\ d.need_indent = c.need_indent
  BY <1>6, ModeSet DEF BuilderModes
<1> HIDE DEF d
<1>8. Adds(b, d, Joint(b.mode, FALSE) \o <<Last(b.stack)>>)
  BY <1>3, <1>6, <1>7, Zenon DEF Becomes, Adds
<1> QED BY <1>1, <1>6, <1>7, <1>8 DEF Becomes

-----------------------------------------------------------------------------
(* finish closes what is open, one after another.                            *)

\* One round of finish.
LEMMA ClosingAdds ==
  ASSUME NEW b \in Builders, b.stack # <<>>
  PROVE  Becomes(b, Closed(IndentAsked(b)), Joint(b.mode, FALSE) \o <<Last(b.stack)>>, Front(b.stack), "AFTER_VALUE", FALSE)
<1> DEFINE c == IndentAsked(b)
           d == Closed(c)
<1>1. CASE b.need_indent
  <2>1. c = b
    BY <1>1 DEF IndentAsked
  <2> QED BY <2>1, CloseAdds
<1>2. CASE ~ b.need_indent
  <2>1. Becomes(b, c, Joint(b.mode, FALSE), b.stack, IF b.mode = "IN_VALUE" THEN "AFTER_VALUE" ELSE b.mode, TRUE)
    BY <1>2, IndentAdds
  <2> HIDE DEF c
  <2>2. c \in Builders /\ c.stack = b.stack /\ c.mode # "IN_VALUE" /\ Adds(b, c, Joint(b.mode, FALSE))
    BY <2>1 DEF Becomes, Adds
  <2>3. Becomes(c, d, Joint(c.mode, FALSE) \o <<Last(b.stack)>>, Front(b.stack), "AFTER_VALUE", FALSE)
    <3>1. Becomes(c, d, Joint(c.mode, FALSE) \o <<Last(c.stack)>>, Front(c.stack), "AFTER_VALUE", FALSE)
      BY <2>2, CloseAdds
    <3> QED BY <2>2, <3>1
  <2>4. Joint(c.mode, FALSE) = <<>>
    BY <2>2 DEF Joint
  <2>5. <<>> \o <<Last(b.stack)>> = <<Last(b.stack)>>
    OBVIOUS
  <2> HIDE DEF d
  <2>6. Becomes(c, d, <<Last(b.stack)>>, Front(b.stack), "AFTER_VALUE", FALSE)
    BY <2>3, <2>4, <2>5
  <2>7. Adds(b, d, Joint(b.mode, FALSE) \o <<Last(b.stack)>>)
    BY <2>2, <2>6, AddsMore, Zenon DEF Becomes
  <2>8. d = Closed(IndentAsked(b))
    BY DEF d, c
  <2> QED BY <2>6, <2>7, <2>8 DEF Becomes
<1> QED BY <1>1, <1>2

LEMMA ClosingType ==
  ASSUME NEW b \in Builders PROVE Closed(IndentAsked(b)) \in Builders
<1>1. CASE b.stack # <<>>
  BY <1>1, ClosingAdds DEF Becomes, Adds
<1>2. CASE b.stack = <<>>
  <2>1. IndentAsked(b) \in Builders /\ IndentAsked(b).stack = <<>>
    <3>1. CASE b.need_indent
      BY <1>2, <3>1 DEF IndentAsked
    <3>2. CASE ~ b.need_indent
      BY <1>2, <3>2, IndentAdds DEF Becomes, Adds
    <3> QED BY <3>1, <3>2
  <2> QED BY <2>1 DEF Closed
<1> QED BY <1>1, <1>2

\* The rounds of finish.
Rounds(b, r) ==
  /\ r \in [0..Len(b.stack) -> Builders]
  /\ r[0] = b /\ \A k \in 1..Len(b.stack) : r[k] = Closed(IndentAsked(r[k - 1]))

Ended(c) == IF c.json # <<>> /\ Last(c.json) # "\n" THEN Push(c, <<"\n">>) ELSE c

LEMMA FinishedRounds ==
  ASSUME NEW b \in Builders
  PROVE  \E r : Rounds(b, r) /\ Finished(b) = Ended(r[Len(b.stack)])
<1> DEFINE s == b.stack
           Round(c) == Closed(IndentAsked(c))
           F == [c \in Builders |-> [e \in Brackets |-> Round(c)]]
           G(f) == f = [k \in 0..Len(s) |->
                          IF k = 0 THEN b ELSE CHOOSE d \in {Closed(IndentAsked(c)) : c \in {f[k - 1]}} : TRUE]
<1>0. s \in Seq(Brackets) /\ Len(s) \in Nat
  BY Fields
<1>1. Folder(F, Builders, Brackets)
  BY ClosingType DEF Folder
<1>2. \A c \in Builders : \A e \in Brackets : F[c][e] = Round(c)
  OBVIOUS
<1> HIDE DEF F
<1>3. PICK r \in [0..Len(s) -> Builders] : Folds(F, b, s, r)
  BY <1>0, <1>1, FoldExists
<1>4. \A k \in 1..Len(s) : r[k] = Round(r[k - 1])
  <2> TAKE k \in 1..Len(s)
  <2>1. k - 1 \in 0..Len(s) /\ s[k] \in Brackets
    BY <1>0, ElementOfSeq
  <2>2. r[k] = F[r[k - 1]][s[k]]
    BY <1>3 DEF Folds
  <2> HIDE DEF Round
  <2> QED BY <1>2, <2>1, <2>2
<1>5. \A x : (CHOOSE d \in {Closed(IndentAsked(c)) : c \in {x}} : TRUE) = Round(x)
  OBVIOUS
<1>6. \A f : G(f) <=> f = [k \in 0..Len(s) |-> IF k = 0 THEN b ELSE Round(f[k - 1])]
  BY <1>5
<1>7. G(r)
  <2>1. \A k \in 0..Len(s) : r[k] = IF k = 0 THEN b ELSE Round(r[k - 1])
    <3> TAKE k \in 0..Len(s)
    <3>1. CASE k = 0
      BY <1>3, <3>1 DEF Folds
    <3>2. CASE k # 0
      <4>1. k \in 1..Len(s)
        BY <3>2
      <4> HIDE DEF Round
      <4> QED BY <1>4, <3>2, <4>1
    <3> QED BY <3>1, <3>2
  <2>2. r = [k \in 0..Len(s) |-> IF k = 0 THEN b ELSE Round(r[k - 1])]
    BY <2>1
  <2> HIDE DEF G
  <2> QED BY <1>6, <2>2
<1> DEFINE c == CHOOSE f : G(f)
<1>8. G(c)
  <2> HIDE DEF G
  <2> QED BY <1>7
<1>9. Finished(b) = Ended(c[Len(s)])
  BY DEF Finished, Ended
<1> HIDE DEF c
<1>10. \A k \in 0..Len(s) : c[k] = IF k = 0 THEN b ELSE Round(c[k - 1])
  <2>1. c = [k \in 0..Len(s) |-> IF k = 0 THEN b ELSE Round(c[k - 1])]
    <3> HIDE DEF G
    <3> QED BY <1>6, <1>8
  <2> QED BY <2>1
<1>11. r[0] = b
  BY <1>3 DEF Folds
<1> HIDE DEF Round, G, s
<1> DEFINE A == {k \in 0..Len(s) : c[k] = r[k]}
<1>12. 0 \in A
  BY <1>0, <1>10, <1>11
<1>13. ASSUME NEW n \in 0..Len(s) - 1, n \in A PROVE n + 1 \in A
  <2>1. n + 1 \in 1..Len(s) /\ n + 1 \in 0..Len(s) /\ n + 1 # 0 /\ n + 1 - 1 = n
    BY <1>0
  <2> QED BY <1>4, <1>10, <1>13, <2>1
<1>14. \A k \in 0..Len(s) : k \in A
  <2> HIDE DEF A
  <2> QED BY <1>0, <1>12, <1>13, UpTo
<1>15. c[Len(s)] = r[Len(s)]
  BY <1>0, <1>14
<1>16. Rounds(b, r)
  BY <1>4, <1>11 DEF Rounds, Round, s
<1> QED BY <1>9, <1>15, <1>16 DEF s

\* Each round closes one.
LEMMA RoundsClose ==
  ASSUME NEW b \in Builders, NEW r, Rounds(b, r)
  PROVE  /\ Len(b.stack) \in Nat
         /\ \A k \in 0..Len(b.stack) : r[k] \in Builders /\ r[k].stack \in Seq(Brackets) /\ Len(r[k].stack) = Len(b.stack) - k
         /\ \A k \in 0..Len(b.stack) - 1 : r[k].stack # <<>>
<1> DEFINE n == Len(b.stack)
           A == {k \in 0..n : Len(r[k].stack) = n - k}
<1>0. n \in Nat
  BY Fields
<1>1. 0 \in A
  BY <1>0 DEF Rounds
<1>2. \A k \in 0..n : r[k] \in Builders /\ r[k].stack \in Seq(Brackets)
  BY Fields DEF Rounds
<1>3. ASSUME NEW k \in 0..n - 1, Len(r[k].stack) = n - k PROVE r[k].stack # <<>>
  <2>1. n - k # 0
    BY <1>0
  <2> QED BY <1>3, <2>1
<1>4. ASSUME NEW k \in 0..n - 1, k \in A PROVE k + 1 \in A
  <2>1. k \in 0..n /\ k + 1 \in 1..n /\ k + 1 \in 0..n /\ k + 1 - 1 = k
    BY <1>0
  <2>2. r[k + 1] = Closed(IndentAsked(r[k]))
    BY <2>1 DEF Rounds
  <2>3. r[k] \in Builders /\ r[k].stack # <<>> /\ r[k].stack \in Seq(Brackets) /\ Len(r[k].stack) = n - k
    BY <1>2, <1>3, <1>4, <2>1
  <2>4. r[k + 1].stack = Front(r[k].stack)
    BY <2>2, <2>3, ClosingAdds DEF Becomes
  <2>5. Len(Front(r[k].stack)) = n - k - 1
    BY <2>3 DEF Front
  <2> QED BY <2>1, <2>4, <2>5
<1>5. \A k \in 0..n : k \in A
  <2> HIDE DEF A
  <2> QED BY <1>0, <1>1, <1>4, UpTo
<1>6. \A k \in 0..n - 1 : r[k].stack # <<>>
  <2> TAKE k \in 0..n - 1
  <2>1. k \in 0..n
    BY <1>0
  <2> QED BY <1>3, <1>5, <2>1
<1> QED BY <1>0, <1>2, <1>5, <1>6

\* A last line break.
LEMMA EndedAdds ==
  ASSUME NEW b \in Builders PROVE Becomes(b, Ended(b), <<>>, b.stack, b.mode, b.need_indent)
<1>1. CASE Ended(b) = b
  BY <1>1, AddsNothing DEF Becomes
<1>2. CASE Ended(b) = Push(b, <<"\n">>)
  <2>1. <<"\n">> \in Streams /\ Content(<<"\n">>) = <<>>
    BY ShortTexts, ContentOne DEF Whitespace
  <2>2. LET d == Push(b, <<"\n">>) IN
        d \in Builders /\ d.json = b.json \o <<"\n">> /\ d.stack = b.stack /\ d.mode = b.mode /\ d.need_indent = b.need_indent
    BY <2>1, Pushed
  <2>3. Adds(b, Push(b, <<"\n">>), Content(<<"\n">>))
    BY <2>1, <2>2, AddsPushed, Zenon
  <2> QED BY <1>2, <2>1, <2>2, <2>3 DEF Becomes
<1> QED BY <1>1, <1>2 DEF Ended

\* finish adds some text, and leaves nothing open.
LEMMA FinishAdds ==
  ASSUME NEW b \in Builders PROVE Finished(b).stack = <<>> /\ \E x : Adds(b, Finished(b), x)
<1>1. PICK r : Rounds(b, r) /\ Finished(b) = Ended(r[Len(b.stack)])
  BY FinishedRounds
<1> DEFINE n == Len(b.stack)
           A == {k \in 0..n : \E x : Adds(b, r[k], x)}
<1>2. /\ n \in Nat
      /\ \A k \in 0..n : r[k] \in Builders /\ r[k].stack \in Seq(Brackets) /\ Len(r[k].stack) = n - k
      /\ \A k \in 0..n - 1 : r[k].stack # <<>>
  BY <1>1, RoundsClose
<1>3. 0 \in A
  BY <1>1, <1>2, AddsNothing DEF Rounds
<1>4. ASSUME NEW k \in 0..n - 1, k \in A PROVE k + 1 \in A
  <2>1. k \in 0..n /\ k + 1 \in 1..n /\ k + 1 \in 0..n /\ k + 1 - 1 = k
    BY <1>2
  <2>2. r[k + 1] = Closed(IndentAsked(r[k]))
    BY <1>1, <2>1 DEF Rounds
  <2>3. \E y : Adds(r[k], r[k + 1], y)
    BY <1>2, <2>1, <2>2, ClosingAdds DEF Becomes
  <2>4. \E x : Adds(b, r[k], x)
    BY <1>4
  <2>5. \E x : Adds(b, r[k + 1], x)
    BY <2>3, <2>4, AddsMore, Zenon
  <2> QED BY <2>1, <2>5
<1>5. \A k \in 0..n : k \in A
  <2> HIDE DEF A
  <2> QED BY <1>2, <1>3, <1>4, UpTo
<1>6. n \in 0..n /\ n - n = 0
  BY <1>2
<1>7. r[n] \in Builders /\ r[n].stack = <<>>
  <2>1. r[n].stack \in Seq(Brackets) /\ Len(r[n].stack) = 0
    BY <1>2, <1>6
  <2> QED BY <1>2, <1>6, <2>1, EmptySeq
<1>8. \E x : Adds(b, r[n], x)
  BY <1>5, <1>6
<1>9. Becomes(r[n], Ended(r[n]), <<>>, r[n].stack, r[n].mode, r[n].need_indent)
  BY <1>7, EndedAdds
<1>10. \E x : Adds(b, Ended(r[n]), x)
  BY <1>8, <1>9, AddsMore, Zenon DEF Becomes
<1> QED BY <1>1, <1>7, <1>9, <1>10 DEF Becomes

\* Two builders finish alike.
LEMMA FinishBehind ==
  ASSUME NEW b \in Builders, NEW c \in Builders, NEW g \in Streams, Behind(g, b, c)
  PROVE  Behind(g, Finished(b), Finished(c))
<1>1. PICK r : Rounds(b, r) /\ Finished(b) = Ended(r[Len(b.stack)])
  BY FinishedRounds
<1>2. PICK q : Rounds(c, q) /\ Finished(c) = Ended(q[Len(c.stack)])
  BY FinishedRounds
<1> DEFINE n == Len(b.stack)
           A == {k \in 0..n : Behind(g, r[k], q[k])}
<1>3. c.stack = b.stack
  BY DEF Behind
<1>4. /\ n \in Nat
      /\ \A k \in 0..n : r[k] \in Builders /\ q[k] \in Builders
      /\ \A k \in 0..n - 1 : r[k].stack # <<>> /\ q[k].stack # <<>>
  <2>1. /\ n \in Nat /\ \A k \in 0..n : r[k] \in Builders
        /\ \A k \in 0..n - 1 : r[k].stack # <<>>
    BY <1>1, RoundsClose
  <2>2. (\A k \in 0..n : q[k] \in Builders) /\ \A k \in 0..n - 1 : q[k].stack # <<>>
    BY <1>2, <1>3, RoundsClose
  <2> QED BY <2>1, <2>2
<1>5. 0 \in A
  BY <1>1, <1>2, <1>4 DEF Rounds
<1>6. ASSUME NEW k \in 0..n - 1, k \in A PROVE k + 1 \in A
  <2>1. k \in 0..n /\ k + 1 \in 1..n /\ k + 1 \in 0..n /\ k + 1 - 1 = k
    BY <1>4
  <2>2. r[k + 1] = Closed(IndentAsked(r[k])) /\ q[k + 1] = Closed(IndentAsked(q[k]))
    BY <1>1, <1>2, <1>3, <2>1 DEF Rounds
  <2>3. Behind(g, r[k], q[k]) /\ r[k] \in Builders /\ q[k] \in Builders /\ r[k].stack # <<>> /\ q[k].stack # <<>>
    BY <1>4, <1>6, <2>1
  <2> DEFINE x == Joint(r[k].mode, FALSE) \o <<Last(r[k].stack)>>
  <2>4. Becomes(r[k], r[k + 1], x, Front(r[k].stack), "AFTER_VALUE", FALSE)
    BY <2>2, <2>3, ClosingAdds
  <2>5. Becomes(q[k], q[k + 1], x, Front(r[k].stack), "AFTER_VALUE", FALSE)
    <3>1. q[k].mode = r[k].mode /\ q[k].stack = r[k].stack
      BY <2>3 DEF Behind
    <3>2. Becomes(q[k], q[k + 1], Joint(q[k].mode, FALSE) \o <<Last(q[k].stack)>>, Front(q[k].stack), "AFTER_VALUE", FALSE)
      BY <2>2, <2>3, ClosingAdds
    <3> QED BY <3>1, <3>2
  <2> HIDE DEF x
  <2>6. Behind(g, r[k + 1], q[k + 1])
    BY <2>3, <2>4, <2>5, BehindAdded DEF Becomes
  <2> QED BY <2>1, <2>6
<1>7. \A k \in 0..n : k \in A
  <2> HIDE DEF A
  <2> QED BY <1>4, <1>5, <1>6, UpTo
<1>8. r[n] \in Builders /\ q[n] \in Builders /\ Behind(g, r[n], q[n])
  BY <1>4, <1>7
<1>9. /\ Becomes(r[n], Ended(r[n]), <<>>, r[n].stack, r[n].mode, r[n].need_indent)
      /\ Becomes(q[n], Ended(q[n]), <<>>, q[n].stack, q[n].mode, q[n].need_indent)
  BY <1>8, EndedAdds
<1>10. Behind(g, Ended(r[n]), Ended(q[n]))
  <2>1. r[n].stack = q[n].stack /\ r[n].mode = q[n].mode /\ r[n].need_indent = q[n].need_indent
    BY <1>8 DEF Behind
  <2> QED BY <1>8, <1>9, <2>1, BehindAdded DEF Becomes
<1> QED BY <1>1, <1>2, <1>3, <1>10

-----------------------------------------------------------------------------
(* Operations and scripts of them.                                           *)

\* Whatever an operation does, it adds to the text.
LEMMA DoAdds ==
  ASSUME NEW b \in Builders, NEW op \in Ops
  PROVE  Do(b, op) \in Builders /\ \E x : Adds(b, Do(b, op), x)
<1>0. op.do \in {"object", "array", "key", "value", "append", "indent", "close", "finish"} /\ op.text \in Seq(Words)
  BY DEF Ops
<1>1. CASE op.do = "object"
  BY <1>1, OpenedAdds DEF Do, Becomes, Adds, Brackets
<1>2. CASE op.do = "array"
  BY <1>2, OpenedAdds DEF Do, Becomes, Adds, Brackets
<1>3. CASE op.do = "key"
  BY <1>0, <1>3, KeyAdds DEF Do, Becomes, Adds
<1>4. CASE op.do = "value"
  BY <1>0, <1>4, ValueAdds DEF Do, Becomes, Adds
<1>5. CASE op.do = "append"
  <2>1. CASE b.mode = "IN_VALUE"
    BY <1>0, <1>5, <2>1, AppendAdds DEF Do, Becomes, Adds
  <2>2. CASE b.mode # "IN_VALUE"
    <3>1. Do(b, op) = ValueAdded(b, op.text)
      BY <1>5, <2>2 DEF Do, ValueAppended, ValueAdded
    <3> QED BY <1>0, <3>1, ValueAdds DEF Becomes, Adds
  <2> QED BY <2>1, <2>2
<1>6. CASE op.do = "indent"
  <2>1. CASE b.need_indent
    <3>1. Do(b, op) = b
      BY <1>6, <2>1 DEF Do, IndentAsked
    <3> QED BY <3>1, AddsNothing
  <2>2. CASE ~ b.need_indent
    BY <1>6, <2>2, IndentAdds DEF Do, Becomes, Adds
  <2> QED BY <2>1, <2>2
<1>7. CASE op.do = "close"
  <2>1. CASE b.stack = <<>>
    <3>1. Do(b, op) = b
      BY <1>7, <2>1 DEF Do, Closed
    <3> QED BY <3>1, AddsNothing
  <2>2. CASE b.stack # <<>>
    BY <1>7, <2>2, CloseAdds DEF Do, Becomes, Adds
  <2> QED BY <2>1, <2>2
<1>8. CASE op.do = "finish"
  BY <1>8, FinishAdds DEF Do, Adds
<1> QED BY <1>0, <1>1, <1>2, <1>3, <1>4, <1>5, <1>6, <1>7, <1>8

\* Two builders do alike.
LEMMA DoBehind ==
  ASSUME NEW b \in Builders, NEW c \in Builders, NEW g \in Streams, Behind(g, b, c), NEW op \in Ops
  PROVE  Behind(g, Do(b, op), Do(c, op))
<1>0. op.do \in {"object", "array", "key", "value", "append", "indent", "close", "finish"} /\ op.text \in Seq(Words)
  BY DEF Ops
<1>a. b.stack = c.stack /\ b.mode = c.mode /\ b.need_indent = c.need_indent
  BY DEF Behind
<1>b. ASSUME NEW d, NEW e, NEW x, NEW stack, NEW mode, NEW need_indent,
             Becomes(b, d, x, stack, mode, need_indent), Becomes(c, e, x, stack, mode, need_indent)
      PROVE  Behind(g, d, e)
  BY <1>b, BehindAdded DEF Becomes
<1>1. CASE op.do = "object"
  <2>1. ASSUME NEW a \in Builders PROVE Becomes(a, Do(a, op), Joint(a.mode, TRUE) \o <<"{">>, Append(a.stack, "}"), "NORMAL", FALSE)
    BY <1>1, OpenedAdds DEF Do, Brackets
  <2> QED BY <1>a, <1>b, <2>1
<1>2. CASE op.do = "array"
  <2>1. ASSUME NEW a \in Builders PROVE Becomes(a, Do(a, op), Joint(a.mode, TRUE) \o <<"[">>, Append(a.stack, "]"), "NORMAL", FALSE)
    BY <1>2, OpenedAdds DEF Do, Brackets
  <2> QED BY <1>a, <1>b, <2>1
<1>3. CASE op.do = "key"
  <2>1. ASSUME NEW a \in Builders
        PROVE  Becomes(a, Do(a, op), Joint(a.mode, TRUE) \o Content(Quoted(op.text)), a.stack, "NORMAL", FALSE)
    BY <1>0, <1>3, KeyAdds DEF Do
  <2> QED BY <1>a, <1>b, <2>1
<1>v. ASSUME NEW a \in Builders
      PROVE  Becomes(a, ValueAdded(a, op.text), (Joint(a.mode, TRUE) \o <<"\"">>) \o Content(op.text), a.stack, "IN_VALUE", FALSE)
  BY <1>0, ValueAdds
<1>4. CASE op.do = "value"
  <2>1. \A a : Do(a, op) = ValueAdded(a, op.text)
    BY <1>4 DEF Do
  <2> QED BY <1>a, <1>b, <1>v, <2>1
<1>5. CASE op.do = "append"
  <2>1. CASE b.mode = "IN_VALUE"
    <3>1. ASSUME NEW a \in Builders, a.mode = "IN_VALUE"
          PROVE  Becomes(a, Do(a, op), <<>> \o Content(op.text), a.stack, "IN_VALUE", a.need_indent)
      BY <1>0, <1>5, <3>1, AppendAdds DEF Do
    <3> QED BY <1>a, <1>b, <2>1, <3>1
  <2>2. CASE b.mode # "IN_VALUE"
    <3>1. \A a : a.mode # "IN_VALUE" => Do(a, op) = ValueAdded(a, op.text)
      BY <1>5 DEF Do, ValueAppended, ValueAdded
    <3> QED BY <1>a, <1>b, <1>v, <2>2, <3>1
  <2> QED BY <2>1, <2>2
<1>6. CASE op.do = "indent"
  <2>1. CASE b.need_indent
    <3>1. Do(b, op) = b /\ Do(c, op) = c
      BY <1>a, <1>6, <2>1 DEF Do, IndentAsked
    <3> QED BY <3>1
  <2>2. CASE ~ b.need_indent
    <3>1. ASSUME NEW a \in Builders, ~ a.need_indent
          PROVE  Becomes(a, Do(a, op), Joint(a.mode, FALSE), a.stack, IF a.mode = "IN_VALUE" THEN "AFTER_VALUE" ELSE a.mode, TRUE)
      BY <1>6, <3>1, IndentAdds DEF Do
    <3> QED BY <1>a, <1>b, <2>2, <3>1
  <2> QED BY <2>1, <2>2
<1>7. CASE op.do = "close"
  <2>1. CASE b.stack = <<>>
    <3>1. Do(b, op) = b /\ Do(c, op) = c
      BY <1>a, <1>7, <2>1 DEF Do, Closed
    <3> QED BY <3>1
  <2>2. CASE b.stack # <<>>
    <3>1. ASSUME NEW a \in Builders, a.stack # <<>>
          PROVE  Becomes(a, Do(a, op), Joint(a.mode, FALSE) \o <<Last(a.stack)>>, Front(a.stack), "AFTER_VALUE", FALSE)
      BY <1>7, <3>1, CloseAdds DEF Do
    <3> QED BY <1>a, <1>b, <2>2, <3>1
  <2> QED BY <2>1, <2>2
<1>8. CASE op.do = "finish"
  BY <1>8, FinishBehind DEF Do
<1> QED BY <1>0, <1>1, <1>2, <1>3, <1>4, <1>5, <1>6, <1>7, <1>8

Doing == [b \in Builders |-> [op \in Ops |-> Do(b, op)]]

LEMMA DoingType == Folder(Doing, Builders, Ops)
BY DoAdds DEF Folder, Doing

\* A script is a fold.
LEMMA DoneIsFold ==
  ASSUME NEW b \in Builders, NEW script \in Seq(Ops)
  PROVE  Done(b, script) = Fold(Doing, b, script)
<1> DEFINE G(f) == f = [k \in 0..Len(script) |->
                          IF k = 0 THEN b ELSE CHOOSE d \in {Do(c, script[k]) : c \in {f[k - 1]}} : TRUE]
<1>0. Len(script) \in Nat
  OBVIOUS
<1>1. PICK r \in [0..Len(script) -> Builders] : Folds(Doing, b, script, r)
  BY DoingType, FoldExists
<1>2. \A k \in 1..Len(script) : r[k] = Do(r[k - 1], script[k])
  <2> TAKE k \in 1..Len(script)
  <2>1. k - 1 \in 0..Len(script) /\ script[k] \in Ops
    BY ElementOfSeq
  <2>2. r[k] = Doing[r[k - 1]][script[k]]
    BY <1>1 DEF Folds
  <2> QED BY <2>1, <2>2 DEF Doing
<1>3. \A x, op : (CHOOSE d \in {Do(c, op) : c \in {x}} : TRUE) = Do(x, op)
  OBVIOUS
<1>4. \A f : G(f) <=> f = [k \in 0..Len(script) |-> IF k = 0 THEN b ELSE Do(f[k - 1], script[k])]
  BY <1>3
<1>5. r[0] = b
  BY <1>1 DEF Folds
<1>6. G(r)
  <2>1. \A k \in 0..Len(script) : r[k] = IF k = 0 THEN b ELSE Do(r[k - 1], script[k])
    <3> TAKE k \in 0..Len(script)
    <3>1. k # 0 => k \in 1..Len(script)
      OBVIOUS
    <3> QED BY <1>2, <1>5, <3>1
  <2>2. r = [k \in 0..Len(script) |-> IF k = 0 THEN b ELSE Do(r[k - 1], script[k])]
    BY <2>1
  <2> HIDE DEF G
  <2> QED BY <1>4, <2>2
<1> DEFINE c == CHOOSE f : G(f)
<1>7. G(c)
  <2> HIDE DEF G
  <2> QED BY <1>6
<1>8. Done(b, script) = c[Len(script)]
  BY DEF Done
<1> HIDE DEF c
<1>9. \A k \in 0..Len(script) : c[k] = IF k = 0 THEN b ELSE Do(c[k - 1], script[k])
  <2>1. c = [k \in 0..Len(script) |-> IF k = 0 THEN b ELSE Do(c[k - 1], script[k])]
    <3> HIDE DEF G
    <3> QED BY <1>4, <1>7
  <2> QED BY <2>1
<1> HIDE DEF G
<1> DEFINE A == {k \in 0..Len(script) : c[k] = r[k]}
<1>10. 0 \in A
  BY <1>0, <1>5, <1>9
<1>11. ASSUME NEW n \in 0..Len(script) - 1, n \in A PROVE n + 1 \in A
  <2>1. n + 1 \in 1..Len(script) /\ n + 1 \in 0..Len(script) /\ n + 1 # 0 /\ n + 1 - 1 = n
    BY <1>0
  <2> QED BY <1>2, <1>9, <1>11, <2>1
<1>12. \A k \in 0..Len(script) : k \in A
  <2> HIDE DEF A
  <2> QED BY <1>0, <1>10, <1>11, UpTo
<1>13. c[Len(script)] = r[Len(script)]
  BY <1>0, <1>12
<1>14. r[Len(script)] = Fold(Doing, b, script)
  BY <1>1, DoingType, FoldIs
<1> QED BY <1>8, <1>13, <1>14

\* An empty script, one more operation, and a script after another one.
LEMMA DoneNone ==
  ASSUME NEW b \in Builders PROVE Done(b, <<>>) = b
<1>1. <<>> \in Seq(Ops)
  OBVIOUS
<1> QED BY <1>1, DoneIsFold, DoingType, FoldNone

LEMMA DoneType ==
  ASSUME NEW b \in Builders, NEW s \in Seq(Ops) PROVE Done(b, s) \in Builders
BY DoneIsFold, DoingType, FoldType

LEMMA DoneAppend ==
  ASSUME NEW b \in Builders, NEW s \in Seq(Ops), NEW op \in Ops
  PROVE  Done(b, Append(s, op)) = Do(Done(b, s), op)
<1>1. Append(s, op) \in Seq(Ops)
  BY AppendProperties
<1>2. Done(b, s) = Fold(Doing, b, s) /\ Done(b, Append(s, op)) = Fold(Doing, b, Append(s, op))
  BY <1>1, DoneIsFold
<1>3. Fold(Doing, b, s) \in Builders
  BY DoingType, FoldType
<1>4. Fold(Doing, b, Append(s, op)) = Doing[Fold(Doing, b, s)][op]
  BY DoingType, FoldAppend
<1>5. \A c \in Builders : Doing[c][op] = Do(c, op)
  BY DEF Doing
<1> QED BY <1>2, <1>3, <1>4, <1>5

LEMMA DoneConcat ==
  ASSUME NEW b \in Builders, NEW s \in Seq(Ops), NEW t \in Seq(Ops)
  PROVE  Done(b, s \o t) = Done(Done(b, s), t)
<1>1. s \o t \in Seq(Ops)
  BY ConcatProperties
<1>2. Done(b, s) = Fold(Doing, b, s) /\ Done(b, s \o t) = Fold(Doing, b, s \o t)
  BY <1>1, DoneIsFold, Zenon
<1>3. Done(b, s) \in Builders
  BY DoneType
<1>4. Done(Done(b, s), t) = Fold(Doing, Done(b, s), t)
  BY <1>3, DoneIsFold, Zenon
<1>5. Fold(Doing, b, s \o t) = Fold(Doing, Fold(Doing, b, s), t)
  <2>1. Folder(Doing, Builders, Ops)
    BY DoingType
  <2> QED BY <2>1, FoldConcat
<1> QED BY <1>2, <1>4, <1>5, Zenon

\* A script adds to the text, and two builders do it alike.
LEMMA DoneAdds ==
  ASSUME NEW b \in Builders, NEW s \in Seq(Ops) PROVE \E x : Adds(b, Done(b, s), x)
<1> DEFINE S == {u \in Seq(Ops) : \E x : Adds(b, Done(b, u), x)}
<1>1. <<>> \in S
  BY DoneNone, AddsNothing
<1>2. ASSUME NEW u \in Seq(Ops), NEW op \in Ops, u \in S PROVE Append(u, op) \in S
  <2>1. Append(u, op) \in Seq(Ops) /\ Done(b, Append(u, op)) = Do(Done(b, u), op) /\ Done(b, u) \in Builders
    BY DoneAppend, DoneType
  <2>2. \E y : Adds(Done(b, u), Do(Done(b, u), op), y)
    BY <2>1, DoAdds
  <2>3. \E x : Adds(b, Do(Done(b, u), op), x)
    BY <1>2, <2>2, AddsMore, Zenon
  <2> QED BY <2>1, <2>3
<1>3. Seq(Ops) \subseteq S
  <2> HIDE DEF S
  <2> QED BY <1>1, <1>2, ByAppending
<1> QED BY <1>3

LEMMA DoneBehind ==
  ASSUME NEW b \in Builders, NEW c \in Builders, NEW g \in Streams, Behind(g, b, c), NEW s \in Seq(Ops)
  PROVE  Behind(g, Done(b, s), Done(c, s))
<1> DEFINE S == {u \in Seq(Ops) : Behind(g, Done(b, u), Done(c, u))}
<1>1. <<>> \in S
  BY DoneNone
<1>2. ASSUME NEW u \in Seq(Ops), NEW op \in Ops, u \in S PROVE Append(u, op) \in S
  <2>1. Append(u, op) \in Seq(Ops) /\ Done(b, Append(u, op)) = Do(Done(b, u), op) /\ Done(c, Append(u, op)) = Do(Done(c, u), op)
    BY DoneAppend
  <2>2. Done(b, u) \in Builders /\ Done(c, u) \in Builders
    BY DoneType
  <2> QED BY <1>2, <2>1, <2>2, DoBehind
<1>3. Seq(Ops) \subseteq S
  <2> HIDE DEF S
  <2> QED BY <1>1, <1>2, ByAppending
<1> QED BY <1>3

-----------------------------------------------------------------------------
(* Flattened sequences.                                                      *)

\* A wrapped concatenation, which the provers rewrite under quantifiers.
Glued(s, t) == s \o t

\* What is flattened on the way.
Flattens(seqs, r) == r[0] = <<>> /\ \A k \in 1..Len(seqs) : r[k] = Glued(r[k - 1], seqs[k])

LEMMA FlattenRun ==
  ASSUME NEW S, NEW seqs \in Seq(Seq(S))
  PROVE  \E r \in [0..Len(seqs) -> Seq(S)] : Flattens(seqs, r) /\ FlattenSeq(seqs) = r[Len(seqs)]
<1> DEFINE n == Len(seqs)
           F == [c \in Seq(S) |-> [e \in Seq(S) |-> Glued(c, e)]]
           G(f) == f = [i \in 1..n |-> IF i = 1 THEN seqs[i] ELSE Glued(f[i - 1], seqs[i])]
<1>0. n \in Nat /\ <<>> \in Seq(S) /\ \A k \in 1..n : seqs[k] \in Seq(S)
  BY ElementOfSeq
<1>1. Folder(F, Seq(S), Seq(S))
  BY ConcatProperties DEF Folder, Glued
<1>2. \A c, e \in Seq(S) : F[c][e] = Glued(c, e)
  OBVIOUS
<1> HIDE DEF F
<1>3. PICK r \in [0..n -> Seq(S)] : Folds(F, <<>>, seqs, r)
  BY <1>0, <1>1, FoldExists
<1>4. \A k \in 1..n : r[k] = Glued(r[k - 1], seqs[k])
  <2> TAKE k \in 1..n
  <2>1. k - 1 \in 0..n /\ seqs[k] \in Seq(S)
    BY <1>0
  <2>2. r[k] = F[r[k - 1]][seqs[k]]
    BY <1>3 DEF Folds
  <2> QED BY <1>2, <2>1, <2>2
<1>5. r[0] = <<>>
  BY <1>3 DEF Folds
<1>6. Flattens(seqs, r)
  BY <1>4, <1>5 DEF Flattens
<1>7. CASE n = 0
  <2>1. seqs = <<>>
    BY <1>7, EmptySeq
  <2>2. FlattenSeq(seqs) = seqs
    BY <1>7 DEF FlattenSeq
  <2> QED BY <1>5, <1>6, <1>7, <2>1, <2>2
<1>8. CASE n # 0
  <2> DEFINE q == [i \in 1..n |-> r[i]]
  <2>1. G(q)
    <3>1. \A i \in 1..n : q[i] = IF i = 1 THEN seqs[i] ELSE Glued(q[i - 1], seqs[i])
      <4> TAKE i \in 1..n
      <4>1. CASE i = 1
        <5>1. r[1] = Glued(r[0], seqs[1]) /\ seqs[1] \in Seq(S)
          BY <1>0, <1>4, <4>1
        <5>2. \A x \in Seq(S) : Glued(<<>>, x) = x
          BY ConcatEmptySeq DEF Glued
        <5> QED BY <1>5, <4>1, <5>1, <5>2
      <4>2. CASE i # 1
        <5>1. i - 1 \in 1..n
          BY <4>2
        <5> QED BY <1>4, <4>2, <5>1
      <4> QED BY <4>1, <4>2
    <3> QED BY <3>1
  <2> DEFINE h == CHOOSE f : G(f)
  <2>2. G(h)
    <3> HIDE DEF G
    <3> QED BY <2>1
  <2>3. FlattenSeq(seqs) = h[n]
    BY <1>8 DEF FlattenSeq, Glued
  <2> HIDE DEF h
  <2>4. \A i \in 1..n : h[i] = IF i = 1 THEN seqs[i] ELSE Glued(h[i - 1], seqs[i])
    BY <2>2
  <2>5. \A i \in 1..n : r[i] = IF i = 1 THEN seqs[i] ELSE Glued(r[i - 1], seqs[i])
    <3> TAKE i \in 1..n
    <3>1. q[i] = IF i = 1 THEN seqs[i] ELSE Glued(q[i - 1], seqs[i])
      BY <2>1
    <3>2. q[i] = r[i] /\ (i # 1 => i - 1 \in 1..n)
      BY <1>0
    <3>3. i # 1 => q[i - 1] = r[i - 1]
      BY <3>2
    <3> QED BY ONLY <3>1, <3>2, <3>3
  <2> HIDE DEF G, q
  <2> DEFINE A == {k \in 0..n : k = 0 \/ h[k] = r[k]}
  <2>6. ASSUME NEW k \in 0..n - 1, k \in A PROVE k + 1 \in A
    <3>1. k + 1 \in 1..n /\ k + 1 \in 0..n /\ k + 1 - 1 = k /\ (k = 0 <=> k + 1 = 1)
      BY <1>0
    <3> QED BY <2>4, <2>5, <2>6, <3>1
  <2>7. 0 \in A
    BY <1>0
  <2>8. \A k \in 0..n : k \in A
    <3> HIDE DEF A
    <3> QED BY <1>0, <2>6, <2>7, UpTo
  <2>9. h[n] = r[n]
    BY <1>0, <1>8, <2>8
  <2> QED BY <1>6, <2>3, <2>9
<1> QED BY <1>7, <1>8

\* Sequences flattened are a sequence.
LEMMA FlattenType ==
  ASSUME NEW S, NEW seqs \in Seq(Seq(S)) PROVE FlattenSeq(seqs) \in Seq(S)
<1>1. PICK r \in [0..Len(seqs) -> Seq(S)] : FlattenSeq(seqs) = r[Len(seqs)]
  BY FlattenRun
<1> QED BY <1>1

\* The operations of a script are operations.
LEMMA OpTypes ==
  /\ Object \in Ops /\ Array \in Ops /\ Indent \in Ops /\ Close \in Ops /\ Finish \in Ops
  /\ \A t \in Seq(Words) : Value(t) \in Ops /\ More(t) \in Ops
  /\ \A w \in Words : Key(w) \in Ops /\ <<w>> \in Seq(Words)
<1>1. <<>> \in Seq(Words) /\ \A w \in Words : <<w>> \in Seq(Words)
  OBVIOUS
<1> QED BY <1>1 DEF Ops, Object, Array, Indent, Close, Finish, Value, More, Key

\* Short scripts.
LEMMA TupleTypes ==
  ASSUME NEW S
  PROVE  /\ <<>> \in Seq(S) /\ \A a \in S : <<a>> \in Seq(S)
         /\ \A a, b \in S : <<a, b>> \in Seq(S)
         /\ \A a, b, c, d \in S : <<a, b, c, d>> \in Seq(S)
         /\ \A a, b, c, d, e \in S : <<a, b, c, d, e>> \in Seq(S)
         /\ \A a, b, c, d, e, f \in S : <<a, b, c, d, e, f>> \in Seq(S)
         /\ \A a, b, c, d, e, f, g, h, i, j, k \in S : <<a, b, c, d, e, f, g, h, i, j, k>> \in Seq(S)
<1>1. <<>> \in Seq(S) /\ (\A a \in S : <<a>> \in Seq(S)) /\ \A a, b \in S : <<a, b>> \in Seq(S)
  OBVIOUS
<1>2. \A a, b, c, d \in S : <<a, b, c, d>> \in Seq(S)
  OBVIOUS
<1>3. \A a, b, c, d, e \in S : <<a, b, c, d, e>> \in Seq(S)
  OBVIOUS
<1>4. \A a, b, c, d, e, f \in S : <<a, b, c, d, e, f>> \in Seq(S)
  OBVIOUS
<1>5. \A a, b, c, d, e, f, g, h, i, j, k \in S : <<a, b, c, d, e, f, g, h, i, j, k>> \in Seq(S)
  OBVIOUS
<1> QED BY <1>1, <1>2, <1>3, <1>4, <1>5

LEMMA OptionalType ==
  ASSUME NEW S, NEW condition, NEW s \in Seq(S) PROVE Optional(condition, s) \in Seq(S)
BY TupleTypes DEF Optional

\* The parts of a request.
LEMMA RequestParts ==
  ASSUME NEW r \in Requests
  PROVE  /\ r.method \in {"tag", "analyze", "tokenize", "generate"} /\ r.mode \in {"JSON", "XML", "VERTICAL"}
         /\ r.sentences \in Seq(Seq(Token)) /\ r.rest \in Seq(Words)
         /\ \A t \in Token : t.space \in Seq(Words) /\ t.form \in Seq(Words) /\ t.analyses \in Nat
<1>1. \A s \in Seq(Pieces) : s \in Seq(Words)
  <2>1. Pieces \subseteq Words
    BY DEF Words
  <2> QED BY <2>1, SeqMonotonic
<1>2. \A t \in Token : t.space \in Seq(Pieces) /\ t.form \in Seq(Pieces) /\ t.analyses \in Nat
  BY DEF Token
<1>3. /\ r.method \in {"tag", "analyze", "tokenize", "generate"} /\ r.mode \in {"JSON", "XML", "VERTICAL"}
      /\ r.sentences \in Seq(Seq(Token)) /\ r.rest \in Seq(Pieces)
  BY RequestsAssumption
<1> QED BY <1>1, <1>2, <1>3

\* What names and texts the service uses.
LEMMA Names ==
  \A w \in {"model", "acknowledgements", "result", "id", "url", "model-url", "lemma", "l", "tag", "t", "analyses", "token",
            "space", "form", "<token lemma=", "tag=", ">", "<token>", "<analysis lemma=", "/>", "<sentence>", "</token>",
            "</sentence>", "\\t", "\\n"} : w \in Words
BY DEF Words

LEMMA HeaderType ==
  ASSUME NEW r \in Requests PROVE Header(r) \in Seq(Ops)
<1>1. /\ Key("model") \in Ops /\ Value(<<"id">>) \in Ops /\ Key("acknowledgements") \in Ops /\ Value(<<"url">>) \in Ops
      /\ Value(<<"model-url">>) \in Ops /\ Key("result") \in Ops
  BY Names, OpTypes
<1>2. Object \in Ops /\ Array \in Ops /\ Indent \in Ops /\ Close \in Ops
  BY OpTypes
<1>3. <<Object, Indent, Key("model"), Indent, Value(<<"id">>), Indent, Key("acknowledgements"), Indent, Array,
        Indent, Value(<<"url">>)>> \in Seq(Ops)
  BY <1>1, <1>2, TupleTypes, Zenon
<1>4. <<Indent, Value(<<"model-url">>)>> \in Seq(Ops) /\ <<Array>> \in Seq(Ops)
  BY <1>1, <1>2, TupleTypes, Zenon
<1>5. <<Indent, Close, Indent, Key("result"), Indent>> \in Seq(Ops)
  BY <1>1, <1>2, TupleTypes, Zenon
<1>6. Optional(r.acknowledged, <<Indent, Value(<<"model-url">>)>>) \in Seq(Ops) /\ Optional(r.mode = "JSON", <<Array>>) \in Seq(Ops)
  BY <1>4, OptionalType
<1> HIDE DEF Header
<1> QED BY <1>3, <1>5, <1>6, ConcatProperties DEF Header

LEMMA JsonTokenType ==
  ASSUME NEW r \in Requests, NEW token \in Token, NEW i \in Nat, NEW is_first \in BOOLEAN
  PROVE  Analysis \in Seq(Ops) /\ JsonAnalyses(r, token) \in Seq(Ops) /\ JsonToken(r, token, i, is_first) \in Seq(Ops)
<1>1. /\ Key("lemma") \in Ops /\ Value(<<"l">>) \in Ops /\ Key("tag") \in Ops /\ Value(<<"t">>) \in Ops
      /\ Key("analyses") \in Ops /\ Key("token") \in Ops /\ Key("space") \in Ops
  BY Names, OpTypes
<1>2. Object \in Ops /\ Array \in Ops /\ Close \in Ops
  BY OpTypes
<1>3. Value(token.space) \in Ops /\ Value(token.form) \in Ops /\ token.analyses \in Nat
  BY OpTypes, RequestParts
<1>4. Analysis \in Seq(Ops)
  BY <1>1, <1>2, TupleTypes, Zenon DEF Analysis
<1>5. JsonAnalyses(r, token) \in Seq(Ops)
  <2>1. <<Key("lemma"), Value(<<"l">>), Key("tag"), Value(<<"t">>)>> \in Seq(Ops)
    BY <1>1, TupleTypes, Zenon
  <2>2. <<Key("analyses"), Array>> \in Seq(Ops) /\ <<Close>> \in Seq(Ops) /\ <<>> \in Seq(Ops)
    BY <1>1, <1>2, TupleTypes, Zenon
  <2> DEFINE s == [k \in 1..token.analyses |-> Analysis]
  <2>3. s \in Seq(Seq(Ops))
    <3>1. s \in [1..token.analyses -> Seq(Ops)]
      BY <1>4
    <3> HIDE DEF s
    <3> QED BY <1>3, <3>1
  <2> HIDE DEF s
  <2>4. FlattenSeq(s) \in Seq(Ops)
    BY <2>3, FlattenType
  <2>5. (<<Key("analyses"), Array>> \o FlattenSeq(s)) \o <<Close>> \in Seq(Ops)
    BY <2>2, <2>4, ConcatProperties
  <2>6. JsonAnalyses(r, token) \in {<<Key("lemma"), Value(<<"l">>), Key("tag"), Value(<<"t">>)>>,
                                    (<<Key("analyses"), Array>> \o FlattenSeq(s)) \o <<Close>>, <<>>}
    BY DEF JsonAnalyses, s
  <2> QED BY <2>1, <2>2, <2>5, <2>6
<1>6. JsonToken(r, token, i, is_first) \in Seq(Ops)
  <2>1. /\ <<Key("space"), Value(token.space)>> \in Seq(Ops) /\ <<Close>> \in Seq(Ops) /\ <<Array>> \in Seq(Ops)
        /\ <<Object, Key("token"), Value(token.form)>> \in Seq(Ops)
    <3>1. \A a, b, c \in Ops : <<a, b, c>> \in Seq(Ops)
      OBVIOUS
    <3> QED BY <1>1, <1>2, <1>3, <3>1, TupleTypes, Zenon
  <2> DEFINE a == Optional((i > 1 \/ ~is_first) /\ token.space # <<>>, <<Key("space"), Value(token.space)>>)
             b == Optional(i > 1 \/ ~is_first, <<Close>>)
             c == Optional(i = 1 /\ ~is_first, <<Close>>)
             d == Optional(i = 1, <<Array>>)
             e == <<Object, Key("token"), Value(token.form)>>
  <2>2. a \in Seq(Ops) /\ b \in Seq(Ops) /\ c \in Seq(Ops) /\ d \in Seq(Ops) /\ e \in Seq(Ops)
    BY <2>1, OptionalType
  <2>3. JsonToken(r, token, i, is_first) = a \o b \o c \o d \o e \o JsonAnalyses(r, token)
    BY DEF JsonToken
  <2> HIDE DEF a, b, c, d, e
  <2> QED BY <1>5, <2>2, <2>3, ConcatProperties
<1> QED BY <1>4, <1>5, <1>6

\* Outside of JSON a script only appends to the result, which is one string.
Mores == {op \in Ops : op.do = "append"}

LEMMA MoreTypes ==
  /\ \A t \in Seq(Words) : More(t) \in Mores
  /\ \A s \in Seq(Mores) : s \in Seq(Ops)
<1>1. \A t \in Seq(Words) : More(t) \in Ops /\ More(t).do = "append"
  BY OpTypes DEF More
<1>2. Mores \subseteq Ops
  BY DEF Mores
<1>3. \A s \in Seq(Mores) : s \in Seq(Ops)
  BY <1>2, SeqMonotonic
<1> QED BY <1>1, <1>3 DEF Mores

LEMMA XmlTokenType ==
  ASSUME NEW r \in Requests, NEW token \in Token, NEW i \in Nat
  PROVE  XmlToken(r, token, i) \in Seq(Mores)
<1>0. token.space \in Seq(Words) /\ token.form \in Seq(Words) /\ token.analyses \in Nat
  BY RequestParts
<1>1. /\ More(<<"<token lemma=", "l", "tag=", "t", ">">>) \in Mores /\ More(<<"<analysis lemma=", "l", "tag=", "t", "/>">>) \in Mores
      /\ More(<<"<token>">>) \in Mores /\ More(<<"<sentence>">>) \in Mores /\ More(<<"</token>">>) \in Mores
      /\ More(token.space) \in Mores /\ More(token.form) \in Mores
  <2>1. /\ <<"<token lemma=", "l", "tag=", "t", ">">> \in Seq(Words) /\ <<"<analysis lemma=", "l", "tag=", "t", "/>">> \in Seq(Words)
        /\ <<"<token>">> \in Seq(Words) /\ <<"<sentence>">> \in Seq(Words) /\ <<"</token>">> \in Seq(Words)
    BY Names, TupleTypes, Zenon
  <2> QED BY <1>0, <2>1, MoreTypes, Zenon
<1>2. XmlAnalyses(r, token) \in Seq(Mores)
  <2> DEFINE e == <<More(<<"<analysis lemma=", "l", "tag=", "t", "/>">>)>>
             s == [k \in 1..token.analyses |-> e]
  <2>1. <<More(<<"<token lemma=", "l", "tag=", "t", ">">>)>> \in Seq(Mores) /\ <<More(<<"<token>">>)>> \in Seq(Mores) /\ e \in Seq(Mores)
    BY <1>1, TupleTypes, Zenon
  <2> HIDE DEF e
  <2>2. s \in Seq(Seq(Mores))
    <3>1. s \in [1..token.analyses -> Seq(Mores)]
      BY <2>1
    <3> HIDE DEF s
    <3> QED BY <1>0, <3>1
  <2> HIDE DEF s
  <2>3. FlattenSeq(s) \in Seq(Mores)
    BY <2>2, FlattenType
  <2>4. <<More(<<"<token>">>)>> \o FlattenSeq(s) \in Seq(Mores)
    BY <2>1, <2>3, ConcatProperties
  <2>5. XmlAnalyses(r, token) \in {<<More(<<"<token lemma=", "l", "tag=", "t", ">">>)>>, <<More(<<"<token>">>)>> \o FlattenSeq(s),
                                   <<More(<<"<token>">>)>>}
    BY DEF XmlAnalyses, s, e
  <2> QED BY <2>1, <2>4, <2>5
<1>3. <<More(token.space)>> \in Seq(Mores) /\ <<More(<<"<sentence>">>)>> \in Seq(Mores) /\ <<More(token.form), More(<<"</token>">>)>> \in Seq(Mores)
  BY <1>1, TupleTypes, Zenon
<1> DEFINE a == Optional(token.space # <<>>, <<More(token.space)>>)
           b == Optional(i = 1, <<More(<<"<sentence>">>)>>)
           c == <<More(token.form), More(<<"</token>">>)>>
<1>4. a \in Seq(Mores) /\ b \in Seq(Mores) /\ c \in Seq(Mores)
  BY <1>3, OptionalType
<1>5. XmlToken(r, token, i) = a \o b \o XmlAnalyses(r, token) \o c
  BY DEF XmlToken
<1> HIDE DEF a, b, c
<1> QED BY <1>2, <1>4, <1>5, ConcatProperties

LEMMA VerticalTokenType ==
  ASSUME NEW r \in Requests, NEW token \in Token
  PROVE  VerticalToken(r, token) \in Seq(Mores)
<1>0. token.form \in Seq(Words) /\ token.analyses \in Nat
  BY RequestParts
<1>1. More(<<"\\t", "l", "\\t", "t">>) \in Mores /\ More(<<"\\n">>) \in Mores /\ More(token.form) \in Mores
  <2>1. <<"\\t", "l", "\\t", "t">> \in Seq(Words) /\ <<"\\n">> \in Seq(Words)
    BY Names, TupleTypes, Zenon
  <2> QED BY <1>0, <2>1, MoreTypes, Zenon
<1> DEFINE n == IF r.method = "tokenize" THEN 0 ELSE IF r.method = "tag" THEN 1 ELSE token.analyses
           e == <<More(<<"\\t", "l", "\\t", "t">>)>>
           s == [k \in 1..n |-> e]
           a == <<More(token.form)>>
           b == <<More(<<"\\n">>)>>
<1>2. e \in Seq(Mores) /\ a \in Seq(Mores) /\ b \in Seq(Mores)
  BY <1>1, TupleTypes, Zenon
<1>3. n \in Nat
  BY <1>0
<1>4. VerticalToken(r, token) = a \o FlattenSeq(s) \o b
  BY DEF VerticalToken
<1> HIDE DEF e, a, b, n
<1>5. FlattenSeq(s) \in Seq(Mores)
  <2>1. s \in [1..n -> Seq(Mores)]
    BY <1>2
  <2> HIDE DEF s
  <2>2. s \in Seq(Seq(Mores))
    BY <1>3, <2>1
  <2> QED BY <2>2, FlattenType
<1> HIDE DEF s
<1> QED BY <1>2, <1>4, <1>5, ConcatProperties

LEMMA FormType ==
  ASSUME NEW r \in Requests, NEW token \in Token, NEW i \in Nat
  PROVE  /\ r.mode = "JSON" => Form(r, token, i) = <<Object, Key("form"), Value(token.form)>> \o Tail(Analysis) /\ Form(r, token, i) \in Seq(Ops)
         /\ r.mode # "JSON" => Form(r, token, i) \in Seq(Mores)
<1>0. token.form \in Seq(Words)
  BY RequestParts
<1>1. CASE r.mode = "JSON"
  <2>1. Key("form") \in Ops /\ Value(token.form) \in Ops /\ Object \in Ops
    BY <1>0, Names, OpTypes
  <2>2. <<Object, Key("form"), Value(token.form)>> \in Seq(Ops)
    <3>1. \A a, b, c \in Ops : <<a, b, c>> \in Seq(Ops)
      OBVIOUS
    <3> QED BY <2>1, <3>1, Zenon
  <2>3. Tail(Analysis) \in Seq(Ops)
    <3>1. Analysis \in Seq(Ops)
      BY JsonTokenType, 0 \in Nat, TRUE \in BOOLEAN
    <3>2. Analysis # <<>>
      BY DEF Analysis
    <3> QED BY <3>1, <3>2, HeadTailProperties
  <2> QED BY <1>1, <2>2, <2>3, ConcatProperties DEF Form
<1>2. CASE r.mode # "JSON"
  <2>1. More(<<"\\t">>) \in Mores /\ More(token.form) \in Mores /\ More(<<"\\t", "l", "\\t", "t">>) \in Mores
    <3>1. <<"\\t", "l", "\\t", "t">> \in Seq(Words) /\ <<"\\t">> \in Seq(Words)
      BY Names, TupleTypes, Zenon
    <3> QED BY <1>0, <3>1, MoreTypes, Zenon
  <2>2. <<More(<<"\\t">>)>> \in Seq(Mores) /\ <<More(token.form), More(<<"\\t", "l", "\\t", "t">>)>> \in Seq(Mores)
    BY <2>1, TupleTypes, Zenon
  <2>3. Optional(i > 1, <<More(<<"\\t">>)>>) \in Seq(Mores)
    BY <2>2, OptionalType
  <2>4. Form(r, token, i) = Optional(i > 1, <<More(<<"\\t">>)>>) \o <<More(token.form), More(<<"\\t", "l", "\\t", "t">>)>>
    BY <1>2 DEF Form
  <2> QED BY <1>2, <2>2, <2>3, <2>4, ConcatProperties
<1> QED BY <1>1, <1>2

\* The scripts of the parts of a sequence follow one another.
LEMMA EachType ==
  ASSUME NEW S, NEW T, NEW s \in Seq(T), NEW f, f = [i \in DOMAIN s |-> f[i]], \A i \in 1..Len(s) : f[i] \in Seq(S)
  PROVE  f \in Seq(Seq(S)) /\ Len(f) = Len(s) /\ FlattenSeq(f) \in Seq(S)
<1>1. DOMAIN s = 1..Len(s) /\ Len(s) \in Nat
  OBVIOUS
<1>2. f \in [1..Len(s) -> Seq(S)]
  BY <1>1
<1>3. f \in Seq(Seq(S)) /\ Len(f) = Len(s)
  BY <1>1, <1>2
<1> QED BY <1>3, FlattenType

\* What next adds for a sentence.
LEMMA SentenceType ==
  ASSUME NEW r \in Requests, NEW sentence \in Seq(Token), NEW is_first \in BOOLEAN
  PROVE  /\ r.mode = "JSON" => Sentence(r, sentence, is_first) \in Seq(Ops)
         /\ r.mode # "JSON" => \E s \in Seq(Mores) : \E t \in Mores : Sentence(r, sentence, is_first) = s \o <<t>>
<1>0. \A i \in 1..Len(sentence) : sentence[i] \in Token /\ i \in Nat
  OBVIOUS
<1>1. CASE r.mode = "JSON"
  <2> DEFINE f == [i \in DOMAIN sentence |-> JsonToken(r, sentence[i], i, is_first)]
  <2>1. f = [i \in DOMAIN sentence |-> f[i]] /\ \A i \in 1..Len(sentence) : f[i] \in Seq(Ops)
    BY <1>0, JsonTokenType
  <2>2. Sentence(r, sentence, is_first) = FlattenSeq(f)
    BY <1>1 DEF Sentence
  <2> HIDE DEF f
  <2> QED BY <1>1, <2>1, <2>2, EachType
<1>2. CASE r.mode = "XML"
  <2> DEFINE f == [i \in DOMAIN sentence |-> XmlToken(r, sentence[i], i)]
  <2>1. f = [i \in DOMAIN sentence |-> f[i]] /\ \A i \in 1..Len(sentence) : f[i] \in Seq(Mores)
    BY <1>0, XmlTokenType
  <2>2. Sentence(r, sentence, is_first) = FlattenSeq(f) \o <<More(<<"</sentence>">>)>>
    BY <1>2 DEF Sentence
  <2>3. More(<<"</sentence>">>) \in Mores
    BY Names, OpTypes, MoreTypes
  <2> HIDE DEF f
  <2>4. FlattenSeq(f) \in Seq(Mores)
    BY <2>1, EachType
  <2> QED BY <1>2, <2>2, <2>3, <2>4
<1>3. CASE r.mode = "VERTICAL"
  <2> DEFINE f == [i \in DOMAIN sentence |-> VerticalToken(r, sentence[i])]
  <2>1. f = [i \in DOMAIN sentence |-> f[i]] /\ \A i \in 1..Len(sentence) : f[i] \in Seq(Mores)
    BY <1>0, VerticalTokenType
  <2>2. Sentence(r, sentence, is_first) = FlattenSeq(f) \o <<More(<<"\\n">>)>>
    BY <1>3 DEF Sentence
  <2>3. More(<<"\\n">>) \in Mores
    BY Names, OpTypes, MoreTypes
  <2> HIDE DEF f
  <2>4. FlattenSeq(f) \in Seq(Mores)
    BY <2>1, EachType
  <2> QED BY <1>3, <2>2, <2>3, <2>4
<1> QED BY <1>1, <1>2, <1>3, RequestParts

\* What next of generate adds for a line.
LEMMA LineType ==
  ASSUME NEW r \in Requests, NEW line \in Seq(Token)
  PROVE  /\ r.mode = "JSON" => Line(r, line) \in Seq(Ops)
         /\ r.mode # "JSON" => \E s \in Seq(Mores) : \E t \in Mores : Line(r, line) = s \o <<t>>
<1>0. \A i \in 1..Len(line) : line[i] \in Token /\ i \in Nat
  OBVIOUS
<1> DEFINE f == [i \in DOMAIN line |-> Form(r, line[i], i)]
<1>1. f = [i \in DOMAIN line |-> f[i]]
  OBVIOUS
<1>2. CASE r.mode = "JSON"
  <2>1. \A i \in 1..Len(line) : f[i] \in Seq(Ops)
    <3> TAKE i \in 1..Len(line)
    <3>1. line[i] \in Token /\ i \in Nat
      BY <1>0
    <3>2. Form(r, line[i], i) \in Seq(Ops)
      BY <1>2, <3>1, FormType
    <3> QED BY <3>2
  <2>2. Line(r, line) = <<Array>> \o FlattenSeq(f) \o <<Close>>
    BY <1>2 DEF Line
  <2> HIDE DEF f
  <2>3. FlattenSeq(f) \in Seq(Ops)
    BY <1>1, <2>1, EachType
  <2>4. <<Array>> \in Seq(Ops) /\ <<Close>> \in Seq(Ops)
    BY OpTypes, TupleTypes, Zenon
  <2> QED BY <1>2, <2>2, <2>3, <2>4, ConcatProperties
<1>3. CASE r.mode # "JSON"
  <2>1. \A i \in 1..Len(line) : f[i] \in Seq(Mores)
    <3> TAKE i \in 1..Len(line)
    <3>1. line[i] \in Token /\ i \in Nat
      BY <1>0
    <3>2. Form(r, line[i], i) \in Seq(Mores)
      BY <1>3, <3>1, FormType
    <3> QED BY <3>2
  <2>2. Line(r, line) = FlattenSeq(f) \o <<More(<<"\\n">>)>>
    BY <1>3 DEF Line
  <2>3. More(<<"\\n">>) \in Mores
    BY Names, OpTypes, MoreTypes
  <2> HIDE DEF f
  <2>4. FlattenSeq(f) \in Seq(Mores)
    BY <1>1, <2>1, EachType
  <2> QED BY <1>3, <2>2, <2>3, <2>4
<1> QED BY <1>2, <1>3

\* What a call of generate adds is a script.
LEMMA ScriptType ==
  ASSUME NEW r \in Requests, NEW n \in Nat \ {0}, NEW is_first \in BOOLEAN
  PROVE  Script(r, n, is_first) \in Seq(Ops)
<1>0. r.sentences \in Seq(Seq(Token)) /\ r.rest \in Seq(Words)
  BY RequestParts
<1>1. CASE n <= Len(r.sentences)
  <2>1. r.sentences[n] \in Seq(Token)
    BY <1>0, <1>1
  <2>2. Line(r, r.sentences[n]) \in Seq(Ops)
    <3>1. CASE r.mode = "JSON"
      BY <2>1, <3>1, LineType
    <3>2. CASE r.mode # "JSON"
      <4>1. PICK s \in Seq(Mores), t \in Mores : Line(r, r.sentences[n]) = s \o <<t>>
        BY <2>1, <3>2, LineType
      <4>2. <<t>> \in Seq(Mores)
        BY TupleTypes
      <4>3. s \o <<t>> \in Seq(Mores)
        BY <4>2, ConcatProperties
      <4> QED BY <4>1, <4>3, MoreTypes
    <3> QED BY <3>1, <3>2
  <2>3. Sentence(r, r.sentences[n], is_first) \in Seq(Ops)
    <3>1. CASE r.mode = "JSON"
      BY <2>1, <3>1, SentenceType
    <3>2. CASE r.mode # "JSON"
      <4>1. PICK s \in Seq(Mores), t \in Mores : Sentence(r, r.sentences[n], is_first) = s \o <<t>>
        BY <2>1, <3>2, SentenceType
      <4>2. <<t>> \in Seq(Mores)
        BY TupleTypes
      <4>3. s \o <<t>> \in Seq(Mores)
        BY <4>2, ConcatProperties
      <4> QED BY <4>1, <4>3, MoreTypes
    <3> QED BY <3>1, <3>2
  <2> QED BY <1>1, <2>2, <2>3 DEF Script
<1>2. CASE ~ (n <= Len(r.sentences))
  <2>1. More(r.rest) \in Ops /\ Key("space") \in Ops /\ Value(r.rest) \in Ops /\ Close \in Ops /\ Finish \in Ops
    BY <1>0, Names, OpTypes
  <2>2. /\ <<More(r.rest)>> \in Seq(Ops) /\ <<Key("space"), Value(r.rest)>> \in Seq(Ops) /\ <<Close, Close>> \in Seq(Ops)
        /\ <<Close>> \in Seq(Ops) /\ <<Finish>> \in Seq(Ops) /\ <<>> \in Seq(Ops)
    BY <2>1, TupleTypes, Zenon
  <2> DEFINE a == Optional(r.mode = "XML" /\ r.rest # <<>>, <<More(r.rest)>>)
             b == Optional(r.mode = "JSON" /\ ~is_first /\ r.rest # <<>>, <<Key("space"), Value(r.rest)>>)
             c == Optional(r.mode = "JSON" /\ ~is_first, <<Close, Close>>)
             d == Optional(r.mode = "JSON", <<Close>>)
  <2>3. a \in Seq(Ops) /\ b \in Seq(Ops) /\ c \in Seq(Ops) /\ d \in Seq(Ops)
    BY <2>2, OptionalType
  <2>4. NoSentence(r, is_first) \in {<<>>, a \o b \o c}
    BY DEF NoSentence
  <2>5. Script(r, n, is_first) = NoSentence(r, is_first) \o d \o <<Finish>>
    BY <1>2 DEF Script
  <2> HIDE DEF a, b, c, d
  <2>6. NoSentence(r, is_first) \in Seq(Ops)
    <3>1. a \o b \o c \in Seq(Ops)
      BY <2>3, ConcatProperties
    <3> QED BY <2>2, <2>4, <3>1
  <2> QED BY <2>2, <2>3, <2>5, <2>6, ConcatProperties
<1> QED BY <1>1, <1>2

-----------------------------------------------------------------------------
(* The response is the document.                                             *)

\* A stream is its beginning and its rest.
LEMMA CutStream ==
  ASSUME NEW s \in Streams, NEW m \in 0..Len(s), NEW n \in m..Len(s)
  PROVE  /\ SubSeq(s, 1, m) \in Streams /\ SubSeq(s, m + 1, n) \in Streams /\ SubSeq(s, 1, n) \in Streams
         /\ SubSeq(s, 1, m) \o SubSeq(s, m + 1, n) = SubSeq(s, 1, n)
         /\ Len(SubSeq(s, m + 1, n)) = n - m
         /\ SubSeq(s, 1, Len(s)) = s
<1>0. s \in Seq(Tokens) /\ Len(s) \in Nat /\ m \in Nat /\ n \in Nat /\ m <= n /\ n <= Len(s)
  BY DEF Streams
<1>1. \A i \in 1..Len(s) : s[i] \in Tokens
  BY <1>0
<1>2. SubSeq(s, 1, m) \in Seq(Tokens) /\ SubSeq(s, 1, n) \in Seq(Tokens)
  BY <1>0, <1>1, SubSeqProperties
<1>3. SubSeq(s, m + 1, n) \in Seq(Tokens) /\ Len(SubSeq(s, m + 1, n)) = n - m
  BY <1>0, <1>1, SubSeqProperties
<1>4. SubSeq(s, 1, m) \o SubSeq(s, m + 1, n) = SubSeq(s, 1, n)
  BY <1>0, <1>2, <1>3, SeqEqual, ConcatProperties
<1> QED BY <1>0, <1>2, <1>3, <1>4, SubSeqFull DEF Streams

\* What is followed by something is a prefix, and stays one.
LEMMA PrefixStream ==
  ASSUME NEW s \in Streams, NEW t \in Streams
  PROVE  IsPrefix(s, s \o t)
<1>0. s \in Seq(Tokens) /\ t \in Seq(Tokens) /\ Len(s) \in Nat /\ Len(t) \in Nat
  BY DEF Streams
<1>1. Len(s \o t) = Len(s) + Len(t)
  BY <1>0
<1>2. SubSeq(s \o t, 1, Len(s)) = s
  BY <1>0, SubSeqOfConcat1
<1>3. SubSeq(s, 1, Len(s)) = s
  BY <1>0, SubSeqFull
<1> QED BY <1>0, <1>1, <1>2, <1>3 DEF IsPrefix

\* What was sent, and what the builder still holds: behind g, which was discarded.
Told(g, b, offset, s, w) == Behind(g, b, w) /\ Content(s) = g \o Content(SubSeq(b.json, 1, offset))

\* The invariant of a response. The minimum is positive, so that a response with nothing unsent
\* is only ended when its generator has no more to say.
ResponseInv ==
  /\ request \in Requests /\ min_generated \in Nat \ {0}
  /\ buffer \in Nat /\ position \in Nat
  /\ first \in BOOLEAN /\ last \in BOOLEAN /\ generator_end \in BOOLEAN
  /\ pc \in {"idle", "filling", "ended"}
  /\ pc = "filling" => buffer # 0
  /\ json \in Builders /\ whole \in Builders /\ sent \in Streams
  /\ generator_offset \in 0..Len(json.json)
  /\ generator_end => last
  /\ pc = "ended" => last /\ Content(sent) = Content(whole.json)
  /\ \E g \in Streams : Told(g, json, generator_offset, sent, whole)

\* A response begins with its header.
LEMMA ResponseInit == Init => ResponseInv
<1> SUFFICES ASSUME Init PROVE ResponseInv
  OBVIOUS
<1>1. request \in Requests /\ min_generated \in Nat \ {0}
  BY GeneratedAssumption DEF Init
<1>2. Clear \in Builders
  <2>1. <<>> \in Streams /\ <<>> \in Seq(Brackets)
    BY ShortTexts, EmptySeq
  <2> QED BY <2>1 DEF Clear, Builders, BuilderModes
<1>3. json \in Builders /\ whole = json
  BY <1>1, <1>2, HeaderType, DoneType DEF Init
<1>4. sent = <<>> /\ <<>> \in Streams /\ Content(<<>>) = <<>>
  BY ShortTexts, ContentNone DEF Init
<1>5. json.json \in Seq(Tokens)
  BY <1>3, Fields DEF Streams
<1>6. generator_offset = 0 /\ 0 \in 0..Len(json.json) /\ SubSeq(json.json, 1, 0) = <<>>
  BY <1>5, SubSeqEmpty DEF Init
<1>7. Told(<<>>, json, generator_offset, sent, whole)
  <2>1. Content(json.json) \in Streams
    BY <1>3, <1>4, Fields, ContentConcat
  <2>2. <<>> \o Content(json.json) = Content(json.json) /\ <<>> \o <<>> = <<>>
    BY <2>1, ConcatEmptySeq, EmptySeq DEF Streams
  <2> QED BY <1>3, <1>4, <1>6, <2>2 DEF Told, Behind
<1> QED BY <1>1, <1>3, <1>4, <1>6, <1>7 DEF Init, ResponseInv

\* A call of generate: the documents grow in the same way, and what was sent stays where it is.
LEMMA GenerateStep ==
  ASSUME ResponseInv, Generate, ~last
  PROVE  /\ json' \in Builders /\ whole' \in Builders
         /\ \E x \in Streams : Content(whole'.json) = Content(whole.json) \o x
         /\ generator_offset \in 0..Len(json'.json)
         /\ \E g \in Streams : Told(g, json', generator_offset, sent, whole')
<1> DEFINE script == Script(request, position + 1, first)
<1>1. script \in Seq(Ops)
  BY ScriptType DEF ResponseInv
<1>2. json' = Done(json, script) /\ whole' = Done(whole, script)
  BY DEF Generate
<1> HIDE DEF script
<1>3. json \in Builders /\ whole \in Builders
  BY DEF ResponseInv
<1>4. json' \in Builders /\ whole' \in Builders
  BY <1>1, <1>2, <1>3, DoneType
<1>5. \E x \in Streams : Content(whole'.json) = Content(whole.json) \o x
  <2>1. PICK x : Adds(whole, Done(whole, script), x)
    BY <1>1, <1>3, DoneAdds
  <2> QED BY <1>2, <1>3, <2>1, AddsContent
<1>6. PICK t \in Streams : json'.json = json.json \o t
  <2>1. PICK x : Adds(json, Done(json, script), x)
    BY <1>1, <1>3, DoneAdds
  <2> QED BY <1>2, <2>1 DEF Adds
<1>7. generator_offset \in 0..Len(json'.json) /\ SubSeq(json'.json, 1, generator_offset) = SubSeq(json.json, 1, generator_offset)
  <2>1. json.json \in Seq(Tokens) /\ t \in Seq(Tokens) /\ generator_offset \in 0..Len(json.json)
    BY <1>3, Fields DEF ResponseInv, Streams
  <2>2. Len(json.json \o t) = Len(json.json) + Len(t) /\ Len(t) \in Nat /\ Len(json.json) \in Nat
    BY <2>1
  <2>3. SubSeq(json.json \o t, 1, generator_offset) = SubSeq(json.json, 1, generator_offset)
    BY <2>1, SubSeqOfConcat1
  <2> QED BY <1>6, <2>1, <2>2, <2>3
<1>8. \E g \in Streams : Told(g, json', generator_offset, sent, whole')
  <2>1. PICK g \in Streams : Told(g, json, generator_offset, sent, whole)
    BY DEF ResponseInv
  <2>2. Behind(g, json', whole')
    BY <1>1, <1>2, <1>3, <2>1, DoneBehind DEF Told
  <2> QED BY <1>7, <2>1, <2>2 DEF Told
<1> QED BY <1>4, <1>5, <1>7, <1>8

\* A delivered piece: it follows what was sent, and comes before what was not.
LEMMA DeliverStep ==
  ASSUME ResponseInv, Deliver
  PROVE  /\ sent' \in Streams /\ json' \in Builders
         /\ IsPrefix(Content(sent), Content(sent')) /\ IsPrefix(Content(sent'), Content(whole.json))
         /\ generator_offset' \in 0..Len(json'.json)
         /\ \E g \in Streams : Told(g, json', generator_offset', sent', whole)
<1> DEFINE data_len == Least(unsent, buffer)
           offset == generator_offset + data_len
           text == json.json
           before == SubSeq(text, 1, generator_offset)
           piece == SubSeq(text, generator_offset + 1, offset)
           consumed == unsent - data_len < minimum
           until == SubSeq(text, 1, offset)
           rest == SubSeq(text, offset + 1, Len(text))
<1>1. text \in Streams /\ json \in Builders /\ whole \in Builders /\ sent \in Streams /\ Len(text) \in Nat
  BY Fields, LenProperties DEF ResponseInv, Streams
<1>2. generator_offset \in 0..Len(text) /\ offset \in generator_offset..Len(text) /\ offset \in 0..Len(text)
  <2>1. generator_offset \in Nat /\ generator_offset <= Len(text) /\ buffer \in Nat /\ unsent = Len(text) - generator_offset
    BY <1>1 DEF ResponseInv, unsent
  <2> HIDE DEF text
  <2>2. unsent \in Nat /\ data_len \in 0..unsent
    BY <1>1, <2>1 DEF Least
  <2> HIDE DEF data_len
  <2> QED BY <1>1, <2>1, <2>2
<1>3. /\ sent' = sent \o piece
      /\ json' = IF consumed THEN discard_current_prefix(json, offset) ELSE json
      /\ generator_offset' = IF consumed THEN 0 ELSE offset
  BY DEF Deliver
<1> HIDE DEF data_len, offset, text, consumed
<1>4. /\ before \in Streams /\ piece \in Streams /\ until \in Streams /\ before \o piece = until
  BY <1>1, <1>2, CutStream
<1>5. rest \in Streams /\ until \o rest = text
  <2>1. Len(text) \in offset..Len(text)
    BY <1>1, <1>2
  <2> QED BY <1>1, <1>2, <2>1, CutStream
<1> HIDE DEF before, piece, until, rest
<1>6. PICK g \in Streams : Told(g, json, generator_offset, sent, whole)
  BY DEF ResponseInv
<1>7. Content(sent) = g \o Content(before) /\ Content(whole.json) = g \o Content(text)
  BY <1>6 DEF Told, Behind, before, text
<1>8. /\ Content(before) \in Streams /\ Content(piece) \in Streams /\ Content(until) \in Streams /\ Content(rest) \in Streams
      /\ Content(sent) \in Streams
      /\ Content(until) = Content(before) \o Content(piece) /\ Content(text) = Content(until) \o Content(rest)
      /\ sent' \in Streams /\ Content(sent') = Content(sent) \o Content(piece)
  <2>1. sent \o piece \in Streams
    BY <1>1, <1>4, StreamConcat
  <2> QED BY <1>1, <1>3, <1>4, <1>5, <2>1, ContentConcat
<1>9. Content(sent') = g \o Content(until)
  <2>1. (g \o Content(before)) \o Content(piece) = g \o (Content(before) \o Content(piece))
    BY <1>8, StreamConcat
  <2> QED BY <1>7, <1>8, <2>1
<1>10. IsPrefix(Content(sent), Content(sent'))
  BY <1>8, PrefixStream
<1>11. IsPrefix(Content(sent'), Content(whole.json))
  <2>1. (g \o Content(until)) \o Content(rest) = g \o (Content(until) \o Content(rest)) /\ g \o Content(until) \in Streams
    BY <1>8, StreamConcat
  <2>2. IsPrefix(g \o Content(until), (g \o Content(until)) \o Content(rest))
    BY <1>8, <2>1, PrefixStream
  <2> QED BY <1>7, <1>8, <1>9, <2>1, <2>2
<1>12. CASE ~ consumed
  <2>1. json' = json /\ generator_offset' = offset
    BY <1>3, <1>12
  <2>2. Told(g, json', generator_offset', sent', whole)
    BY <1>6, <1>9, <2>1 DEF Told, until, text
  <2> QED BY <1>1, <1>2, <1>8, <1>10, <1>11, <2>1, <2>2 DEF text
<1>13. CASE consumed
  <2>1. generator_offset' = 0 /\ json' = discard_current_prefix(json, offset)
    BY <1>3, <1>13
  <2>2. /\ json' = [json EXCEPT !.json = rest] /\ json' \in Builders /\ json'.json = rest
        /\ json'.stack = json.stack /\ json'.mode = json.mode /\ json'.need_indent = json.need_indent
    <3>1. json' = [json EXCEPT !.json = rest]
      BY <2>1 DEF discard_current_prefix, rest, text
    <3> QED BY <1>1, <1>5, <3>1 DEF Builders
  <2> DEFINE h == g \o Content(until)
  <2>3. h \in Streams /\ h \o Content(rest) = g \o Content(text) /\ h \o <<>> = h
    <3>1. h \in Streams /\ h \o Content(rest) = g \o (Content(until) \o Content(rest))
      BY <1>8, StreamConcat
    <3>2. h \o <<>> = h
      BY <3>1, ConcatEmptySeq DEF Streams
    <3> QED BY <1>8, <3>1, <3>2
  <2>4. SubSeq(rest, 1, 0) = <<>> /\ 0 \in 0..Len(rest)
    BY <1>5, SubSeqEmpty, LenProperties DEF Streams
  <2> HIDE DEF h
  <2>5. Behind(h, json', whole)
    BY <1>6, <1>7, <2>2, <2>3 DEF Told, Behind
  <2>6. Content(sent') = h \o Content(SubSeq(json'.json, 1, generator_offset'))
    BY <1>9, <2>1, <2>2, <2>3, <2>4, ContentNone DEF h
  <2> QED BY <1>8, <1>10, <1>11, <2>1, <2>2, <2>3, <2>4, <2>5, <2>6 DEF Told
<1> QED BY <1>12, <1>13

\* The end is announced when nothing is left: there is a minimum to fill, so that only the
\* end of the generator leaves nothing to send.
LEMMA EndStep ==
  ASSUME ResponseInv, EndOfStream
  PROVE  last /\ pc # "ended" /\ Content(sent) = Content(whole.json)
<1>1. /\ json \in Builders /\ generator_offset \in 0..Len(json.json) /\ min_generated \in Nat \ {0} /\ buffer \in Nat \ {0}
      /\ json.json \in Streams /\ Len(json.json) \in Nat
  BY Fields, LenProperties DEF ResponseInv, Streams, EndOfStream, Filled
<1>2. unsent = Len(json.json) - generator_offset /\ unsent <= 0 /\ (unsent >= minimum \/ generator_end)
  BY DEF EndOfStream, Filled, unsent
<1>3. minimum \in Nat \ {0}
  BY <1>1 DEF minimum, Least
<1>4. last /\ generator_offset = Len(json.json)
  BY <1>1, <1>2, <1>3 DEF ResponseInv
<1>5. PICK g \in Streams : Told(g, json, generator_offset, sent, whole)
  BY DEF ResponseInv
<1>6. SubSeq(json.json, 1, generator_offset) = json.json
  BY <1>1, <1>4, SubSeqFull DEF Streams
<1> QED BY <1>4, <1>5, <1>6 DEF Told, Behind, EndOfStream, Filled

\* Every step of a response is one of the stream, or changes nothing of it, and keeps the invariant.
LEMMA ResponseStep == ResponseInv /\ [Next]_vars => ResponseInv' /\ [Stream!Next]_(Stream!vars)
<1> SUFFICES ASSUME ResponseInv, [Next]_vars PROVE ResponseInv' /\ [Stream!Next]_(Stream!vars)
  OBVIOUS
<1>1. CASE Generate /\ last
  <2>1. UNCHANGED <<arguments, generator, generator_offset, pc, buffer, sent, whole>> /\ generator_end' = TRUE
    BY <1>1 DEF Generate
  <2>2. ResponseInv'
    BY <1>1, <2>1 DEF ResponseInv, arguments, generator
  <2> QED BY <2>1, <2>2 DEF Stream!vars, generator
<1>2. CASE Generate /\ ~ last
  <2>1. /\ UNCHANGED <<arguments, generator_end, generator_offset, pc, buffer, sent>> /\ pc = "filling"
        /\ last' \in BOOLEAN /\ position' \in {position, position + 1} /\ first' \in BOOLEAN
    BY <1>2 DEF Generate
  <2>2. /\ json' \in Builders /\ whole' \in Builders
        /\ \E x \in Streams : Content(whole'.json) = Content(whole.json) \o x
        /\ generator_offset \in 0..Len(json'.json)
        /\ \E g \in Streams : Told(g, json', generator_offset, sent, whole')
    BY <1>2, GenerateStep
  <2>3. ResponseInv'
    BY <1>2, <2>1, <2>2 DEF ResponseInv, arguments
  <2>4. Content(whole.json) \in Streams
    <3>1. whole.json \in Streams
      BY Fields DEF ResponseInv
    <3> QED BY <3>1, ContentConcat
  <2>5. Stream!Produce
    <3>1. IsPrefix(Content(whole.json), Content(whole'.json))
      BY <2>2, <2>4, PrefixStream
    <3>2. Stream!IsPrefix(Content(whole.json), Content(whole'.json))
      BY <3>1 DEF IsPrefix, Stream!IsPrefix
    <3> QED BY <1>2, <2>1, <3>2 DEF Stream!Produce
  <2> QED BY <2>3, <2>5 DEF Stream!Next
<1>3. CASE Deliver
  <2>1. UNCHANGED <<arguments, first, last, position, generator_end, buffer, whole>> /\ pc' = "idle" /\ pc = "filling"
    BY <1>3 DEF Deliver, Filled
  <2>2. /\ sent' \in Streams /\ json' \in Builders
        /\ IsPrefix(Content(sent), Content(sent')) /\ IsPrefix(Content(sent'), Content(whole.json))
        /\ generator_offset' \in 0..Len(json'.json)
        /\ \E g \in Streams : Told(g, json', generator_offset', sent', whole)
    BY <1>3, DeliverStep
  <2>3. ResponseInv'
    BY <2>1, <2>2 DEF ResponseInv, arguments
  <2>4. Stream!Deliver
    <3>1. Stream!IsPrefix(Content(sent), Content(sent')) /\ Stream!IsPrefix(Content(sent'), Content(whole.json))
      BY <2>2 DEF IsPrefix, Stream!IsPrefix
    <3> QED BY <2>1, <3>1 DEF Stream!Deliver
  <2> QED BY <2>3, <2>4 DEF Stream!Next
<1>4. CASE EndOfStream
  <2>1. UNCHANGED <<arguments, generator, generator_offset, generator_end, buffer, sent, whole>> /\ pc' = "ended"
    BY <1>4 DEF EndOfStream
  <2>2. last /\ pc # "ended" /\ Content(sent) = Content(whole.json)
    BY <1>4, EndStep
  <2>3. ResponseInv'
    BY <2>1, <2>2 DEF ResponseInv, arguments, generator
  <2>4. Stream!End
    BY <2>1, <2>2 DEF Stream!End
  <2> QED BY <2>3, <2>4 DEF Stream!Next
<1>5. CASE \E max \in BufferSizes : Callback(max)
  <2>1. UNCHANGED <<arguments, generator, generator_offset, generator_end, sent, whole>> /\ pc' = "filling" /\ pc = "idle" /\ buffer' \in Nat \ {0}
    BY <1>5, GeneratedAssumption DEF Callback
  <2>2. ResponseInv'
    BY <2>1 DEF ResponseInv, arguments, generator
  <2> QED BY <2>1, <2>2 DEF Stream!vars, generator
<1>6. CASE UNCHANGED vars
  <2>1. UNCHANGED <<arguments, generator, generator_offset, generator_end, pc, buffer, sent, whole>>
    BY <1>6 DEF vars
  <2>2. ResponseInv'
    BY <2>1 DEF ResponseInv, arguments, generator
  <2> QED BY <2>1, <2>2 DEF Stream!vars, generator
<1> QED BY <1>1, <1>2, <1>3, <1>4, <1>5, <1>6 DEF Next

\* The response is the document that the generator makes, up to its layout: for every request,
\* every minimum and whatever sizes libmicrohttpd asks for, what is sent after any pieces and any
\* discarding is a beginning of it, without a gap and without a repetition, and the end of the
\* stream is announced exactly when the document is complete and all of it was sent.
THEOREM StreamImplemented == Spec => ImplementsStream
<1>1. Init => Stream!Init
  BY ContentNone DEF Init, Stream!Init
<1> QED BY <1>1, ResponseInit, ResponseStep, PTL DEF Spec, ImplementsStream, Stream!Spec
=============================================================================
