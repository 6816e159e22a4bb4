------------------------ MODULE ServiceDocumentProofs -----------------------
(* That a response in JSON is one JSON value and keeps its sentences apart,    *)
(* for any requests that are not left without anything to answer, whatever    *)
(* the pieces it is sent in.                                                  *)
EXTENDS ServiceResponseProofs

-----------------------------------------------------------------------------
(* The reader.                                                               *)

Wants == {"value", "first value", "key", "first key", "colon", "next", "end", "error"}
Readers == [stack : Seq({"{", "["}), want : Wants, string : {"none", "key", "value"}]
Reading == [p \in Readers |-> [e \in Tokens |-> ReadToken(p, e)]]

\* What a reader makes of a token, whatever its strings are.
LEMMA ReaderType ==
  /\ Reader \in Readers
  /\ \A p \in Readers : /\ p.stack \in Seq({"{", "["}) /\ p.want \in Wants /\ p.string \in {"none", "key", "value"}
                        /\ p = [stack |-> p.stack, want |-> p.want, string |-> p.string]
<1>1. <<>> \in Seq({"{", "["})
  BY EmptySeq
<1>2. Reader \in Readers
  BY <1>1 DEF Reader, Readers, Wants
<1>3. \A p \in Readers : /\ p.stack \in Seq({"{", "["}) /\ p.want \in Wants /\ p.string \in {"none", "key", "value"}
                         /\ p = [stack |-> p.stack, want |-> p.want, string |-> p.string]
  <2> TAKE p \in Readers
  <2>1. p.stack \in Seq({"{", "["}) /\ p.want \in Wants /\ p.string \in {"none", "key", "value"}
    BY DEF Readers
  <2>2. p = [stack |-> p.stack, want |-> p.want, string |-> p.string]
    BY DEF Readers
  <2> QED BY <2>1, <2>2
<1> QED BY <1>2, <1>3

\* The innermost bracket of a stack, and the brackets around it.
LEMMA FrontLast ==
  ASSUME NEW S, NEW s \in Seq(S), s # <<>>
  PROVE  Front(s) \in Seq(S) /\ Len(Front(s)) = Len(s) - 1 /\ Last(s) \in S /\ Last(s) = s[Len(s)]
         /\ \A i \in 1..Len(s) - 1 : Front(s)[i] = s[i]
<1>1. Len(s) \in Nat /\ Len(s) # 0 /\ \A i \in 1..Len(s) : s[i] \in S
  BY EmptySeq
<1>2. \A i \in 1..Len(s) - 1 : s[i] \in S
  BY <1>1
<1>3. s[Len(s)] \in S
  BY <1>1
<1>4. /\ SubSeq(s, 1, Len(s) - 1) \in Seq(S) /\ Len(SubSeq(s, 1, Len(s) - 1)) = Len(s) - 1
      /\ \A i \in 1..Len(s) - 1 : SubSeq(s, 1, Len(s) - 1)[i] = s[i]
  <2> DEFINE n == Len(s) - 1
  <2>1. n \in Nat /\ \A i \in 1..n : s[i] \in S
    BY <1>1, <1>2
  <2> HIDE DEF n
  <2>2. /\ SubSeq(s, 1, n) \in Seq(S) /\ Len(SubSeq(s, 1, n)) = IF 1 <= n THEN n - 1 + 1 ELSE 0
        /\ \A i \in 1..n - 1 + 1 : SubSeq(s, 1, n)[i] = s[1 + i - 1]
    BY <2>1, SubSeqProperties
  <2>3. (IF 1 <= n THEN n - 1 + 1 ELSE 0) = n /\ n - 1 + 1 = n /\ \A i \in 1..n : 1 + i - 1 = i
    BY <2>1
  <2>4. \A i \in 1..n : SubSeq(s, 1, n)[i] = s[i]
    BY <2>2, <2>3
  <2> QED BY <2>2, <2>3, <2>4 DEF n
<1> QED BY <1>3, <1>4 DEF Front, Last

LEMMA ReadTokenType ==
  ASSUME NEW p \in Readers, NEW e \in Tokens PROVE ReadToken(p, e) \in Readers
<1>1. /\ p.stack \in Seq({"{", "["}) /\ p.want \in Wants /\ p.string \in {"none", "key", "value"}
      /\ p = [stack |-> p.stack, want |-> p.want, string |-> p.string]
  BY ReaderType
<1>2. \A s \in Seq({"{", "["}) : WithValue([p EXCEPT !.stack = s]) \in Readers
  BY <1>1 DEF WithValue, Readers, Wants
<1>3. Append(p.stack, "{") \in Seq({"{", "["}) /\ Append(p.stack, "[") \in Seq({"{", "["})
  BY <1>1, AppendProperties
<1>4. \A bracket : Inside(p, bracket) => Front(p.stack) \in Seq({"{", "["})
  BY <1>1, FrontLast DEF Inside
<1>5. ReadStructure(p, e) \in Readers
  BY <1>1, <1>2, <1>3, <1>4 DEF ReadStructure, Readers, Wants
<1>6. p.string # "none" => ReadToken(p, e) \in Readers
  BY <1>1 DEF ReadToken, WithValue, Readers, Wants
<1> QED BY <1>5, <1>6 DEF ReadToken

LEMMA ReadingType == Folder(Reading, Readers, Tokens)
BY ReadTokenType DEF Folder, Reading

\* Reading a text is a fold.
LEMMA ReadIsFold ==
  ASSUME NEW p \in Readers, NEW text \in Streams
  PROVE  Read(p, text) = Fold(Reading, p, text)
<1> DEFINE G(f) == f = [k \in 0..Len(text) |-> IF k = 0 THEN p ELSE ReadToken(f[k - 1], text[k])]
<1>0. text \in Seq(Tokens) /\ Len(text) \in Nat
  BY LenProperties DEF Streams
<1>1. PICK r \in [0..Len(text) -> Readers] : Folds(Reading, p, text, r)
  BY <1>0, ReadingType, FoldExists
<1>2. \A k \in 1..Len(text) : r[k] = ReadToken(r[k - 1], text[k])
  <2> TAKE k \in 1..Len(text)
  <2>1. k - 1 \in 0..Len(text) /\ text[k] \in Tokens
    BY <1>0, ElementOfSeq
  <2>2. r[k] = Reading[r[k - 1]][text[k]]
    BY <1>1 DEF Folds
  <2> QED BY <2>1, <2>2 DEF Reading
<1>3. r[0] = p
  BY <1>1 DEF Folds
<1>4. G(r)
  <2>1. \A k \in 0..Len(text) : r[k] = IF k = 0 THEN p ELSE ReadToken(r[k - 1], text[k])
    <3> TAKE k \in 0..Len(text)
    <3>1. k # 0 => k \in 1..Len(text)
      OBVIOUS
    <3> QED BY <1>2, <1>3, <3>1
  <2> QED BY <2>1
<1> DEFINE c == CHOOSE f : G(f)
<1>5. G(c)
  <2> HIDE DEF G
  <2> QED BY <1>4
<1>6. Read(p, text) = c[Len(text)]
  BY DEF Read
<1> HIDE DEF c
<1>7. \A k \in 0..Len(text) : c[k] = IF k = 0 THEN p ELSE ReadToken(c[k - 1], text[k])
  BY <1>5
<1> HIDE DEF G
<1> DEFINE A == {k \in 0..Len(text) : c[k] = r[k]}
<1>8. 0 \in A
  BY <1>0, <1>3, <1>7
<1>9. ASSUME NEW n \in 0..Len(text) - 1, n \in A PROVE n + 1 \in A
  <2>1. n + 1 \in 1..Len(text) /\ n + 1 \in 0..Len(text) /\ n + 1 # 0 /\ n + 1 - 1 = n
    BY <1>0
  <2> QED BY <1>2, <1>7, <1>9, <2>1
<1>10. \A k \in 0..Len(text) : k \in A
  <2> HIDE DEF A
  <2> QED BY <1>0, <1>8, <1>9, UpTo
<1>11. c[Len(text)] = r[Len(text)]
  BY <1>0, <1>10
<1>12. r[Len(text)] = Fold(Reading, p, text)
  BY <1>0, <1>1, ReadingType, FoldIs
<1> QED BY <1>6, <1>11, <1>12

\* A text is read token by token, and piece by piece.
LEMMA ReadNone ==
  ASSUME NEW p \in Readers PROVE Read(p, <<>>) = p
<1>1. <<>> \in Streams
  BY ShortTexts
<1>2. Read(p, <<>>) = Fold(Reading, p, <<>>)
  BY <1>1, ReadIsFold
<1>3. Fold(Reading, p, <<>>) = p
  BY ReadingType, FoldNone
<1> QED BY <1>2, <1>3

LEMMA ReadType ==
  ASSUME NEW p \in Readers, NEW s \in Streams PROVE Read(p, s) \in Readers
BY ReadIsFold, ReadingType, FoldType DEF Streams

LEMMA ReadAppend ==
  ASSUME NEW p \in Readers, NEW s \in Streams, NEW e \in Tokens
  PROVE  Append(s, e) \in Streams /\ Read(p, Append(s, e)) = ReadToken(Read(p, s), e)
<1>1. s \in Seq(Tokens) /\ Append(s, e) \in Streams
  BY DEF Streams
<1>2. Fold(Reading, p, Append(s, e)) = Reading[Fold(Reading, p, s)][e]
  BY <1>1, ReadingType, FoldAppend
<1>3. Read(p, s) \in Readers /\ Read(p, s) = Fold(Reading, p, s) /\ Read(p, Append(s, e)) = Fold(Reading, p, Append(s, e))
  BY <1>1, ReadIsFold, ReadType
<1> QED BY <1>1, <1>2, <1>3 DEF Reading

LEMMA ReadConcat ==
  ASSUME NEW p \in Readers, NEW s \in Streams, NEW t \in Streams
  PROVE  Read(p, s \o t) = Read(Read(p, s), t)
<1>1. s \in Seq(Tokens) /\ t \in Seq(Tokens) /\ s \o t \in Streams /\ Read(p, s) \in Readers
  BY StreamConcat, ReadType DEF Streams
<1>2. Fold(Reading, p, s \o t) = Fold(Reading, Fold(Reading, p, s), t)
  BY <1>1, ReadingType, FoldConcat
<1> QED BY <1>1, <1>2, ReadIsFold

LEMMA ReadOne ==
  ASSUME NEW p \in Readers, NEW e \in Tokens PROVE Read(p, <<e>>) = ReadToken(p, e)
<1>1. <<e>> = Append(<<>>, e) /\ <<>> \in Streams
  BY DEF Streams
<1>2. ASSUME NEW s \in Streams, Read(p, s) = p PROVE Read(p, Append(s, e)) = ReadToken(p, e)
  BY <1>2, ReadAppend
<1> QED BY <1>1, <1>2, ReadNone, Zenon

\* Layout means nothing to a reader.
LEMMA ReadContent ==
  ASSUME NEW p \in Readers, NEW s \in Streams
  PROVE  Read(p, s) = Read(p, Content(s))
<1> DEFINE S == {u \in Streams : Read(p, u) = Read(p, Content(u))}
<1>1. <<>> \in S
  BY ContentNone, ShortTexts
<1>2. ASSUME NEW u \in Seq(Tokens), NEW e \in Tokens, u \in S PROVE Append(u, e) \in S
  <2>1. u \in Streams /\ Content(u) \in Streams /\ Read(p, u) = Read(p, Content(u))
    BY <1>2, SelectedType DEF Content
  <2>2. Append(u, e) \in Streams /\ Read(p, Append(u, e)) = ReadToken(Read(p, u), e)
    BY <2>1, ReadAppend
  <2>3. CASE e \in Whitespace
    <3>1. Content(Append(u, e)) = Content(u)
      BY <2>1, <2>3, ContentAppend
    <3>2. \A q \in Readers : ReadToken(q, e) = q
      BY <2>3 DEF ReadToken, ReadStructure, Whitespace
    <3> QED BY <2>1, <2>2, <3>1, <3>2, ReadType
  <2>4. CASE e \notin Whitespace
    <3>1. Content(Append(u, e)) = Append(Content(u), e)
      BY <2>1, <2>4, ContentAppend
    <3> QED BY <2>1, <2>2, <3>1, ReadAppend
  <2> QED BY <2>3, <2>4
<1>3. Seq(Tokens) \subseteq S
  <2> HIDE DEF S
  <2> QED BY <1>1, <1>2, ByAppending
<1> QED BY <1>3 DEF Streams

\* A string goes on until its quote.
LEMMA ReadWords ==
  ASSUME NEW p \in Readers, p.string # "none", NEW s \in Seq(Words)
  PROVE  Read(p, s) = p
<1> DEFINE S == {u \in Streams : Read(p, u) = p}
<1>1. <<>> \in S
  BY ReadNone, ShortTexts
<1>2. ASSUME NEW u \in Seq(Words), NEW e \in Words, u \in S PROVE Append(u, e) \in S
  <2>1. e \in Tokens /\ e # "\""
    BY DEF Tokens, Words, Pieces
  <2>2. ReadToken(p, e) = p
    BY <2>1 DEF ReadToken
  <2> QED BY <1>2, <2>1, <2>2, ReadAppend
<1>3. Seq(Words) \subseteq S
  <2> HIDE DEF S
  <2> QED BY <1>1, <1>2, ByAppending
<1> QED BY <1>3

\* What a reader makes of the tokens that the builder writes.
Shows(p, stack, want, string) == p.stack = stack /\ p.want = want /\ p.string = string
Closing(stack) == IF stack = <<>> THEN "end" ELSE "next"

LEMMA ReadStructures ==
  ASSUME NEW p \in Readers, p.string = "none"
  PROVE  /\ p.want \in {"value", "first value"} =>
              /\ Shows(ReadToken(p, "\""), p.stack, p.want, "value")
              /\ Shows(ReadToken(p, "{"), Append(p.stack, "{"), "first key", "none")
              /\ Shows(ReadToken(p, "["), Append(p.stack, "["), "first value", "none")
         /\ p.want \in {"key", "first key"} => Shows(ReadToken(p, "\""), p.stack, p.want, "key")
         /\ p.want = "colon" => Shows(ReadToken(p, ":"), p.stack, "value", "none")
         /\ p.want = "next" => Shows(ReadToken(p, ","), p.stack, IF Inside(p, "{") THEN "key" ELSE "value", "none")
         /\ p.want \in {"next", "first key"} /\ Inside(p, "{") =>
              Shows(ReadToken(p, "}"), Front(p.stack), Closing(Front(p.stack)), "none")
         /\ p.want \in {"next", "first value"} /\ Inside(p, "[") =>
              Shows(ReadToken(p, "]"), Front(p.stack), Closing(Front(p.stack)), "none")
<1> DEFINE W(x) == [p EXCEPT !.want = x]
           T(x, y) == [p EXCEPT !.stack = x, !.want = y]
<1>1. \A e : ReadToken(p, e) = ReadStructure(p, e)
  BY DEF ReadToken
<1>2. \A x : Shows([p EXCEPT !.string = x], p.stack, p.want, x)
  BY DEF Shows, Readers
<1>3. \A x : Shows(W(x), p.stack, x, "none")
  BY DEF Shows, Readers
<1>4. \A x, y : Shows(T(x, y), x, y, "none")
  BY DEF Shows, Readers
<1>5. \A x : Shows(WithValue([p EXCEPT !.stack = x]), x, Closing(x), "none")
  BY DEF Shows, Readers, WithValue, Closing
<1>6. p.want \in {"value", "first value"} => ReadStructure(p, "\"") = [p EXCEPT !.string = "value"]
  BY DEF ReadStructure, Whitespace
<1>7. p.want \in {"key", "first key"} => ReadStructure(p, "\"") = [p EXCEPT !.string = "key"]
  BY DEF ReadStructure, Whitespace
<1>8. p.want \in {"value", "first value"} =>
        ReadStructure(p, "{") = T(Append(p.stack, "{"), "first key")
  BY DEF ReadStructure, Whitespace
<1>9. p.want \in {"value", "first value"} =>
        ReadStructure(p, "[") = T(Append(p.stack, "["), "first value")
  BY DEF ReadStructure, Whitespace
<1>10. p.want = "colon" => ReadStructure(p, ":") = W("value")
  BY DEF ReadStructure, Whitespace
<1>11. p.want = "next" => ReadStructure(p, ",") = W(IF Inside(p, "{") THEN "key" ELSE "value")
  BY DEF ReadStructure, Whitespace
<1>12. p.want \in {"next", "first key"} /\ Inside(p, "{") => ReadStructure(p, "}") = WithValue([p EXCEPT !.stack = Front(p.stack)])
  BY DEF ReadStructure, Whitespace
<1>13. p.want \in {"next", "first value"} /\ Inside(p, "[") => ReadStructure(p, "]") = WithValue([p EXCEPT !.stack = Front(p.stack)])
  BY DEF ReadStructure, Whitespace
<1> HIDE DEF W, T
<1>14. p.want \in {"value", "first value"} => Shows(ReadToken(p, "\""), p.stack, p.want, "value")
  BY <1>1, <1>2, <1>6, Zenon
<1>15. p.want \in {"value", "first value"} => Shows(ReadToken(p, "{"), Append(p.stack, "{"), "first key", "none")
  BY <1>1, <1>4, <1>8, Zenon
<1>16. p.want \in {"value", "first value"} => Shows(ReadToken(p, "["), Append(p.stack, "["), "first value", "none")
  BY <1>1, <1>4, <1>9, Zenon
<1>17. p.want \in {"key", "first key"} => Shows(ReadToken(p, "\""), p.stack, p.want, "key")
  BY <1>1, <1>2, <1>7, Zenon
<1>18. p.want = "colon" => Shows(ReadToken(p, ":"), p.stack, "value", "none")
  BY <1>1, <1>3, <1>10, Zenon
<1>19. p.want = "next" => Shows(ReadToken(p, ","), p.stack, IF Inside(p, "{") THEN "key" ELSE "value", "none")
  BY <1>1, <1>3, <1>11, Zenon
<1>20. p.want \in {"next", "first key"} /\ Inside(p, "{") =>
         Shows(ReadToken(p, "}"), Front(p.stack), Closing(Front(p.stack)), "none")
  BY <1>1, <1>5, <1>12, Zenon
<1>21. p.want \in {"next", "first value"} /\ Inside(p, "[") =>
         Shows(ReadToken(p, "]"), Front(p.stack), Closing(Front(p.stack)), "none")
  BY <1>1, <1>5, <1>13, Zenon
<1> QED BY <1>14, <1>15, <1>16, <1>17, <1>18, <1>19, <1>20, <1>21

LEMMA ReadQuotes ==
  ASSUME NEW p \in Readers
  PROVE  /\ p.string = "key" => Shows(ReadToken(p, "\""), p.stack, "colon", "none")
         /\ p.string = "value" => Shows(ReadToken(p, "\""), p.stack, Closing(p.stack), "none")
BY DEF ReadToken, WithValue, Shows, Closing, Readers

\* The brackets that a reader has read, where the builder keeps those it has to write.
Open(bracket) == IF bracket = "}" THEN "{" ELSE "["
Opening(stack) == [i \in DOMAIN stack |-> Open(stack[i])]

LEMMA OpeningOf ==
  ASSUME NEW s \in Seq(Brackets)
  PROVE  /\ Opening(s) \in Seq({"{", "["}) /\ (Opening(s) = <<>> <=> s = <<>>)
         /\ s # <<>> => Last(Opening(s)) = Open(Last(s)) /\ Front(Opening(s)) = Opening(Front(s))
         /\ \A c \in Brackets : Opening(Append(s, c)) = Append(Opening(s), Open(c))
<1>1. Len(s) \in Nat /\ DOMAIN s = 1..Len(s) /\ (s = <<>> <=> Len(s) = 0)
  BY LenProperties, EmptySeq
<1>2. \A t \in Seq(Brackets) : /\ Opening(t) \in Seq({"{", "["}) /\ Len(Opening(t)) = Len(t)
                               /\ \A i \in 1..Len(t) : Opening(t)[i] = Open(t[i])
  <2> TAKE t \in Seq(Brackets)
  <2>1. DOMAIN t = 1..Len(t) /\ Len(t) \in Nat
    OBVIOUS
  <2>2. Opening(t) \in [1..Len(t) -> {"{", "["}] /\ \A i \in 1..Len(t) : Opening(t)[i] = Open(t[i])
    BY <2>1 DEF Opening, Open
  <2>3. \A S : \A f \in [1..Len(t) -> S] : f \in Seq(S) /\ Len(f) = Len(t)
    BY <2>1
  <2> QED BY <2>2, <2>3
<1>3. Opening(s) \in Seq({"{", "["}) /\ (Opening(s) = <<>> <=> s = <<>>)
  BY <1>1, <1>2, EmptySeq
<1>4. ASSUME s # <<>> PROVE Last(Opening(s)) = Open(Last(s)) /\ Front(Opening(s)) = Opening(Front(s))
  <2> DEFINE n == Len(s)
  <2>1. /\ Front(s) \in Seq(Brackets) /\ Len(Front(s)) = n - 1 /\ Last(s) = s[n]
        /\ \A i \in 1..n - 1 : Front(s)[i] = s[i]
    BY <1>4, FrontLast
  <2>2. /\ Front(Opening(s)) \in Seq({"{", "["}) /\ Len(Front(Opening(s))) = n - 1 /\ Last(Opening(s)) = Opening(s)[n]
        /\ \A i \in 1..n - 1 : Front(Opening(s))[i] = Opening(s)[i]
    BY <1>2, <1>3, <1>4, FrontLast
  <2>3. n \in Nat /\ n # 0
    BY <1>1, <1>4
  <2> HIDE DEF n
  <2>4. /\ Opening(Front(s)) \in Seq({"{", "["}) /\ Len(Opening(Front(s))) = n - 1
        /\ \A i \in 1..n - 1 : Opening(Front(s))[i] = Open(s[i])
    BY <1>2, <2>1
  <2>5. Len(Opening(s)) = n /\ \A i \in 1..n : Opening(s)[i] = Open(s[i])
    BY <1>2 DEF n
  <2>6. \A i \in 1..n - 1 : Front(Opening(s))[i] = Opening(Front(s))[i]
    <3> TAKE i \in 1..n - 1
    <3>1. i \in 1..n
      BY <2>3
    <3>2. Opening(s)[i] = Open(s[i]) /\ Opening(Front(s))[i] = Open(s[i])
      BY <2>4, <2>5, <3>1
    <3> QED BY <2>2, <3>2
  <2>7. Front(Opening(s)) = Opening(Front(s))
    BY <2>2, <2>4, <2>6, SeqEqual
  <2>8. Opening(s)[n] = Open(s[n])
    <3>1. n \in 1..n
      BY <2>3
    <3> QED BY <2>5, <3>1
  <2>9. Last(Opening(s)) = Open(Last(s))
    BY <2>1, <2>2, <2>8
  <2> QED BY <2>7, <2>9
<1>5. ASSUME NEW c \in Brackets PROVE Opening(Append(s, c)) = Append(Opening(s), Open(c))
  <2> DEFINE t == Append(s, c)
             u == Append(Opening(s), Open(c))
  <2>1. t \in Seq(Brackets) /\ Len(t) = Len(s) + 1 /\ t[Len(s) + 1] = c /\ \A i \in 1..Len(s) : t[i] = s[i]
    BY AppendProperties
  <2>2. Open(c) \in {"{", "["}
    BY DEF Open
  <2>3. u \in Seq({"{", "["}) /\ Len(u) = Len(s) + 1 /\ u[Len(s) + 1] = Open(c) /\ \A i \in 1..Len(s) : u[i] = Opening(s)[i]
    <3>1. Opening(s) \in Seq({"{", "["}) /\ Len(Opening(s)) = Len(s)
      BY <1>2
    <3> DEFINE v == Opening(s)
    <3> HIDE DEF v
    <3>2. v \in Seq({"{", "["}) /\ Len(v) = Len(s)
      BY <3>1 DEF v
    <3>3. /\ Append(v, Open(c)) \in Seq({"{", "["}) /\ Len(Append(v, Open(c))) = Len(v) + 1
          /\ Append(v, Open(c))[Len(v) + 1] = Open(c) /\ \A i \in 1..Len(v) : Append(v, Open(c))[i] = v[i]
      <4>1. \A S : \A w \in Seq(S) : \A e \in S :
              /\ Append(w, e) \in Seq(S) /\ Len(Append(w, e)) = Len(w) + 1
              /\ Append(w, e)[Len(w) + 1] = e /\ \A i \in 1..Len(w) : Append(w, e)[i] = w[i]
        BY AppendProperties
      <4> DEFINE H == {"{", "["}
                 o == Open(c)
      <4>2. v \in Seq(H) /\ o \in H
        BY <2>2, <3>2
      <4> HIDE DEF H, o
      <4>3. /\ Append(v, o) \in Seq(H) /\ Len(Append(v, o)) = Len(v) + 1
            /\ Append(v, o)[Len(v) + 1] = o /\ \A i \in 1..Len(v) : Append(v, o)[i] = v[i]
        BY <4>1, <4>2
      <4> QED BY <4>3 DEF H, o
    <3> QED BY <3>2, <3>3 DEF v
  <2> HIDE DEF t, u
  <2>4. \A i \in 1..Len(s) + 1 : Opening(t)[i] = u[i]
    <3> TAKE i \in 1..Len(s) + 1
    <3>1. Opening(t)[i] = Open(t[i])
      BY <1>2, <2>1
    <3>2. CASE i = Len(s) + 1
      BY <2>1, <2>3, <3>1, <3>2
    <3>3. CASE i \in 1..Len(s)
      <4>1. Opening(s)[i] = Open(s[i])
        BY <1>2, <3>3
      <4> QED BY <2>1, <2>3, <3>1, <3>3, <4>1
    <3> QED BY <1>1, <3>2, <3>3
  <2>5. Opening(t) = u
    BY <1>2, <2>1, <2>3, <2>4, SeqEqual
  <2> QED BY <2>5 DEF t, u
<1> QED BY <1>3, <1>4, <1>5

\* How a reader of what a builder has written stands: it looks for something, the string of a value
\* is being written, or a value was written.
Looks(p, mode, want) == mode = "NORMAL" /\ p.want = want /\ p.string = "none"
Writes(p, mode) == mode = "IN_VALUE" /\ p.string = "value"
Wrote(p, mode, stack) == mode = "AFTER_VALUE" /\ p.want = Closing(stack) /\ p.string = "none"

\* What normalize_mode writes ends the string of a value, and separates it from what comes.
LEMMA JointReads ==
  ASSUME NEW p \in Readers, NEW mode \in BuilderModes, NEW stack \in Seq(Brackets), p.stack = Opening(stack)
  PROVE  /\ \A s \in BOOLEAN : Joint(mode, s) \in Streams /\ Read(p, Joint(mode, s)) \in Readers
         /\ mode = "NORMAL" => \A s \in BOOLEAN : Read(p, Joint(mode, s)) = p
         /\ Writes(p, mode) \/ Wrote(p, mode, stack) =>
              /\ Shows(Read(p, Joint(mode, FALSE)), Opening(stack), Closing(stack), "none")
              /\ stack # <<>> =>
                   Shows(Read(p, Joint(mode, TRUE)), Opening(stack), IF Last(stack) = "}" THEN "key" ELSE "value", "none")
<1>1. <<>> \in Streams /\ <<"\"">> \in Streams /\ <<",">> \in Streams /\ "\"" \in Tokens /\ "," \in Tokens /\ <<"\"">> \o <<",">> \in Streams
  BY ShortTexts, StreamConcat
<1>2. \A s \in BOOLEAN : Joint(mode, s) \in Streams
  BY <1>1 DEF Joint
<1>3. \A s \in BOOLEAN : Read(p, Joint(mode, s)) \in Readers
  BY <1>2, ReadType
<1>4. mode = "NORMAL" => \A s \in BOOLEAN : Read(p, Joint(mode, s)) = p
  BY ReadNone DEF Joint
<1>5. ASSUME NEW q \in Readers, Shows(q, Opening(stack), "next", "none"), stack # <<>>
      PROVE  Shows(Read(q, <<",">>), Opening(stack), IF Last(stack) = "}" THEN "key" ELSE "value", "none")
  <2>1. Read(q, <<",">>) = ReadToken(q, ",")
    BY <1>1, ReadOne
  <2>2. Shows(ReadToken(q, ","), q.stack, IF Inside(q, "{") THEN "key" ELSE "value", "none")
    BY <1>5, ReadStructures DEF Shows
  <2>3. Last(stack) \in Brackets /\ Opening(stack) # <<>> /\ Last(Opening(stack)) = Open(Last(stack))
    BY <1>5, FrontLast, OpeningOf
  <2>4. Inside(q, "{") <=> Last(stack) = "}"
    BY <1>5, <2>3 DEF Inside, Shows, Open
  <2> QED BY <1>5, <2>1, <2>2, <2>4 DEF Shows
<1>6. CASE Writes(p, mode)
  <2>1. Joint(mode, FALSE) = <<"\"">> /\ Joint(mode, TRUE) = <<"\"">> \o <<",">> /\ p.string = "value"
    BY <1>6 DEF Joint, Writes
  <2>2. Opening(stack) = <<>> <=> stack = <<>>
    BY OpeningOf
  <2>3. Shows(ReadToken(p, "\""), p.stack, Closing(p.stack), "none") /\ Closing(p.stack) = Closing(stack)
    BY <2>1, <2>2, ReadQuotes DEF Closing
  <2>4. Read(p, <<"\"">>) = ReadToken(p, "\"")
    BY <1>1, ReadOne
  <2>5. Shows(Read(p, <<"\"">>), Opening(stack), Closing(stack), "none") /\ Read(p, <<"\"">>) \in Readers
    BY <1>1, <2>3, <2>4, ReadType
  <2>6. Read(p, Joint(mode, TRUE)) = Read(Read(p, <<"\"">>), <<",">>)
    <3>1. \A t, u \in Streams : Read(p, t \o u) = Read(Read(p, t), u)
      BY ReadConcat
    <3> QED BY <1>1, <2>1, <3>1, Zenon
  <2>7. stack # <<>> => Closing(stack) = "next"
    BY DEF Closing
  <2> QED BY <1>2, <1>3, <1>4, <1>5, <1>6, <2>1, <2>5, <2>6, <2>7 DEF Writes
<1>7. CASE Wrote(p, mode, stack)
  <2>1. Joint(mode, FALSE) = <<>> /\ Joint(mode, TRUE) = <<",">>
    BY <1>7 DEF Joint, Wrote
  <2>2. Shows(p, Opening(stack), Closing(stack), "none")
    BY <1>7 DEF Wrote, Shows
  <2>3. Read(p, <<>>) = p
    BY ReadNone
  <2>4. stack # <<>> => Closing(stack) = "next"
    BY DEF Closing
  <2> QED BY <1>2, <1>3, <1>4, <1>5, <1>7, <2>1, <2>2, <2>3, <2>4 DEF Wrote
<1> QED BY <1>2, <1>3, <1>4, <1>6, <1>7

\* Where a builder is: the brackets that are open, and what may come.
Places == [stack : Seq(Brackets), want : {"value", "first value", "first key", "items", "after", "text", "end"}]
Place(stack, want) == [stack |-> stack, want |-> want]
ReadSoFar(b) == Read(Reader, b.json)
Stands(p, mode, place) ==
  CASE place.want = "text" -> Writes(p, mode)
    [] place.want = "end" -> Wrote(p, mode, place.stack)
    [] place.want = "after" -> Writes(p, mode) \/ Wrote(p, mode, place.stack)
    [] place.want = "items" -> Looks(p, mode, "first value") \/ Writes(p, mode) \/ Wrote(p, mode, place.stack)
    [] OTHER -> Looks(p, mode, place.want)
At(b, place) ==
  /\ b \in Builders /\ b.stack = place.stack
  /\ ReadSoFar(b).stack = Opening(place.stack) /\ Stands(ReadSoFar(b), b.mode, place)

\* What is read of a builder that grows.
LEMMA ReadMore ==
  ASSUME NEW b \in Builders, NEW d, NEW x, Adds(b, d, x)
  PROVE  ReadSoFar(b) \in Readers /\ ReadSoFar(d) = Read(ReadSoFar(b), x)
<1>1. PICK t \in Streams : d.json = b.json \o t /\ Content(t) = x
  BY DEF Adds
<1>2. b.json \in Streams /\ Reader \in Readers
  BY Fields, ReaderType
<1>3. Read(Reader, b.json) \in Readers
  BY <1>2, ReadType
<1>4. Read(Reader, b.json \o t) = Read(Read(Reader, b.json), t)
  BY <1>2, ReadConcat
<1>5. Read(Read(Reader, b.json), t) = Read(Read(Reader, b.json), Content(t))
  BY <1>3, ReadContent
<1> QED BY <1>1, <1>3, <1>4, <1>5 DEF ReadSoFar

\* Where a value, or a key, may come.
Values(place) ==
  \/ place.want \in {"value", "first value"}
  \/ place.want \in {"after", "items"} /\ place.stack # <<>> /\ Last(place.stack) = "]"
Keys(place) ==
  \/ place.want = "first key"
  \/ place.want = "after" /\ place.stack # <<>> /\ Last(place.stack) = "}"

LEMMA PlaceParts ==
  ASSUME NEW place \in Places
  PROVE  /\ place.stack \in Seq(Brackets) /\ place.want \in {"value", "first value", "first key", "items", "after", "text", "end"}
         /\ \A b : At(b, place) => /\ b \in Builders /\ b.stack = place.stack /\ b.mode \in BuilderModes /\ ReadSoFar(b) \in Readers
                                   /\ ReadSoFar(b).stack = Opening(place.stack) /\ Stands(ReadSoFar(b), b.mode, place)
<1>1. place.stack \in Seq(Brackets) /\ place.want \in {"value", "first value", "first key", "items", "after", "text", "end"}
  BY DEF Places
<1>2. ASSUME NEW b, At(b, place)
      PROVE  /\ b \in Builders /\ b.stack = place.stack /\ b.mode \in BuilderModes /\ ReadSoFar(b) \in Readers
             /\ ReadSoFar(b).stack = Opening(place.stack) /\ Stands(ReadSoFar(b), b.mode, place)
  <2>1. b \in Builders
    BY <1>2 DEF At
  <2>2. b.mode \in BuilderModes /\ b.json \in Streams
    BY <2>1, Fields
  <2>3. ReadSoFar(b) \in Readers
    BY <2>2, ReaderType, ReadType DEF ReadSoFar
  <2> QED BY <1>2, <2>2, <2>3 DEF At
<1> QED BY <1>1, <1>2

\* After what normalize_mode writes for a value or a key, the reader wants one.
LEMMA Started ==
  ASSUME NEW place \in Places, NEW b, At(b, place), Values(place) \/ Keys(place),
         NEW q, q = Read(ReadSoFar(b), Joint(b.mode, TRUE))
  PROVE  /\ q \in Readers /\ q.stack = Opening(place.stack) /\ q.string = "none"
         /\ Values(place) => q.want \in {"value", "first value"}
         /\ Keys(place) => q.want \in {"key", "first key"}
<1> DEFINE p == ReadSoFar(b)
           stack == place.stack
<1>1. /\ stack \in Seq(Brackets) /\ b.mode \in BuilderModes /\ p \in Readers /\ p.stack = Opening(stack)
      /\ Stands(p, b.mode, place)
  BY PlaceParts
<1> HIDE DEF p, stack
<1>2. /\ q = Read(p, Joint(b.mode, TRUE)) /\ q \in Readers
      /\ b.mode = "NORMAL" => q = p
      /\ (Writes(p, b.mode) \/ Wrote(p, b.mode, stack)) /\ stack # <<>> =>
           Shows(q, Opening(stack), IF Last(stack) = "}" THEN "key" ELSE "value", "none")
  BY <1>1, JointReads DEF p
<1>3. ASSUME NEW want, Looks(p, b.mode, want)
      PROVE  q \in Readers /\ q.stack = Opening(stack) /\ q.string = "none" /\ q.want = want
  BY <1>1, <1>2, <1>3 DEF Looks
<1>4. ASSUME Writes(p, b.mode) \/ Wrote(p, b.mode, stack), stack # <<>>
      PROVE  q \in Readers /\ q.stack = Opening(stack) /\ q.string = "none" /\ q.want = IF Last(stack) = "}" THEN "key" ELSE "value"
  BY <1>2, <1>4 DEF Shows
<1>5. CASE place.want \in {"value", "first value", "first key"}
  <2>1. Looks(p, b.mode, place.want)
    BY <1>1, <1>5 DEF Stands
  <2> QED BY <1>3, <1>5, <2>1 DEF Values, Keys, stack
<1>6. CASE place.want \in {"after", "items"}
  <2>1. \/ Writes(p, b.mode) \/ Wrote(p, b.mode, stack)
        \/ place.want = "items" /\ Looks(p, b.mode, "first value")
    BY <1>1, <1>6 DEF Stands, stack
  <2>2. stack # <<>>
    BY <1>6 DEF Values, Keys, stack
  <2>3. CASE Writes(p, b.mode) \/ Wrote(p, b.mode, stack)
    BY <1>4, <1>6, <2>2, <2>3 DEF Values, Keys, stack
  <2>4. CASE place.want = "items" /\ Looks(p, b.mode, "first value")
    BY <1>3, <2>4 DEF Values, Keys, stack
  <2> QED BY <2>1, <2>3, <2>4
<1>7. place.want \in {"value", "first value", "first key", "after", "items"}
  BY DEF Values, Keys
<1> QED BY <1>5, <1>6, <1>7

LEMMA KeyPlace ==
  ASSUME NEW place \in Places, NEW b, At(b, place), Keys(place), NEW str \in Seq(Words)
  PROVE  At(KeyAdded(b, str), Place(place.stack, "value"))
<1> DEFINE p == ReadSoFar(b)
           q == Read(p, Joint(b.mode, TRUE))
           d == KeyAdded(b, str)
<1>1. b \in Builders /\ b.stack = place.stack /\ p \in Readers /\ p.stack = Opening(b.stack) /\ b.mode \in BuilderModes /\ b.stack \in Seq(Brackets)
  BY PlaceParts
<1>2. q \in Readers /\ q.stack = Opening(place.stack) /\ q.string = "none" /\ q.want \in {"key", "first key"}
  BY Started
<1>3. Quoted(str) \in Streams /\ Becomes(b, d, Joint(b.mode, TRUE) \o Content(Quoted(str)), b.stack, "NORMAL", FALSE)
  BY <1>1, KeyAdds
<1>4. ReadSoFar(d) = Read(p, Joint(b.mode, TRUE) \o Content(Quoted(str)))
  BY <1>1, <1>3, ReadMore DEF Becomes
<1>5. Joint(b.mode, TRUE) \in Streams /\ Content(Quoted(str)) \in Streams
  BY <1>1, <1>3, JointReads, SelectedType DEF Content
<1>6. ReadSoFar(d) = Read(q, Quoted(str))
  BY <1>1, <1>2, <1>3, <1>4, <1>5, ReadConcat, ReadContent
<1> HIDE DEF p, q, d
<1>7. /\ <<"\"">> \in Streams /\ str \in Streams /\ <<"\"", ":">> = <<"\"">> \o <<":">> /\ <<":">> \in Streams
      /\ "\"" \in Tokens /\ ":" \in Tokens /\ <<"\"">> \o str \in Streams /\ <<"\"">> \o <<":">> \in Streams
  <2>1. <<"\"">> \in Streams /\ str \in Streams /\ <<":">> \in Streams /\ "\"" \in Tokens /\ ":" \in Tokens
    BY ShortTexts
  <2>2. <<"\"", ":">> = <<"\"">> \o <<":">>
    <3>1. \A x, y : <<x, y>> = Append(<<x>>, y)
      OBVIOUS
    <3>2. \A t \in Seq(Tokens) : \A e \in Tokens : Append(t, e) = t \o <<e>>
      BY AppendIsConcat
    <3>3. <<"\"">> \in Seq(Tokens)
      BY <2>1 DEF Streams
    <3> QED BY <2>1, <3>1, <3>2, <3>3, Zenon
  <2> QED BY <2>1, <2>2, StreamConcat
<1>8. \A x \in Readers : \A t, u \in Streams : Read(x, t) \in Readers /\ Read(x, t \o u) = Read(Read(x, t), u)
  BY ReadConcat, ReadType
<1> DEFINE q1 == Read(q, <<"\"">>)
           q2 == Read(q1, str)
           q3 == Read(q2, <<"\"">>)
<1>9. q1 \in Readers /\ Shows(q1, Opening(place.stack), q.want, "key")
  BY <1>2, <1>7, <1>8, ReadOne, ReadStructures
<1> HIDE DEF q1
<1>10. q2 = q1
  BY <1>9, ReadWords DEF Shows
<1>11. q3 \in Readers /\ Shows(q3, Opening(place.stack), "colon", "none")
  BY <1>7, <1>8, <1>9, <1>10, ReadOne, ReadQuotes DEF Shows
<1> HIDE DEF q2, q3
<1>12. Shows(Read(q3, <<":">>), Opening(place.stack), "value", "none")
  <2>1. Read(q3, <<":">>) = ReadToken(q3, ":")
    BY <1>7, <1>11, ReadOne
  <2>2. q3.string = "none" /\ q3.want = "colon" /\ q3.stack = Opening(place.stack)
    BY <1>11 DEF Shows
  <2>3. Shows(ReadToken(q3, ":"), q3.stack, "value", "none")
    BY <1>11, <2>2, ReadStructures
  <2> QED BY <2>1, <2>2, <2>3
<1>13. Read(q, Quoted(str)) = Read(q3, <<":">>)
  <2>1. Quoted(str) = (<<"\"">> \o str) \o (<<"\"">> \o <<":">>)
    BY <1>7 DEF Quoted
  <2>2. Read(q, (<<"\"">> \o str) \o (<<"\"">> \o <<":">>)) = Read(Read(q, <<"\"">> \o str), <<"\"">> \o <<":">>)
    BY <1>2, <1>7, <1>8, Zenon
  <2>3. Read(q, <<"\"">> \o str) = q2
    BY <1>2, <1>7, <1>8, Zenon DEF q1, q2
  <2>4. Read(q2, <<"\"">> \o <<":">>) = Read(q3, <<":">>)
    BY <1>7, <1>8, <1>9, <1>10, Zenon DEF q3
  <2> QED BY <2>1, <2>2, <2>3, <2>4
<1> QED BY <1>1, <1>3, <1>6, <1>12, <1>13 DEF At, Becomes, Adds, Place, Stands, Looks, Shows, d

LEMMA ValuePlace ==
  ASSUME NEW place \in Places, NEW b, At(b, place), Values(place), NEW str \in Seq(Words)
  PROVE  At(ValueStarted(b), Place(place.stack, "text")) /\ At(ValueAdded(b, str), Place(place.stack, "text"))
<1> DEFINE p == ReadSoFar(b)
           q == Read(p, Joint(b.mode, TRUE))
<1>1. b \in Builders /\ b.stack = place.stack /\ p \in Readers /\ p.stack = Opening(b.stack) /\ b.mode \in BuilderModes /\ b.stack \in Seq(Brackets)
  BY PlaceParts
<1>2. q \in Readers /\ q.stack = Opening(place.stack) /\ q.string = "none" /\ q.want \in {"value", "first value"}
  BY Started
<1>3. /\ Becomes(b, ValueStarted(b), Joint(b.mode, TRUE) \o <<"\"">>, b.stack, "IN_VALUE", FALSE)
      /\ Becomes(b, ValueAdded(b, str), (Joint(b.mode, TRUE) \o <<"\"">>) \o Content(str), b.stack, "IN_VALUE", FALSE)
  BY <1>1, ValueStartedAdds, ValueAdds
<1>4. /\ ReadSoFar(ValueStarted(b)) = Read(p, Joint(b.mode, TRUE) \o <<"\"">>)
      /\ ReadSoFar(ValueAdded(b, str)) = Read(p, (Joint(b.mode, TRUE) \o <<"\"">>) \o Content(str))
  BY <1>1, <1>3, ReadMore DEF Becomes
<1>5. Joint(b.mode, TRUE) \in Streams
  BY <1>1, JointReads
<1> HIDE DEF p
<1>6. /\ <<"\"">> \in Streams /\ "\"" \in Tokens /\ str \in Streams /\ Content(str) \in Streams
      /\ Joint(b.mode, TRUE) \o <<"\"">> \in Streams
  BY <1>5, ShortTexts, StreamConcat, SelectedType DEF Content
<1>7. \A x \in Readers : \A t, u \in Streams : Read(x, t) \in Readers /\ Read(x, t \o u) = Read(Read(x, t), u) /\ Read(x, Content(t)) = Read(x, t)
  BY ReadConcat, ReadType, ReadContent
<1> DEFINE q1 == Read(q, <<"\"">>)
<1>8. Read(p, Joint(b.mode, TRUE) \o <<"\"">>) = q1
  BY <1>1, <1>5, <1>6, <1>7, Zenon
<1>9. q1 \in Readers /\ Shows(q1, Opening(place.stack), q.want, "value")
  <2> HIDE DEF q
  <2> QED BY <1>2, <1>6, <1>7, ReadOne, ReadStructures
<1> HIDE DEF q1, q
<1>10. Read(p, (Joint(b.mode, TRUE) \o <<"\"">>) \o Content(str)) = Read(q1, str)
  <2> DEFINE t == Joint(b.mode, TRUE) \o <<"\"">>
  <2>1. Read(p, t) = q1 /\ t \in Streams
    BY <1>6, <1>8
  <2> HIDE DEF t
  <2>2. Read(p, t \o Content(str)) = Read(Read(p, t), Content(str))
    BY <1>1, <1>6, <1>7, <2>1, Zenon
  <2>3. Read(q1, Content(str)) = Read(q1, str)
    BY <1>6, <1>7, <1>9
  <2> QED BY <2>1, <2>2, <2>3 DEF t
<1>11. Read(q1, str) = q1
  BY <1>9, ReadWords DEF Shows
<1> QED BY <1>1, <1>3, <1>4, <1>8, <1>9, <1>10, <1>11 DEF At, Becomes, Adds, Place, Stands, Writes, Shows

LEMMA OpenedPlace ==
  ASSUME NEW place \in Places, NEW b, At(b, place), Values(place)
  PROVE  /\ At(Opened(b, "{", "}"), Place(Append(place.stack, "}"), "first key"))
         /\ At(Opened(b, "[", "]"), Place(Append(place.stack, "]"), "first value"))
<1> DEFINE p == ReadSoFar(b)
           q == Read(p, Joint(b.mode, TRUE))
<1>1. b \in Builders /\ b.stack = place.stack /\ p \in Readers /\ p.stack = Opening(b.stack) /\ b.mode \in BuilderModes /\ b.stack \in Seq(Brackets)
  BY PlaceParts
<1>2. q \in Readers /\ q.stack = Opening(place.stack) /\ q.string = "none" /\ q.want \in {"value", "first value"}
  BY Started
<1>3. /\ Becomes(b, Opened(b, "{", "}"), Joint(b.mode, TRUE) \o <<"{">>, Append(b.stack, "}"), "NORMAL", FALSE)
      /\ Becomes(b, Opened(b, "[", "]"), Joint(b.mode, TRUE) \o <<"[">>, Append(b.stack, "]"), "NORMAL", FALSE)
  BY <1>1, OpenedAdds DEF Brackets
<1>4. /\ ReadSoFar(Opened(b, "{", "}")) = Read(p, Joint(b.mode, TRUE) \o <<"{">>)
      /\ ReadSoFar(Opened(b, "[", "]")) = Read(p, Joint(b.mode, TRUE) \o <<"[">>)
  BY <1>1, <1>3, ReadMore DEF Becomes
<1>5. Joint(b.mode, TRUE) \in Streams /\ <<"{">> \in Streams /\ <<"[">> \in Streams /\ "{" \in Tokens /\ "[" \in Tokens
  BY <1>1, JointReads, ShortTexts
<1> HIDE DEF p
<1>6. /\ Read(p, Joint(b.mode, TRUE) \o <<"{">>) = Read(q, <<"{">>)
      /\ Read(p, Joint(b.mode, TRUE) \o <<"[">>) = Read(q, <<"[">>)
  <2>1. \A t, u \in Streams : Read(p, t \o u) = Read(Read(p, t), u)
    BY <1>1, ReadConcat
  <2> QED BY <1>5, <2>1, Zenon
<1> HIDE DEF q
<1>7. /\ Shows(Read(q, <<"{">>), Append(Opening(place.stack), "{"), "first key", "none")
      /\ Shows(Read(q, <<"[">>), Append(Opening(place.stack), "["), "first value", "none")
  BY <1>2, <1>5, ReadOne, ReadStructures
<1>8. /\ Opening(Append(b.stack, "}")) = Append(Opening(b.stack), "{")
      /\ Opening(Append(b.stack, "]")) = Append(Opening(b.stack), "[")
  BY <1>1, OpeningOf DEF Brackets, Open
<1>9. At(Opened(b, "{", "}"), Place(Append(place.stack, "}"), "first key"))
  BY <1>1, <1>3, <1>4, <1>6, <1>7, <1>8 DEF At, Becomes, Adds, Place, Stands, Looks, Shows
<1>10. At(Opened(b, "[", "]"), Place(Append(place.stack, "]"), "first value"))
  BY <1>1, <1>3, <1>4, <1>6, <1>7, <1>8 DEF At, Becomes, Adds, Place, Stands, Looks, Shows
<1> QED BY <1>9, <1>10

\* Where an object or an array may end: behind a value, or an array behind nothing.
Closes(place) ==
  /\ place.stack # <<>>
  /\ \/ place.want \in {"after", "text", "end"}
     \/ place.want \in {"first value", "items"} /\ Last(place.stack) = "]"

LEMMA BracketReads ==
  ASSUME NEW place \in Places, NEW b, At(b, place), Closes(place),
         NEW d, Becomes(b, d, Joint(b.mode, FALSE) \o <<Last(b.stack)>>, Front(b.stack), "AFTER_VALUE", FALSE)
  PROVE  At(d, Place(Front(place.stack), "end"))
<1> DEFINE p == ReadSoFar(b)
           q == Read(p, Joint(b.mode, FALSE))
           stack == place.stack
           bracket == Last(stack)
<1>1. /\ b \in Builders /\ b.stack = stack /\ p \in Readers /\ p.stack = Opening(stack) /\ b.mode \in BuilderModes
      /\ stack \in Seq(Brackets) /\ Stands(p, b.mode, place)
  BY PlaceParts
<1>2. /\ stack # <<>> /\ bracket \in Brackets /\ Front(stack) \in Seq(Brackets)
      /\ Opening(stack) # <<>> /\ Last(Opening(stack)) = Open(bracket) /\ Front(Opening(stack)) = Opening(Front(stack))
      /\ Closing(Opening(Front(stack))) = Closing(Front(stack))
  <2>1. stack # <<>>
    BY DEF Closes
  <2>2. bracket \in Brackets /\ Front(stack) \in Seq(Brackets)
    BY <1>1, <2>1, FrontLast
  <2>3. Opening(Front(stack)) = <<>> <=> Front(stack) = <<>>
    BY <2>2, OpeningOf
  <2> QED BY <1>1, <2>1, <2>2, <2>3, OpeningOf DEF Closing
<1>3. ReadSoFar(d) = Read(p, Joint(b.mode, FALSE) \o <<bracket>>)
  BY <1>1, ReadMore DEF Becomes
<1>4. Joint(b.mode, FALSE) \in Streams /\ <<bracket>> \in Streams /\ bracket \in Tokens /\ q \in Readers
      /\ (b.mode = "NORMAL" => q = p)
      /\ (Writes(p, b.mode) \/ Wrote(p, b.mode, stack) => Shows(q, Opening(stack), Closing(stack), "none"))
  <2>1. bracket \in Tokens
    BY <1>2, ShortTexts DEF Brackets
  <2> QED BY <1>1, <2>1, JointReads, ShortTexts
<1> HIDE DEF p, stack, bracket
<1>5. Read(p, Joint(b.mode, FALSE) \o <<bracket>>) = Read(q, <<bracket>>)
  <2>1. \A t, u \in Streams : Read(p, t \o u) = Read(Read(p, t), u)
    BY <1>1, ReadConcat
  <2> QED BY <1>4, <2>1, Zenon
<1> HIDE DEF q
<1>6. q.stack = Opening(stack) /\ q.string = "none" /\ (q.want = "next" \/ (q.want = "first value" /\ bracket = "]"))
  <2>1. CASE Writes(p, b.mode) \/ Wrote(p, b.mode, stack)
    BY <1>2, <1>4, <2>1 DEF Shows, Closing
  <2>2. CASE ~ (Writes(p, b.mode) \/ Wrote(p, b.mode, stack))
    <3>1. place.want \in {"first value", "items"} /\ bracket = "]"
      BY <1>1, <2>2 DEF Closes, Stands, stack, bracket
    <3>2. Looks(p, b.mode, "first value")
      BY <1>1, <2>2, <3>1 DEF Stands, stack
    <3> QED BY <1>1, <1>4, <3>1, <3>2 DEF Looks
  <2> QED BY <2>1, <2>2
<1>7. Shows(ReadToken(q, bracket), Front(q.stack), Closing(Front(q.stack)), "none")
  <2>1. CASE bracket = "}"
    <3>1. Inside(q, "{") /\ q.want = "next"
      BY <1>2, <1>6, <2>1 DEF Inside, Open
    <3> QED BY <1>4, <1>6, <2>1, <3>1, ReadStructures
  <2>2. CASE bracket = "]"
    <3>1. Inside(q, "[") /\ q.want \in {"next", "first value"}
      BY <1>2, <1>6, <2>2 DEF Inside, Open
    <3> QED BY <1>4, <1>6, <2>2, <3>1, ReadStructures
  <2> QED BY <1>2, <2>1, <2>2 DEF Brackets
<1>8. Shows(ReadSoFar(d), Opening(Front(stack)), Closing(Front(stack)), "none")
  <2>1. Read(q, <<bracket>>) = ReadToken(q, bracket)
    BY <1>4, ReadOne
  <2> QED BY <1>2, <1>3, <1>5, <1>6, <1>7, <2>1
<1> QED BY <1>1, <1>8 DEF At, Becomes, Adds, Place, Stands, Wrote, Shows, stack

LEMMA ClosedPlace ==
  ASSUME NEW place \in Places, NEW b, At(b, place), Closes(place)
  PROVE  At(Closed(b), Place(Front(place.stack), "end")) /\ At(Closed(IndentAsked(b)), Place(Front(place.stack), "end"))
<1>1. b \in Builders /\ b.stack # <<>>
  BY PlaceParts DEF Closes
<1> QED BY <1>1, CloseAdds, ClosingAdds, BracketReads

\* Behind a value the document may go on: "end" and "text" are "after", and so are items of an array.
LEMMA Weaker ==
  ASSUME NEW stack \in Seq(Brackets), NEW b
  PROVE  /\ At(b, Place(stack, "end")) => At(b, Place(stack, "after"))
         /\ At(b, Place(stack, "text")) => At(b, Place(stack, "after"))
         /\ At(b, Place(stack, "after")) => At(b, Place(stack, "items"))
         /\ At(b, Place(stack, "first value")) => At(b, Place(stack, "items"))
BY DEF At, Place, Stands

LEMMA IndentPlace ==
  ASSUME NEW place \in Places, NEW b, At(b, place), place.want \in {"value", "first value", "first key", "after"}
  PROVE  At(IndentAsked(b), place)
<1>1. CASE b.need_indent
  BY <1>1 DEF IndentAsked
<1>2. CASE ~ b.need_indent
  <2> DEFINE p == ReadSoFar(b)
             q == Read(p, Joint(b.mode, FALSE))
             d == IndentAsked(b)
             stack == place.stack
  <2>1. /\ b \in Builders /\ b.stack = stack /\ p \in Readers /\ p.stack = Opening(stack) /\ b.mode \in BuilderModes
        /\ stack \in Seq(Brackets) /\ Stands(p, b.mode, place)
    BY PlaceParts
  <2>2. Becomes(b, d, Joint(b.mode, FALSE), b.stack, IF b.mode = "IN_VALUE" THEN "AFTER_VALUE" ELSE b.mode, TRUE)
    BY <1>2, <2>1, IndentAdds
  <2>3. ReadSoFar(d) = q
    BY <2>1, <2>2, ReadMore DEF Becomes
  <2>4. /\ b.mode = "NORMAL" => q = p
        /\ Writes(p, b.mode) \/ Wrote(p, b.mode, stack) => Shows(q, Opening(stack), Closing(stack), "none")
    BY <2>1, JointReads
  <2> HIDE DEF p, q, d, stack
  <2>5. CASE place.want = "after"
    <3>1. Writes(p, b.mode) \/ Wrote(p, b.mode, stack)
      BY <2>1, <2>5 DEF Stands, stack
    <3>2. d.mode = "AFTER_VALUE" /\ Shows(q, Opening(stack), Closing(stack), "none")
      BY <2>2, <2>4, <3>1 DEF Writes, Wrote, Becomes
    <3> QED BY <2>1, <2>2, <2>3, <2>5, <3>2 DEF At, Becomes, Adds, Stands, Wrote, Shows, stack, d
  <2>6. CASE place.want # "after"
    <3>1. Looks(p, b.mode, place.want)
      BY <2>1, <2>6 DEF Stands
    <3>2. d.mode = "NORMAL" /\ q = p
      BY <2>2, <2>4, <3>1 DEF Looks, Becomes
    <3> QED BY <2>1, <2>2, <2>3, <2>6, <3>1, <3>2 DEF At, Becomes, Adds, Stands, Looks, stack, d
  <2> QED BY <2>5, <2>6
<1> QED BY <1>1, <1>2

LEMMA MorePlace ==
  ASSUME NEW place \in Places, NEW b, At(b, place), NEW str \in Seq(Words)
  PROVE  /\ place.want = "text" => At(ValueAppended(b, str), place)
         /\ place.want = "value" => At(ValueAppended(b, str), Place(place.stack, "text"))
<1>1. /\ b \in Builders /\ b.stack = place.stack /\ ReadSoFar(b) \in Readers /\ ReadSoFar(b).stack = Opening(place.stack)
      /\ Stands(ReadSoFar(b), b.mode, place)
  BY PlaceParts
<1>2. ASSUME place.want = "text" PROVE At(ValueAppended(b, str), place)
  <2>1. b.mode = "IN_VALUE" /\ ReadSoFar(b).string = "value"
    BY <1>1, <1>2 DEF Stands, Writes
  <2>2. Becomes(b, ValueAppended(b, str), <<>> \o Content(str), b.stack, "IN_VALUE", b.need_indent)
    BY <1>1, <2>1, AppendAdds
  <2>3. ReadSoFar(ValueAppended(b, str)) = Read(ReadSoFar(b), <<>> \o Content(str))
    BY <1>1, <2>2, ReadMore DEF Becomes
  <2>4. str \in Streams /\ Content(str) \in Streams /\ <<>> \o Content(str) = Content(str)
    <3>1. str \in Streams /\ Content(str) \in Streams
      BY ShortTexts, SelectedType DEF Content
    <3> QED BY <3>1, ConcatEmptySeq DEF Streams
  <2>5. Read(ReadSoFar(b), Content(str)) = ReadSoFar(b)
    BY <1>1, <2>1, <2>4, ReadContent, ReadWords
  <2> QED BY <1>1, <1>2, <2>1, <2>2, <2>3, <2>4, <2>5 DEF At, Becomes, Adds, Stands, Writes
<1>3. ASSUME place.want = "value" PROVE At(ValueAppended(b, str), Place(place.stack, "text"))
  <2>1. b.mode = "NORMAL"
    BY <1>1, <1>3 DEF Stands, Looks
  <2>2. ValueAppended(b, str) = ValueAdded(b, str)
    BY <2>1 DEF ValueAppended, ValueAdded
  <2> QED BY <1>3, <2>2, ValuePlace DEF Values
<1> QED BY <1>2, <1>3

\* finish closes everything, and the document ends.
LEMMA FinishPlace ==
  ASSUME NEW place \in Places, NEW b, At(b, place), place.stack # <<>>, place.want \in {"after", "text", "end"}
  PROVE  At(Finished(b), Place(<<>>, "end"))
<1>1. b \in Builders /\ b.stack = place.stack /\ place.stack \in Seq(Brackets)
  BY PlaceParts
<1>2. PICK r : Rounds(b, r) /\ Finished(b) = Ended(r[Len(b.stack)])
  BY <1>1, FinishedRounds
<1> DEFINE n == Len(b.stack)
           A == {k \in 0..n : /\ At(r[k], Place(r[k].stack, "after"))
                              /\ k # 0 => At(r[k], Place(r[k].stack, "end"))}
<1>3. /\ n \in Nat /\ n # 0
      /\ \A k \in 0..n : r[k] \in Builders /\ r[k].stack \in Seq(Brackets) /\ Len(r[k].stack) = n - k
      /\ \A k \in 0..n - 1 : r[k].stack # <<>>
  BY <1>1, <1>2, RoundsClose, EmptySeq
<1> HIDE DEF n
<1>4. 0 \in A
  <2>1. place = Place(place.stack, place.want)
    BY DEF Place, Places
  <2>2. At(b, Place(place.stack, "after"))
    BY <1>1, <2>1, Weaker
  <2>3. r[0] = b /\ 0 \in 0..n
    BY <1>2, <1>3 DEF Rounds
  <2> QED BY <1>1, <2>2, <2>3
<1>5. ASSUME NEW k \in 0..n - 1, k \in A PROVE k + 1 \in A
  <2>1. k \in 0..n /\ k + 1 \in 1..n /\ k + 1 \in 0..n /\ k + 1 - 1 = k /\ k + 1 # 0
    BY <1>3
  <2>2. r[k + 1] = Closed(IndentAsked(r[k])) /\ r[k].stack \in Seq(Brackets) /\ r[k].stack # <<>> /\ r[k + 1].stack \in Seq(Brackets)
    BY <1>2, <1>3, <2>1 DEF Rounds, n
  <2> DEFINE q == Place(r[k].stack, "after")
  <2>3. q \in Places /\ q.stack = r[k].stack /\ Closes(q) /\ At(r[k], q)
    BY <1>5, <2>2 DEF Places, Place, Closes
  <2> HIDE DEF q
  <2>4. At(r[k + 1], Place(Front(r[k].stack), "end"))
    BY <2>2, <2>3, ClosedPlace
  <2>5. r[k + 1].stack = Front(r[k].stack)
    BY <2>4 DEF At, Place
  <2> QED BY <2>1, <2>2, <2>4, <2>5, Weaker
<1>6. \A k \in 0..n : k \in A
  <2> HIDE DEF A
  <2> QED BY <1>3, <1>4, <1>5, UpTo
<1>7. n \in 0..n /\ n - n = 0
  BY <1>3
<1>8. r[n] \in Builders /\ r[n].stack = <<>>
  <2>1. r[n].stack \in Seq(Brackets) /\ Len(r[n].stack) = 0
    BY <1>3, <1>7
  <2> QED BY <1>3, <1>7, <2>1, EmptySeq
<1>9. At(r[n], Place(<<>>, "end"))
  BY <1>3, <1>6, <1>7, <1>8
<1>10. Becomes(r[n], Ended(r[n]), <<>>, r[n].stack, r[n].mode, r[n].need_indent)
  BY <1>8, EndedAdds
<1>11. ReadSoFar(Ended(r[n])) = ReadSoFar(r[n])
  <2>1. ReadSoFar(r[n]) \in Readers /\ ReadSoFar(Ended(r[n])) = Read(ReadSoFar(r[n]), <<>>)
    BY <1>8, <1>10, ReadMore DEF Becomes
  <2> QED BY <2>1, ReadNone
<1>12. At(Ended(r[n]), Place(<<>>, "end"))
  BY <1>9, <1>10, <1>11 DEF At, Becomes, Adds
<1> QED BY <1>2, <1>12 DEF n

\* Scripts that lead from one place to another one.
Steps(place, op, to) == \A b : At(b, place) => At(Do(b, op), to)
Goes(place, script, to) == \A b : At(b, place) => At(Done(b, script), to)

LEMMA GoesNone ==
  ASSUME NEW place PROVE Goes(place, <<>>, place)
BY DoneNone DEF Goes, At

LEMMA GoesThen ==
  ASSUME NEW p, NEW q, NEW r, NEW s \in Seq(Ops), NEW op \in Ops, Goes(p, s, q), Steps(q, op, r)
  PROVE  Goes(p, Append(s, op), r)
BY DoneAppend DEF Goes, Steps, At

LEMMA GoesOne ==
  ASSUME NEW p, NEW q, NEW op \in Ops, Steps(p, op, q)
  PROVE  Goes(p, <<op>>, q)
<1>1. Append(<<>>, op) = <<op>> /\ <<>> \in Seq(Ops)
  OBVIOUS
<1>2. ASSUME NEW s \in Seq(Ops), Goes(p, s, p) PROVE Goes(p, Append(s, op), q)
  BY <1>2, GoesThen
<1> QED BY <1>1, <1>2, GoesNone, Zenon

LEMMA GoesOn ==
  ASSUME NEW p, NEW q, NEW r, NEW s \in Seq(Ops), NEW t \in Seq(Ops), Goes(p, s, q), Goes(q, t, r)
  PROVE  Goes(p, s \o t, r)
BY DoneConcat DEF Goes, At

\* A script for each part, from place to place.
LEMMA GoesEach ==
  ASSUME NEW seqs \in Seq(Seq(Ops)), NEW place, \A k \in 1..Len(seqs) : Goes(place[k - 1], seqs[k], place[k])
  PROVE  Goes(place[0], FlattenSeq(seqs), place[Len(seqs)])
<1> DEFINE n == Len(seqs)
<1>1. PICK r \in [0..Len(seqs) -> Seq(Ops)] : Flattens(seqs, r) /\ FlattenSeq(seqs) = r[Len(seqs)]
  BY FlattenRun
<1> DEFINE A == {k \in 0..n : Goes(place[0], r[k], place[k])}
<1>2. n \in Nat
  OBVIOUS
<1>3. 0 \in A
  BY <1>1, <1>2, GoesNone DEF Flattens
<1>4. ASSUME NEW k \in 0..n - 1, k \in A PROVE k + 1 \in A
  <2>1. k + 1 \in 1..n /\ k \in 0..n /\ k + 1 \in 0..n /\ k + 1 - 1 = k
    BY <1>2
  <2>2. r[k + 1] = Glued(r[k], seqs[k + 1])
    BY <1>1, <2>1 DEF Flattens
  <2>3. seqs[k + 1] \in Seq(Ops) /\ r[k] \in Seq(Ops)
    <3>1. seqs \in [1..n -> Seq(Ops)]
      BY LenProperties
    <3> HIDE DEF n
    <3> QED BY <1>1, <2>1, <3>1 DEF n
  <2>4. Goes(place[k], seqs[k + 1], place[k + 1])
    BY <2>1
  <2>5. Goes(place[0], Glued(r[k], seqs[k + 1]), place[k + 1])
    BY <1>4, <2>3, <2>4, GoesOn DEF Glued
  <2> QED BY <2>1, <2>2, <2>5
<1>5. \A k \in 0..n : k \in A
  <2> HIDE DEF A
  <2> QED BY <1>2, <1>3, <1>4, UpTo
<1> QED BY <1>1, <1>2, <1>5

\* Short scripts, operation by operation.
LEMMA GoesTwo ==
  ASSUME NEW p, NEW q, NEW r, NEW a \in Ops, NEW b \in Ops, Steps(p, a, q), Steps(q, b, r)
  PROVE  Goes(p, <<a, b>>, r)
<1>1. <<a, b>> = Append(<<a>>, b) /\ <<a>> \in Seq(Ops)
  OBVIOUS
<1>2. Goes(p, <<a>>, q)
  BY GoesOne
<1>3. \A s \in Seq(Ops) : Goes(p, s, q) => Goes(p, Append(s, b), r)
  BY GoesThen
<1> QED BY <1>1, <1>2, <1>3, Zenon

LEMMA GoesThree ==
  ASSUME NEW p, NEW p1, NEW p2, NEW q,
         NEW a \in Ops, NEW b \in Ops, NEW c \in Ops,
         Steps(p, a, p1), Steps(p1, b, p2), Steps(p2, c, q)
  PROVE  Goes(p, <<a, b, c>>, q)
<1>1. <<a, b, c>> = Append(<<a, b>>, c) /\ <<a, b>> \in Seq(Ops)
  OBVIOUS
<1>2. Goes(p, <<a, b>>, p2)
  BY GoesTwo
<1>3. \A s \in Seq(Ops) : Goes(p, s, p2) => Goes(p, Append(s, c), q)
  BY GoesThen
<1> QED BY <1>1, <1>2, <1>3, Zenon

LEMMA GoesFour ==
  ASSUME NEW p, NEW p1, NEW p2, NEW p3, NEW q,
         NEW a \in Ops, NEW b \in Ops, NEW c \in Ops, NEW d \in Ops,
         Steps(p, a, p1), Steps(p1, b, p2), Steps(p2, c, p3), Steps(p3, d, q)
  PROVE  Goes(p, <<a, b, c, d>>, q)
<1>1. <<a, b, c, d>> = Append(<<a, b, c>>, d) /\ <<a, b, c>> \in Seq(Ops)
  OBVIOUS
<1>2. Goes(p, <<a, b, c>>, p3)
  BY GoesThree
<1>3. \A s \in Seq(Ops) : Goes(p, s, p3) => Goes(p, Append(s, d), q)
  BY GoesThen
<1> QED BY <1>1, <1>2, <1>3, Zenon

LEMMA GoesFive ==
  ASSUME NEW p, NEW p1, NEW p2, NEW p3, NEW p4, NEW q,
         NEW a \in Ops, NEW b \in Ops, NEW c \in Ops, NEW d \in Ops, NEW e \in Ops,
         Steps(p, a, p1), Steps(p1, b, p2), Steps(p2, c, p3), Steps(p3, d, p4), Steps(p4, e, q)
  PROVE  Goes(p, <<a, b, c, d, e>>, q)
<1>1. <<a, b, c, d, e>> = Append(<<a, b, c, d>>, e) /\ <<a, b, c, d>> \in Seq(Ops)
  OBVIOUS
<1>2. Goes(p, <<a, b, c, d>>, p4)
  BY GoesFour
<1>3. \A s \in Seq(Ops) : Goes(p, s, p4) => Goes(p, Append(s, e), q)
  BY GoesThen
<1> QED BY <1>1, <1>2, <1>3, Zenon

LEMMA GoesSix ==
  ASSUME NEW p, NEW p1, NEW p2, NEW p3, NEW p4, NEW p5, NEW q,
         NEW a \in Ops, NEW b \in Ops, NEW c \in Ops, NEW d \in Ops, NEW e \in Ops, NEW f \in Ops,
         Steps(p, a, p1), Steps(p1, b, p2), Steps(p2, c, p3), Steps(p3, d, p4), Steps(p4, e, p5), Steps(p5, f, q)
  PROVE  Goes(p, <<a, b, c, d, e, f>>, q)
<1>1. <<a, b, c, d, e, f>> = Append(<<a, b, c, d, e>>, f) /\ <<a, b, c, d, e>> \in Seq(Ops)
  OBVIOUS
<1>2. Goes(p, <<a, b, c, d, e>>, p5)
  BY GoesFive
<1>3. \A s \in Seq(Ops) : Goes(p, s, p5) => Goes(p, Append(s, f), q)
  BY GoesThen
<1> QED BY <1>1, <1>2, <1>3, Zenon

\* The stacks of the service grow by a bracket.
LEMMA Top ==
  ASSUME NEW s \in Seq(Brackets), NEW c \in Brackets
  PROVE  Append(s, c) \in Seq(Brackets) /\ Append(s, c) # <<>> /\ Last(Append(s, c)) = c /\ Front(Append(s, c)) = s
BY DEF Front, Last

\* What each operation does where it is used.
LEMMA ObjectSteps ==
  ASSUME NEW s \in Seq(Brackets), NEW want \in {"value", "first value", "items", "after"},
         want \in {"items", "after"} => s # <<>> /\ Last(s) = "]"
  PROVE  /\ Steps(Place(s, want), Object, Place(Append(s, "}"), "first key"))
         /\ Steps(Place(s, want), Array, Place(Append(s, "]"), "first value"))
         /\ \A t \in Seq(Words) : Steps(Place(s, want), Value(t), Place(s, "after"))
<1> DEFINE place == Place(s, want)
<1>1. place \in Places /\ place.stack = s /\ Values(place)
  BY DEF Places, Place, Values
<1> HIDE DEF place
<1>2. /\ \A b : Do(b, Object) = Opened(b, "{", "}") /\ Do(b, Array) = Opened(b, "[", "]")
      /\ \A b, t : Do(b, Value(t)) = ValueAdded(b, t)
  BY DEF Do, Object, Array, Value
<1>3. /\ Steps(place, Object, Place(Append(s, "}"), "first key"))
      /\ Steps(place, Array, Place(Append(s, "]"), "first value"))
  BY <1>1, <1>2, OpenedPlace DEF Steps
<1>4. \A t \in Seq(Words) : Steps(place, Value(t), Place(s, "after"))
  <2> SUFFICES ASSUME NEW t \in Seq(Words), NEW b, At(b, place) PROVE At(ValueAdded(b, t), Place(s, "after"))
    BY <1>2 DEF Steps
  <2>1. At(ValueAdded(b, t), Place(s, "text"))
    BY <1>1, ValuePlace
  <2> QED BY <2>1, Weaker
<1> QED BY <1>3, <1>4 DEF place

LEMMA KeySteps ==
  ASSUME NEW s \in Seq(Brackets), s # <<>>, Last(s) = "}", NEW w \in Words
  PROVE  Steps(Place(s, "first key"), Key(w), Place(s, "value")) /\ Steps(Place(s, "after"), Key(w), Place(s, "value"))
<1>1. \A b : Do(b, Key(w)) = KeyAdded(b, <<w>>)
  BY DEF Do, Key
<1>2. ASSUME NEW want \in {"first key", "after"} PROVE Steps(Place(s, want), Key(w), Place(s, "value"))
  <2> DEFINE place == Place(s, want)
  <2>1. place \in Places /\ place.stack = s /\ Keys(place) /\ <<w>> \in Seq(Words)
    BY OpTypes DEF Places, Place, Keys
  <2> HIDE DEF place
  <2>2. \A b : At(b, place) => At(KeyAdded(b, <<w>>), Place(s, "value"))
    BY <2>1, KeyPlace
  <2> QED BY <1>1, <2>2 DEF Steps, place
<1> QED BY <1>2

LEMMA CloseSteps ==
  ASSUME NEW s \in Seq(Brackets), NEW c \in Brackets, NEW want \in {"after", "items"}, want = "after" \/ c = "]"
  PROVE  Steps(Place(Append(s, c), want), Close, Place(s, "after"))
<1> DEFINE place == Place(Append(s, c), want)
<1>1. place \in Places /\ place.stack = Append(s, c) /\ Closes(place)
  BY Top DEF Places, Place, Closes
<1> HIDE DEF place
<1>2. \A b : Do(b, Close) = Closed(b)
  BY DEF Do, Close
<1>3. Front(place.stack) = s
  BY <1>1, Top
<1>4. \A b : At(b, place) => At(Closed(b), Place(s, "after"))
  BY <1>1, <1>3, ClosedPlace, Weaker
<1> QED BY <1>2, <1>4 DEF Steps, place

LEMMA IndentSteps ==
  ASSUME NEW s \in Seq(Brackets), NEW want \in {"value", "first value", "first key", "after"}
  PROVE  Steps(Place(s, want), Indent, Place(s, want))
<1> DEFINE place == Place(s, want)
<1>1. place \in Places /\ place.want = want
  BY DEF Places, Place
<1> HIDE DEF place
<1>2. \A b : Do(b, Indent) = IndentAsked(b)
  BY DEF Do, Indent
<1>3. \A b : At(b, place) => At(IndentAsked(b), place)
  BY <1>1, IndentPlace
<1> QED BY <1>2, <1>3 DEF Steps, place

LEMMA MoreSteps ==
  ASSUME NEW s \in Seq(Brackets), NEW want \in {"value", "text"}, NEW op \in Mores
  PROVE  Steps(Place(s, want), op, Place(s, "text"))
<1> DEFINE place == Place(s, want)
<1>1. place \in Places /\ place.want = want /\ place.stack = s /\ (want = "text" => place = Place(s, "text"))
  BY DEF Places, Place
<1> HIDE DEF place
<1>2. op.text \in Seq(Words) /\ \A b : Do(b, op) = ValueAppended(b, op.text)
  BY DEF Do, Mores, Ops
<1>3. \A b : At(b, place) => At(ValueAppended(b, op.text), Place(s, "text"))
  BY <1>1, <1>2, MorePlace
<1> QED BY <1>2, <1>3 DEF Steps, place

LEMMA FinishSteps ==
  ASSUME NEW s \in Seq(Brackets), s # <<>>, NEW want \in {"after", "text"}
  PROVE  Steps(Place(s, want), Finish, Place(<<>>, "end"))
<1> DEFINE place == Place(s, want)
<1>1. place \in Places /\ place.want = want /\ place.stack = s
  BY DEF Places, Place
<1> HIDE DEF place
<1>2. \A b : Do(b, Finish) = Finished(b)
  BY DEF Do, Finish
<1>3. \A b : At(b, place) => At(Finished(b), Place(<<>>, "end"))
  BY <1>1, FinishPlace
<1> QED BY <1>2, <1>3 DEF Steps, place

\* A script that is good for items is good for the first one and for the next one.
LEMMA FromItems ==
  ASSUME NEW s \in Seq(Brackets), NEW script, NEW to, Goes(Place(s, "items"), script, to)
  PROVE  Goes(Place(s, "first value"), script, to) /\ Goes(Place(s, "after"), script, to)
BY Weaker DEF Goes

LEMMA ToItems ==
  ASSUME NEW s \in Seq(Brackets), NEW script, NEW from, Goes(from, script, Place(s, "after"))
  PROVE  Goes(from, script, Place(s, "items"))
BY Weaker DEF Goes

-----------------------------------------------------------------------------
(* Where the scripts of the service lead.                                    *)

\* The object of the response, and its result in JSON.
Result == Append(<<>>, "}")
Results == Append(Result, "]")

LEMMA Stacks ==
  /\ <<>> \in Seq(Brackets) /\ Result \in Seq(Brackets) /\ Result # <<>> /\ Last(Result) = "}"
  /\ Results \in Seq(Brackets) /\ Results # <<>> /\ Last(Results) = "]" /\ "}" \in Brackets /\ "]" \in Brackets
<1>1. "}" \in Brackets /\ "]" \in Brackets /\ <<>> \in Seq(Brackets)
  BY EmptySeq DEF Brackets
<1>2. \A s \in Seq(Brackets) : \A c \in Brackets : Append(s, c) \in Seq(Brackets) /\ Append(s, c) # <<>> /\ Last(Append(s, c)) = c
  BY Top
<1> QED BY <1>1, <1>2, Zenon DEF Result, Results

LEMMA HeaderPlace ==
  ASSUME NEW r \in Requests
  PROVE  At(Done(Clear, Header(r)), IF r.mode = "JSON" THEN Place(Results, "first value") ELSE Place(Result, "value"))
<1>1. At(Clear, Place(<<>>, "value"))
  <2>1. Clear \in Builders
    BY ShortTexts, EmptySeq DEF Clear, Builders, BuilderModes
  <2>2. ReadSoFar(Clear) = Reader
    BY ReaderType, ReadNone DEF ReadSoFar, Clear
  <2>3. Opening(<<>>) = <<>>
    BY Stacks, OpeningOf
  <2> QED BY <2>1, <2>2, <2>3 DEF At, Place, Stands, Looks, Clear, Reader
<1>2. /\ Key("model") \in Ops /\ Value(<<"id">>) \in Ops /\ Key("acknowledgements") \in Ops /\ Value(<<"url">>) \in Ops
      /\ Value(<<"model-url">>) \in Ops /\ Key("result") \in Ops
      /\ <<"id">> \in Seq(Words) /\ <<"url">> \in Seq(Words) /\ <<"model-url">> \in Seq(Words)
      /\ "model" \in Words /\ "acknowledgements" \in Words /\ "result" \in Words
  BY Names, OpTypes
<1>3. Object \in Ops /\ Array \in Ops /\ Indent \in Ops /\ Close \in Ops
  BY OpTypes
<1>4. Steps(Place(<<>>, "value"), Object, Place(Result, "first key"))
  BY Stacks, ObjectSteps DEF Result
<1>5. /\ Steps(Place(Result, "first key"), Indent, Place(Result, "first key")) /\ Steps(Place(Result, "value"), Indent, Place(Result, "value"))
      /\ Steps(Place(Result, "after"), Indent, Place(Result, "after")) /\ Steps(Place(Results, "after"), Indent, Place(Results, "after"))
      /\ Steps(Place(Results, "first value"), Indent, Place(Results, "first value"))
  BY Stacks, IndentSteps
<1>6. /\ \A w \in Words : /\ Steps(Place(Result, "first key"), Key(w), Place(Result, "value"))
                          /\ Steps(Place(Result, "after"), Key(w), Place(Result, "value"))
  BY Stacks, KeySteps
<1>7. /\ \A t \in Seq(Words) : /\ Steps(Place(Result, "value"), Value(t), Place(Result, "after"))
                               /\ Steps(Place(Results, "first value"), Value(t), Place(Results, "after"))
                               /\ Steps(Place(Results, "after"), Value(t), Place(Results, "after"))
  BY Stacks, ObjectSteps
<1>8. Steps(Place(Result, "value"), Array, Place(Results, "first value"))
  BY Stacks, ObjectSteps DEF Results
<1>9. Steps(Place(Results, "after"), Close, Place(Result, "after"))
  BY Stacks, CloseSteps DEF Results
<1> HIDE DEF Header
<1> DEFINE a == <<Object, Indent, Key("model"), Indent, Value(<<"id">>), Indent>>
           b == <<Object, Indent, Key("model"), Indent, Value(<<"id">>), Indent, Key("acknowledgements"), Indent, Array,
                  Indent, Value(<<"url">>)>>
           c == Optional(r.acknowledged, <<Indent, Value(<<"model-url">>)>>)
           d == <<Indent, Close, Indent, Key("result"), Indent>>
           e == Optional(r.mode = "JSON", <<Array>>)
<1>10. Goes(Place(<<>>, "value"), a, Place(Result, "after")) /\ a \in Seq(Ops)
  <2>1. Goes(Place(<<>>, "value"), a, Place(Result, "after"))
    BY <1>2, <1>3, <1>4, <1>5, <1>6, <1>7, GoesSix
  <2> QED BY <1>2, <1>3, <2>1, TupleTypes, Zenon
<1>11. Goes(Place(<<>>, "value"), b, Place(Results, "after")) /\ b \in Seq(Ops)
  <2> DEFINE s7 == <<Object, Indent, Key("model"), Indent, Value(<<"id">>), Indent, Key("acknowledgements")>>
  <2>1. Goes(Place(<<>>, "value"), s7, Place(Result, "value")) /\ s7 \in Seq(Ops)
    <3>1. s7 = Append(a, Key("acknowledgements"))
      OBVIOUS
    <3>2. Key("acknowledgements") \in Ops /\ Steps(Place(Result, "after"), Key("acknowledgements"), Place(Result, "value"))
      BY <1>2, <1>3, <1>5, <1>6, <1>7, <1>8
    <3> HIDE DEF a, s7
    <3> QED BY <1>10, <3>1, <3>2, GoesThen, AppendProperties
  <2> DEFINE s8 == <<Object, Indent, Key("model"), Indent, Value(<<"id">>), Indent, Key("acknowledgements"), Indent>>
  <2>2. Goes(Place(<<>>, "value"), s8, Place(Result, "value")) /\ s8 \in Seq(Ops)
    <3>1. s8 = Append(s7, Indent)
      OBVIOUS
    <3>2. Indent \in Ops /\ Steps(Place(Result, "value"), Indent, Place(Result, "value"))
      BY <1>2, <1>3, <1>5, <1>6, <1>7, <1>8
    <3> HIDE DEF s7, s8
    <3> QED BY <2>1, <3>1, <3>2, GoesThen, AppendProperties
  <2> DEFINE s9 == <<Object, Indent, Key("model"), Indent, Value(<<"id">>), Indent, Key("acknowledgements"), Indent, Array>>
  <2>3. Goes(Place(<<>>, "value"), s9, Place(Results, "first value")) /\ s9 \in Seq(Ops)
    <3>1. s9 = Append(s8, Array)
      OBVIOUS
    <3>2. Array \in Ops /\ Steps(Place(Result, "value"), Array, Place(Results, "first value"))
      BY <1>2, <1>3, <1>5, <1>6, <1>7, <1>8
    <3> HIDE DEF s8, s9
    <3> QED BY <2>2, <3>1, <3>2, GoesThen, AppendProperties
  <2> DEFINE s10 == <<Object, Indent, Key("model"), Indent, Value(<<"id">>), Indent, Key("acknowledgements"), Indent, Array, Indent>>
  <2>4. Goes(Place(<<>>, "value"), s10, Place(Results, "first value")) /\ s10 \in Seq(Ops)
    <3>1. s10 = Append(s9, Indent)
      OBVIOUS
    <3>2. Indent \in Ops /\ Steps(Place(Results, "first value"), Indent, Place(Results, "first value"))
      BY <1>2, <1>3, <1>5, <1>6, <1>7, <1>8
    <3> HIDE DEF s9, s10
    <3> QED BY <2>3, <3>1, <3>2, GoesThen, AppendProperties
  <2>5. Goes(Place(<<>>, "value"), b, Place(Results, "after")) /\ b \in Seq(Ops)
    <3>1. b = Append(s10, Value(<<"url">>))
      OBVIOUS
    <3>2. Value(<<"url">>) \in Ops /\ Steps(Place(Results, "first value"), Value(<<"url">>), Place(Results, "after"))
      BY <1>2, <1>3, <1>5, <1>6, <1>7, <1>8
    <3> HIDE DEF s10, b
    <3> QED BY <2>4, <3>1, <3>2, GoesThen, AppendProperties
  <2> QED BY <2>5
<1>12. Goes(Place(Results, "after"), c, Place(Results, "after")) /\ c \in Seq(Ops)
  <2>1. Goes(Place(Results, "after"), <<Indent, Value(<<"model-url">>)>>, Place(Results, "after"))
    BY <1>2, <1>3, <1>5, <1>7, GoesTwo
  <2>2. <<Indent, Value(<<"model-url">>)>> \in Seq(Ops) /\ <<>> \in Seq(Ops)
    BY <1>2, <1>3, TupleTypes, Zenon
  <2> QED BY <2>1, <2>2, GoesNone DEF Optional
<1>13. Goes(Place(Results, "after"), d, Place(Result, "value")) /\ d \in Seq(Ops)
  <2>1. Goes(Place(Results, "after"), d, Place(Result, "value"))
    BY <1>2, <1>3, <1>5, <1>6, <1>9, GoesFive
  <2> QED BY <1>2, <1>3, <2>1, TupleTypes, Zenon
<1>14. /\ Goes(Place(Result, "value"), e, IF r.mode = "JSON" THEN Place(Results, "first value") ELSE Place(Result, "value"))
       /\ e \in Seq(Ops)
  <2>1. Goes(Place(Result, "value"), <<Array>>, Place(Results, "first value"))
    BY <1>3, <1>8, GoesOne
  <2>2. <<Array>> \in Seq(Ops) /\ <<>> \in Seq(Ops)
    BY <1>3, TupleTypes, Zenon
  <2> QED BY <2>1, <2>2, GoesNone DEF Optional
<1>15. Header(r) = (b \o c) \o d \o e
  BY DEF Header
<1> HIDE DEF a, b, c, d, e
<1>16. b \o c \in Seq(Ops) /\ (b \o c) \o d \in Seq(Ops)
  BY <1>11, <1>12, <1>13, ConcatProperties
<1>17. Goes(Place(<<>>, "value"), b \o c, Place(Results, "after"))
  BY <1>11, <1>12, GoesOn
<1>18. Goes(Place(<<>>, "value"), Header(r), IF r.mode = "JSON" THEN Place(Results, "first value") ELSE Place(Result, "value"))
  BY <1>13, <1>14, <1>15, <1>16, <1>17, GoesOn
<1> QED BY <1>1, <1>18 DEF Goes

\* An entry of an array, s, is an object that begins with a key and a value, and more of them follow.
LEMMA EntryGoes ==
  ASSUME NEW s \in Seq(Brackets), s # <<>>, Last(s) = "]", NEW w \in Words, NEW v \in Words,
         NEW t \in Seq(Words), NEW u \in Seq(Words)
  PROVE  /\ Goes(Place(s, "items"), <<Object, Key(w), Value(t)>>, Place(Append(s, "}"), "after"))
         /\ Goes(Place(Append(s, "}"), "after"), <<Key(w), Value(t)>>, Place(Append(s, "}"), "after"))
         /\ Goes(Place(Append(s, "}"), "after"), <<Key(w), Value(t), Key(v), Value(u)>>, Place(Append(s, "}"), "after"))
         /\ Goes(Place(Append(s, "}"), "after"), <<Key(w), Value(t), Key(v), Value(u), Close>>, Place(s, "after"))
         /\ Goes(Place(s, "items"), <<Object, Key(w), Value(t), Key(v), Value(u), Close>>, Place(s, "after"))
         /\ Goes(Place(Append(s, "}"), "after"), <<Close>>, Place(s, "after"))
<1> DEFINE o == Append(s, "}")
<1>1. o \in Seq(Brackets) /\ o # <<>> /\ Last(o) = "}" /\ "}" \in Brackets
  BY Stacks, Top
<1>2. Steps(Place(s, "items"), Object, Place(o, "first key")) /\ Steps(Place(o, "after"), Close, Place(s, "after"))
  BY <1>1, ObjectSteps, CloseSteps
<1> HIDE DEF o
<1>3. /\ Steps(Place(o, "first key"), Key(w), Place(o, "value")) /\ Steps(Place(o, "after"), Key(w), Place(o, "value"))
      /\ Steps(Place(o, "after"), Key(v), Place(o, "value"))
  BY <1>1, KeySteps
<1>4. Steps(Place(o, "value"), Value(t), Place(o, "after")) /\ Steps(Place(o, "value"), Value(u), Place(o, "after"))
  BY <1>1, ObjectSteps
<1>5. Object \in Ops /\ Close \in Ops /\ Key(w) \in Ops /\ Key(v) \in Ops /\ Value(t) \in Ops /\ Value(u) \in Ops
  BY OpTypes
<1>6. Goes(Place(s, "items"), <<Object, Key(w), Value(t)>>, Place(o, "after"))
  BY <1>2, <1>3, <1>4, <1>5, GoesThree
<1>7. Goes(Place(o, "after"), <<Key(w), Value(t)>>, Place(o, "after"))
  BY <1>3, <1>4, <1>5, GoesTwo
<1>8. Goes(Place(o, "after"), <<Key(w), Value(t), Key(v), Value(u)>>, Place(o, "after"))
  BY <1>3, <1>4, <1>5, GoesFour
<1>9. Goes(Place(o, "after"), <<Key(w), Value(t), Key(v), Value(u), Close>>, Place(s, "after"))
  BY <1>2, <1>3, <1>4, <1>5, GoesFive
<1>10. Goes(Place(s, "items"), <<Object, Key(w), Value(t), Key(v), Value(u), Close>>, Place(s, "after"))
  BY <1>2, <1>3, <1>4, <1>5, GoesSix
<1>11. Goes(Place(o, "after"), <<Close>>, Place(s, "after"))
  BY <1>2, <1>5, GoesOne
<1> QED BY <1>6, <1>7, <1>8, <1>9, <1>10, <1>11 DEF o

\* Entries follow one another.
LEMMA ItemsGo ==
  ASSUME NEW s \in Seq(Brackets), NEW seqs \in Seq(Seq(Ops)),
         \A k \in 1..Len(seqs) : Goes(Place(s, "items"), seqs[k], Place(s, "items"))
  PROVE  Goes(Place(s, "items"), FlattenSeq(seqs), Place(s, "items"))
<1> DEFINE place == [k \in 0..Len(seqs) |-> Place(s, "items")]
<1>1. Len(seqs) \in Nat
  OBVIOUS
<1>2. \A k \in 0..Len(seqs) : place[k] = Place(s, "items")
  OBVIOUS
<1> HIDE DEF place
<1>3. \A k \in 1..Len(seqs) : place[k - 1] = Place(s, "items") /\ place[k] = Place(s, "items")
  BY <1>1, <1>2
<1>4. \A k \in 1..Len(seqs) : Goes(place[k - 1], seqs[k], place[k])
  BY <1>3
<1>5. Goes(place[0], FlattenSeq(seqs), place[Len(seqs)])
  BY <1>4, GoesEach
<1>6. place[0] = Place(s, "items") /\ place[Len(seqs)] = Place(s, "items")
  BY <1>1, <1>2
<1> QED BY <1>5, <1>6

LEMMA FunctionIsSeq ==
  ASSUME NEW n \in Nat, NEW S, NEW g \in [1..n -> S]
  PROVE  g \in Seq(S) /\ Len(g) = n
OBVIOUS

\* The analyses of a token stay in its object.
LEMMA AnalysesGo ==
  ASSUME NEW r \in Requests, NEW token \in Token, NEW s \in Seq(Brackets), s # <<>>, Last(s) = "}"
  PROVE  Goes(Place(s, "after"), JsonAnalyses(r, token), Place(s, "after"))
<1>1. /\ "lemma" \in Words /\ "tag" \in Words /\ "analyses" \in Words /\ <<"l">> \in Seq(Words) /\ <<"t">> \in Seq(Words)
  BY Names, OpTypes
<1>2. token.analyses \in Nat
  BY RequestParts
<1> DEFINE a == Append(s, "]")
<1>3. a \in Seq(Brackets) /\ a # <<>> /\ Last(a) = "]" /\ "]" \in Brackets
  BY Stacks, Top
<1>4. CASE r.method = "tag"
  <2>1. \A w, v \in Words : \A x, y \in Seq(Words) : Goes(Place(s, "after"), <<Key(w), Value(x), Key(v), Value(y)>>, Place(s, "after"))
    <3> SUFFICES ASSUME NEW w \in Words, NEW v \in Words, NEW x \in Seq(Words), NEW y \in Seq(Words)
                 PROVE  Goes(Place(s, "after"), <<Key(w), Value(x), Key(v), Value(y)>>, Place(s, "after"))
      OBVIOUS
    <3>1. \A p : Steps(Place(s, "after"), Key(w), Place(s, "value")) /\ Steps(Place(s, "after"), Key(v), Place(s, "value"))
      BY KeySteps
    <3>2. Steps(Place(s, "value"), Value(x), Place(s, "after")) /\ Steps(Place(s, "value"), Value(y), Place(s, "after"))
      BY ObjectSteps
    <3>3. Key(w) \in Ops /\ Key(v) \in Ops /\ Value(x) \in Ops /\ Value(y) \in Ops
      BY OpTypes
    <3> QED BY <3>1, <3>2, <3>3, GoesFour
  <2>2. JsonAnalyses(r, token) = <<Key("lemma"), Value(<<"l">>), Key("tag"), Value(<<"t">>)>>
    BY <1>4 DEF JsonAnalyses
  <2> QED BY <1>1, <2>1, <2>2
<1>5. CASE r.method = "analyze"
  <2> DEFINE f == [k \in 1..token.analyses |-> Analysis]
  <2>1. JsonAnalyses(r, token) = <<Key("analyses"), Array>> \o FlattenSeq(f) \o <<Close>>
    BY <1>5 DEF JsonAnalyses
  <2>2. Analysis \in Seq(Ops)
    BY JsonTokenType, 0 \in Nat, TRUE \in BOOLEAN
  <2>3. f \in Seq(Seq(Ops)) /\ \A k \in 1..Len(f) : f[k] = Analysis
    <3>1. f \in [1..token.analyses -> Seq(Ops)] /\ \A k \in 1..token.analyses : f[k] = Analysis
      BY <2>2
    <3> HIDE DEF f
    <3> DEFINE n == token.analyses
    <3>2. f \in [1..n -> Seq(Ops)] /\ n \in Nat
      BY <1>2, <3>1
    <3> HIDE DEF n
    <3>3. f \in Seq(Seq(Ops)) /\ Len(f) = n
      BY <3>2, FunctionIsSeq, Zenon
    <3> QED BY <3>1, <3>3 DEF n
  <2> HIDE DEF f
  <2>4. Goes(Place(a, "items"), Analysis, Place(a, "items"))
    BY <1>1, <1>3, EntryGoes, ToItems DEF Analysis
  <2>5. Goes(Place(a, "items"), FlattenSeq(f), Place(a, "items")) /\ FlattenSeq(f) \in Seq(Ops)
    BY <1>3, <2>3, <2>4, ItemsGo, FlattenType
  <2>6. Key("analyses") \in Ops /\ Array \in Ops /\ Close \in Ops
    BY <1>1, OpTypes
  <2>7. Goes(Place(s, "after"), <<Key("analyses"), Array>>, Place(a, "first value")) /\ <<Key("analyses"), Array>> \in Seq(Ops)
    <3>1. Steps(Place(s, "after"), Key("analyses"), Place(s, "value"))
      BY <1>1, KeySteps
    <3>2. Steps(Place(s, "value"), Array, Place(a, "first value"))
      BY ObjectSteps
    <3> QED BY <2>6, <3>1, <3>2, GoesTwo, TupleTypes
  <2>8. Goes(Place(a, "items"), <<Close>>, Place(s, "after")) /\ <<Close>> \in Seq(Ops)
    <3>1. Steps(Place(a, "items"), Close, Place(s, "after"))
      BY <1>3, CloseSteps
    <3> QED BY <2>6, <3>1, GoesOne, TupleTypes
  <2>9. Goes(Place(a, "first value"), FlattenSeq(f), Place(a, "items"))
    BY <1>3, <2>5, FromItems
  <2>10. /\ Goes(Place(s, "after"), <<Key("analyses"), Array>> \o FlattenSeq(f), Place(a, "items"))
         /\ <<Key("analyses"), Array>> \o FlattenSeq(f) \in Seq(Ops)
    BY <2>5, <2>7, <2>9, GoesOn, ConcatProperties
  <2> QED BY <2>1, <2>8, <2>10, GoesOn
<1>6. CASE r.method \notin {"tag", "analyze"}
  <2>1. JsonAnalyses(r, token) = <<>>
    BY <1>6 DEF JsonAnalyses
  <2> QED BY <2>1, GoesNone
<1> QED BY <1>4, <1>5, <1>6

\* Between two sentences their array, the last sentence and its last token are open.
InSentence == Append(Results, "]")
InToken == Append(InSentence, "}")

LEMMA SentenceStacks ==
  /\ InSentence \in Seq(Brackets) /\ InSentence # <<>> /\ Last(InSentence) = "]"
  /\ InToken \in Seq(Brackets) /\ InToken # <<>> /\ Last(InToken) = "}"
BY Stacks, Top DEF InSentence, InToken

\* What is done or left out, depending on a condition.
LEMMA GoesOptional ==
  ASSUME NEW condition \in BOOLEAN, NEW p, NEW q, NEW s, condition => Goes(p, s, q)
  PROVE  Goes(p, Optional(condition, s), IF condition THEN q ELSE p)
BY GoesNone DEF Optional

\* A token: the one before it is ended, and so is the sentence before it if the token is the first of its own.
LEMMA JsonTokenGoes ==
  ASSUME NEW r \in Requests, NEW token \in Token, NEW i \in Nat \ {0}, NEW is_first \in BOOLEAN
  PROVE  Goes(IF i = 1 /\ is_first THEN Place(Results, "first value") ELSE Place(InToken, "after"),
              JsonToken(r, token, i, is_first), Place(InToken, "after"))
<1> DEFINE opens == i = 1 /\ is_first
           start == IF opens THEN Place(Results, "first value") ELSE Place(InToken, "after")
           closed == IF opens THEN start ELSE Place(InSentence, "after")
           left == IF i = 1 /\ ~ is_first THEN Place(Results, "after") ELSE closed
           entered == IF i = 1 THEN Place(InSentence, "first value") ELSE left
           a == Optional((i > 1 \/ ~is_first) /\ token.space # <<>>, <<Key("space"), Value(token.space)>>)
           b == Optional(i > 1 \/ ~is_first, <<Close>>)
           c == Optional(i = 1 /\ ~is_first, <<Close>>)
           d == Optional(i = 1, <<Array>>)
           e == <<Object, Key("token"), Value(token.form)>>
<1>1. "space" \in Words /\ "token" \in Words /\ token.space \in Seq(Words) /\ token.form \in Seq(Words)
  BY Names, RequestParts
<1>2. /\ Object \in Ops /\ Array \in Ops /\ Close \in Ops /\ Key("space") \in Ops /\ Key("token") \in Ops
      /\ Value(token.space) \in Ops /\ Value(token.form) \in Ops
  BY <1>1, OpTypes
<1>3. /\ <<Key("space"), Value(token.space)>> \in Seq(Ops) /\ <<Close>> \in Seq(Ops) /\ <<Array>> \in Seq(Ops)
      /\ <<Object, Key("token"), Value(token.form)>> \in Seq(Ops)
  <2>1. \A x, y, z \in Ops : <<x, y, z>> \in Seq(Ops)
    OBVIOUS
  <2> QED BY <1>2, <2>1, TupleTypes, Zenon
<1>4. a \in Seq(Ops) /\ b \in Seq(Ops) /\ c \in Seq(Ops) /\ d \in Seq(Ops) /\ e \in Seq(Ops)
  BY <1>3, OptionalType
<1>5. Goes(start, a, start)
  <2>1. Goes(Place(InToken, "after"), <<Key("space"), Value(token.space)>>, Place(InToken, "after"))
    BY <1>1, SentenceStacks, Stacks, EntryGoes DEF InToken
  <2>2. ~ opens => Goes(start, <<Key("space"), Value(token.space)>>, start)
    BY <2>1
  <2>3. (i > 1 \/ ~is_first) /\ token.space # <<>> => ~ opens
    OBVIOUS
  <2> HIDE DEF start, opens
  <2> QED BY <2>2, <2>3, GoesNone DEF Optional
<1>6. Goes(start, b, closed)
  <2>1. Goes(Place(InToken, "after"), <<Close>>, Place(InSentence, "after"))
    BY <1>1, SentenceStacks, EntryGoes DEF InToken
  <2>2. i > 1 \/ ~is_first <=> ~ opens
    OBVIOUS
  <2> QED BY <2>1, <2>2, GoesNone DEF Optional
<1>7. Goes(closed, c, left)
  <2>1. Goes(Place(InSentence, "after"), <<Close>>, Place(Results, "after"))
    <3>1. Steps(Place(InSentence, "after"), Close, Place(Results, "after"))
      BY Stacks, CloseSteps DEF InSentence
    <3> QED BY <1>2, <3>1, GoesOne
  <2> QED BY <2>1, GoesNone DEF Optional
<1>8. Goes(left, d, entered)
  <2>1. /\ Goes(Place(Results, "first value"), <<Array>>, Place(InSentence, "first value"))
        /\ Goes(Place(Results, "after"), <<Array>>, Place(InSentence, "first value"))
    <3>1. /\ Steps(Place(Results, "first value"), Array, Place(InSentence, "first value"))
          /\ Steps(Place(Results, "after"), Array, Place(InSentence, "first value"))
      BY Stacks, ObjectSteps DEF InSentence
    <3> QED BY <1>2, <3>1, GoesOne
  <2>2. i = 1 => left = Place(Results, "first value") \/ left = Place(Results, "after")
    OBVIOUS
  <2> HIDE DEF left
  <2> QED BY <2>1, <2>2, GoesNone DEF Optional
<1>9. Goes(entered, e, Place(InToken, "after"))
  <2>1. Goes(Place(InSentence, "items"), e, Place(InToken, "after"))
    BY <1>1, SentenceStacks, EntryGoes DEF InToken
  <2>2. entered = Place(InSentence, "first value") \/ entered = Place(InSentence, "after")
    OBVIOUS
  <2> HIDE DEF entered, e
  <2> QED BY <2>1, <2>2, SentenceStacks, FromItems
<1>10. Goes(Place(InToken, "after"), JsonAnalyses(r, token), Place(InToken, "after")) /\ JsonAnalyses(r, token) \in Seq(Ops)
  BY SentenceStacks, AnalysesGo, JsonTokenType
<1>11. JsonToken(r, token, i, is_first) = a \o b \o c \o d \o e \o JsonAnalyses(r, token)
  BY DEF JsonToken
<1>12. start = IF i = 1 /\ is_first THEN Place(Results, "first value") ELSE Place(InToken, "after")
  OBVIOUS
<1> HIDE DEF start, closed, left, entered, a, b, c, d, e
<1>13. Goes(start, a \o b, closed) /\ a \o b \in Seq(Ops)
  BY <1>4, <1>5, <1>6, GoesOn, ConcatProperties
<1>14. Goes(start, a \o b \o c, left) /\ a \o b \o c \in Seq(Ops)
  BY <1>4, <1>7, <1>13, GoesOn, ConcatProperties
<1>15. Goes(start, a \o b \o c \o d, entered) /\ a \o b \o c \o d \in Seq(Ops)
  BY <1>4, <1>8, <1>14, GoesOn, ConcatProperties
<1>16. Goes(start, a \o b \o c \o d \o e, Place(InToken, "after")) /\ a \o b \o c \o d \o e \in Seq(Ops)
  BY <1>4, <1>9, <1>15, GoesOn, ConcatProperties
<1>17. Goes(start, JsonToken(r, token, i, is_first), Place(InToken, "after"))
  BY <1>10, <1>11, <1>16, GoesOn
<1> QED BY <1>12, <1>17

\* A sentence, unless it is the first and has no tokens.
LEMMA JsonSentenceGoes ==
  ASSUME NEW r \in Requests, r.mode = "JSON", NEW sentence \in Seq(Token), NEW is_first \in BOOLEAN,
         is_first => sentence # <<>>
  PROVE  Goes(IF is_first THEN Place(Results, "first value") ELSE Place(InToken, "after"),
              Sentence(r, sentence, is_first), Place(InToken, "after"))
<1> DEFINE start == IF is_first THEN Place(Results, "first value") ELSE Place(InToken, "after")
           place == [k \in 0..Len(sentence) |-> IF k = 0 THEN start ELSE Place(InToken, "after")]
           f == [i \in DOMAIN sentence |-> JsonToken(r, sentence[i], i, is_first)]
<1>1. Len(sentence) \in Nat /\ DOMAIN sentence = 1..Len(sentence)
  OBVIOUS
<1>2. \A i \in 1..Len(sentence) : sentence[i] \in Token /\ i \in Nat \ {0}
  OBVIOUS
<1>3. f = [i \in DOMAIN sentence |-> f[i]] /\ \A i \in 1..Len(sentence) : f[i] \in Seq(Ops)
  BY <1>2, JsonTokenType
<1>4. Sentence(r, sentence, is_first) = FlattenSeq(f)
  BY DEF Sentence
<1>5. \A i \in 1..Len(sentence) : f[i] = JsonToken(r, sentence[i], i, is_first)
  BY <1>1
<1>6. \A k \in 0..Len(sentence) : place[k] = IF k = 0 THEN start ELSE Place(InToken, "after")
  OBVIOUS
<1> HIDE DEF f, place
<1>7. place[Len(sentence)] = Place(InToken, "after")
  <2>1. Len(sentence) = 0 => sentence = <<>>
    BY EmptySeq
  <2>2. Len(sentence) = 0 => start = Place(InToken, "after")
    BY <2>1
  <2> HIDE DEF start
  <2> QED BY <1>1, <1>6, <2>2
<1>8. place[0] = start
  <2>1. 0 \in 0..Len(sentence)
    BY <1>1
  <2> HIDE DEF start
  <2> QED BY <1>6, <2>1
<1>9. f \in Seq(Seq(Ops)) /\ Len(f) = Len(sentence)
  BY <1>3, EachType
<1>10. \A k \in 1..Len(f) : Goes(place[k - 1], f[k], place[k])
  <2> TAKE k \in 1..Len(f)
  <2>1. k \in 1..Len(sentence) /\ k - 1 \in 0..Len(sentence) /\ k \in 0..Len(sentence) /\ k # 0 /\ (k - 1 = 0 <=> k = 1)
    BY <1>1, <1>9
  <2>2. place[k - 1] = IF k = 1 THEN start ELSE Place(InToken, "after")
    BY <1>6, <2>1
  <2>3. place[k - 1] = IF k = 1 /\ is_first THEN Place(Results, "first value") ELSE Place(InToken, "after")
    BY <2>2
  <2>4. place[k] = Place(InToken, "after") /\ f[k] = JsonToken(r, sentence[k], k, is_first)
    BY <1>5, <1>6, <2>1
  <2> QED BY <1>2, <2>1, <2>3, <2>4, JsonTokenGoes
<1>11. Goes(start, FlattenSeq(f), Place(InToken, "after"))
  BY <1>7, <1>8, <1>9, <1>10, GoesEach
<1> QED BY <1>4, <1>11

LEMMA TailOfSix ==
  ASSUME NEW S, NEW a \in S, NEW b \in S, NEW c \in S, NEW d \in S, NEW e \in S, NEW f \in S
  PROVE  Tail(<<a, b, c, d, e, f>>) = <<b, c, d, e, f>>
OBVIOUS

\* A form and its line.
LEMMA JsonLineGoes ==
  ASSUME NEW r \in Requests, r.mode = "JSON", NEW line \in Seq(Token)
  PROVE  Goes(Place(Results, "items"), Line(r, line), Place(Results, "items"))
<1>1. "form" \in Words /\ "lemma" \in Words /\ "tag" \in Words /\ <<"l">> \in Seq(Words) /\ <<"t">> \in Seq(Words)
  BY Names, OpTypes
<1>2. Object \in Ops /\ Array \in Ops /\ Close \in Ops /\ Key("form") \in Ops /\ Key("lemma") \in Ops /\ Key("tag") \in Ops
      /\ Value(<<"l">>) \in Ops /\ Value(<<"t">>) \in Ops
  BY <1>1, OpTypes
<1>4. Tail(Analysis) = <<Key("lemma"), Value(<<"l">>), Key("tag"), Value(<<"t">>), Close>>
  BY <1>2, TailOfSix DEF Analysis
<1>5. Tail(Analysis) \in Seq(Ops)
  <2>1. <<Key("lemma"), Value(<<"l">>), Key("tag"), Value(<<"t">>), Close>> \in Seq(Ops)
    BY <1>2, TupleTypes, Zenon
  <2> QED BY <1>4, <2>1
<1>6. ASSUME NEW i \in 1..Len(line)
      PROVE  Form(r, line[i], i) \in Seq(Ops) /\ Goes(Place(InSentence, "items"), Form(r, line[i], i), Place(InSentence, "items"))
  <2>1. line[i] \in Token /\ i \in Nat
    OBVIOUS
  <2>2. line[i].form \in Seq(Words)
    BY <2>1, RequestParts
  <2>3. /\ Form(r, line[i], i) = <<Object, Key("form"), Value(line[i].form)>> \o Tail(Analysis)
        /\ Form(r, line[i], i) \in Seq(Ops)
    BY <2>1, FormType
  <2>4. <<Object, Key("form"), Value(line[i].form)>> \in Seq(Ops)
    <3>1. \A a, b, c \in Ops : <<a, b, c>> \in Seq(Ops)
      OBVIOUS
    <3> QED BY <1>2, <2>2, <3>1, OpTypes, Zenon
  <2>5. Goes(Place(InSentence, "items"), <<Object, Key("form"), Value(line[i].form)>>, Place(InToken, "after"))
    BY <1>1, <2>2, SentenceStacks, EntryGoes DEF InToken
  <2>6. Goes(Place(InToken, "after"), Tail(Analysis), Place(InSentence, "after"))
    BY <1>1, <1>4, SentenceStacks, EntryGoes DEF InToken
  <2>7. Goes(Place(InToken, "after"), Tail(Analysis), Place(InSentence, "items"))
    BY <2>6, SentenceStacks, ToItems
  <2> QED BY <1>5, <2>3, <2>4, <2>5, <2>7, GoesOn
<1> DEFINE f == [i \in DOMAIN line |-> Form(r, line[i], i)]
<1>7. /\ f = [i \in DOMAIN line |-> f[i]]
      /\ \A i \in 1..Len(line) : f[i] \in Seq(Ops) /\ Goes(Place(InSentence, "items"), f[i], Place(InSentence, "items"))
  BY <1>6
<1>8. Line(r, line) = <<Array>> \o FlattenSeq(f) \o <<Close>>
  BY DEF Line
<1> HIDE DEF f
<1>9. f \in Seq(Seq(Ops)) /\ Len(f) = Len(line) /\ FlattenSeq(f) \in Seq(Ops)
  BY <1>7, EachType
<1>10. Goes(Place(InSentence, "items"), FlattenSeq(f), Place(InSentence, "items"))
  BY <1>7, <1>9, SentenceStacks, ItemsGo
<1>11. Goes(Place(InSentence, "first value"), FlattenSeq(f), Place(InSentence, "items"))
  BY <1>10, SentenceStacks, FromItems
<1>12. Goes(Place(Results, "items"), <<Array>>, Place(InSentence, "first value")) /\ <<Array>> \in Seq(Ops)
  <2>1. Steps(Place(Results, "items"), Array, Place(InSentence, "first value"))
    BY Stacks, ObjectSteps DEF InSentence
  <2> QED BY <1>2, <2>1, GoesOne, TupleTypes
<1>13. Goes(Place(InSentence, "items"), <<Close>>, Place(Results, "after")) /\ <<Close>> \in Seq(Ops)
  <2>1. Steps(Place(InSentence, "items"), Close, Place(Results, "after"))
    BY Stacks, CloseSteps DEF InSentence
  <2> QED BY <1>2, <2>1, GoesOne, TupleTypes
<1>14. Goes(Place(InSentence, "items"), <<Close>>, Place(Results, "items"))
  BY <1>13, Stacks, ToItems
<1>15. /\ Goes(Place(Results, "items"), <<Array>> \o FlattenSeq(f), Place(InSentence, "items"))
       /\ <<Array>> \o FlattenSeq(f) \in Seq(Ops)
  BY <1>9, <1>11, <1>12, GoesOn, ConcatProperties
<1> QED BY <1>8, <1>13, <1>14, <1>15, GoesOn

\* Outside of JSON everything that is appended goes into the one string, as long as it is not nothing.
LEMMA TextGoes ==
  ASSUME NEW s \in Seq(Mores), NEW t \in Mores
  PROVE  /\ Goes(Place(Result, "value"), s \o <<t>>, Place(Result, "text"))
         /\ Goes(Place(Result, "text"), s \o <<t>>, Place(Result, "text"))
<1>1. (\A x \in Seq(Mores) : x \in Seq(Ops)) /\ \A y \in Mores : y \in Ops
  BY MoreTypes DEF Mores
<1>2. ASSUME NEW op \in Mores, NEW want \in {"value", "text"}
      PROVE  Steps(Place(Result, want), op, Place(Result, "text"))
  BY Stacks, MoreSteps
<1> DEFINE In == {x \in Seq(Mores) : Goes(Place(Result, "text"), x, Place(Result, "text"))}
<1>3. Seq(Mores) \subseteq In
  <2>1. <<>> \in In
    BY GoesNone
  <2>2. ASSUME NEW x \in Seq(Mores), NEW y \in Mores, x \in In PROVE Append(x, y) \in In
    <3>1. Append(x, y) \in Seq(Mores)
      OBVIOUS
    <3>2. Goes(Place(Result, "text"), Append(x, y), Place(Result, "text"))
      BY <1>1, <1>2, <2>2, GoesThen
    <3> QED BY <3>1, <3>2
  <2> HIDE DEF In
  <2> QED BY <2>1, <2>2, ByAppending
<1> DEFINE Out == {x \in Seq(Mores) : x = <<>> \/ Goes(Place(Result, "value"), x, Place(Result, "text"))}
<1>4. Seq(Mores) \subseteq Out
  <2>1. <<>> \in Out
    OBVIOUS
  <2>2. ASSUME NEW x \in Seq(Mores), NEW y \in Mores, x \in Out PROVE Append(x, y) \in Out
    <3>1. Append(x, y) \in Seq(Mores)
      OBVIOUS
    <3>2. CASE x = <<>>
      <4>1. Append(x, y) = <<y>>
        BY <3>2
      <4> QED BY <1>1, <1>2, <3>1, <4>1, GoesOne
    <3>3. CASE Goes(Place(Result, "value"), x, Place(Result, "text"))
      <4>1. Goes(Place(Result, "value"), Append(x, y), Place(Result, "text"))
        BY <1>1, <1>2, <3>3, GoesThen
      <4> QED BY <3>1, <4>1
    <3> QED BY <2>2, <3>2, <3>3
  <2> HIDE DEF Out
  <2> QED BY <2>1, <2>2, ByAppending
<1>5. s \o <<t>> \in Seq(Mores) /\ s \o <<t>> # <<>>
  <2>1. \A S : \A x \in Seq(S) : \A y \in S : x \o <<y>> \in Seq(S) /\ x \o <<y>> # <<>>
    OBVIOUS
  <2> QED BY <2>1
<1> QED BY <1>3, <1>4, <1>5

-----------------------------------------------------------------------------
(* The document.                                                             *)

\* What the service has an answer to: the first sentence, if there is one, is not an empty line of
\* the input; outside of JSON something is answered, so that the result is a string.
Answerable(r) ==
  IF r.mode = "JSON" THEN r.method # "generate" /\ r.sentences # <<>> => r.sentences[1] # <<>>
  ELSE r.sentences # <<>> \/ (r.mode = "XML" /\ r.method # "generate" /\ r.rest # <<>>)

\* Where the builder stands between two calls of generate.
Between(r, is_first) ==
  IF r.mode # "JSON" THEN Place(Result, IF is_first THEN "value" ELSE "text")
  ELSE IF r.method = "generate" THEN Place(Results, "items")
  ELSE IF is_first THEN Place(Results, "first value") ELSE Place(InToken, "after")

\* The call that adds the n-th sentence or line.
LEMMA CallGoes ==
  ASSUME NEW r \in Requests, Answerable(r), NEW n \in 1..Len(r.sentences), NEW is_first \in BOOLEAN, is_first <=> n = 1
  PROVE  Goes(Between(r, is_first), Script(r, n, is_first), Between(r, FALSE))
<1>1. r.sentences \in Seq(Seq(Token)) /\ r.mode \in {"JSON", "XML", "VERTICAL"}
  BY RequestParts
<1>2. r.sentences[n] \in Seq(Token) /\ Len(r.sentences) \in Nat /\ r.sentences # <<>> /\ n <= Len(r.sentences)
  BY <1>1
<1>3. Script(r, n, is_first) = IF r.method = "generate" THEN Line(r, r.sentences[n]) ELSE Sentence(r, r.sentences[n], is_first)
  BY <1>2 DEF Script
<1>4. CASE r.mode = "JSON" /\ r.method = "generate"
  <2>1. Between(r, is_first) = Place(Results, "items") /\ Between(r, FALSE) = Place(Results, "items")
    BY <1>4 DEF Between
  <2> QED BY <1>2, <1>3, <1>4, <2>1, JsonLineGoes
<1>5. CASE r.mode = "JSON" /\ r.method # "generate"
  <2>1. /\ Between(r, is_first) = IF is_first THEN Place(Results, "first value") ELSE Place(InToken, "after")
        /\ Between(r, FALSE) = Place(InToken, "after")
    BY <1>5 DEF Between
  <2>2. is_first => r.sentences[n] # <<>>
    BY <1>2, <1>5 DEF Answerable
  <2> QED BY <1>2, <1>3, <1>5, <2>1, <2>2, JsonSentenceGoes
<1>6. CASE r.mode # "JSON"
  <2>1. \E s \in Seq(Mores) : \E t \in Mores : Script(r, n, is_first) = s \o <<t>>
    <3>1. CASE r.method = "generate"
      BY <1>2, <1>3, <1>6, <3>1, LineType
    <3>2. CASE r.method # "generate"
      <4>1. \E s \in Seq(Mores) : \E t \in Mores : Sentence(r, r.sentences[n], is_first) = s \o <<t>>
        BY <1>2, <1>6, SentenceType
      <4>2. Script(r, n, is_first) = Sentence(r, r.sentences[n], is_first)
        BY <1>3, <3>2
      <4> QED BY <4>1, <4>2
    <3> QED BY <3>1, <3>2
  <2>2. PICK s \in Seq(Mores), t \in Mores : Script(r, n, is_first) = s \o <<t>>
    BY <2>1
  <2>3. /\ Goes(Place(Result, "value"), Script(r, n, is_first), Place(Result, "text"))
        /\ Goes(Place(Result, "text"), Script(r, n, is_first), Place(Result, "text"))
    BY <2>2, TextGoes
  <2> QED BY <1>6, <2>3 DEF Between
<1> QED BY <1>4, <1>5, <1>6

\* The last call closes what is open.
LEMMA LastCallGoes ==
  ASSUME NEW r \in Requests, Answerable(r), NEW n \in Nat, n > Len(r.sentences), NEW is_first \in BOOLEAN,
         is_first => r.sentences = <<>>
  PROVE  Goes(Between(r, is_first), Script(r, n, is_first), Place(<<>>, "end"))
<1> DEFINE a == Optional(r.mode = "XML" /\ r.rest # <<>>, <<More(r.rest)>>)
           b == Optional(r.mode = "JSON" /\ ~is_first /\ r.rest # <<>>, <<Key("space"), Value(r.rest)>>)
           c == Optional(r.mode = "JSON" /\ ~is_first, <<Close, Close>>)
           d == Optional(r.mode = "JSON", <<Close>>)
<1>1. r.rest \in Seq(Words) /\ r.sentences \in Seq(Seq(Token)) /\ r.mode \in {"JSON", "XML", "VERTICAL"} /\ "space" \in Words
  BY RequestParts, Names
<1>2. More(r.rest) \in Mores /\ More(r.rest) \in Ops /\ Key("space") \in Ops /\ Value(r.rest) \in Ops /\ Close \in Ops /\ Finish \in Ops
  BY <1>1, OpTypes, MoreTypes
<1>3. /\ <<More(r.rest)>> \in Seq(Ops) /\ <<Key("space"), Value(r.rest)>> \in Seq(Ops) /\ <<Close, Close>> \in Seq(Ops)
      /\ <<Close>> \in Seq(Ops) /\ <<Finish>> \in Seq(Ops) /\ <<>> \in Seq(Ops)
  BY <1>2, TupleTypes, Zenon
<1>4. a \in Seq(Ops) /\ b \in Seq(Ops) /\ c \in Seq(Ops) /\ d \in Seq(Ops)
  BY <1>3, OptionalType
<1>5. Len(r.sentences) \in Nat
  BY <1>1
<1>6. Script(r, n, is_first) = NoSentence(r, is_first) \o d \o <<Finish>>
  BY <1>5 DEF Script
<1>7. NoSentence(r, is_first) = IF r.method = "generate" THEN <<>> ELSE a \o b \o c
  BY DEF NoSentence
<1>8. Goes(Place(Results, "items"), <<Close>>, Place(Result, "after"))
  <2>1. Steps(Place(Results, "items"), Close, Place(Result, "after"))
    BY Stacks, CloseSteps DEF Results
  <2> QED BY <1>2, <2>1, GoesOne
<1>9. Goes(Place(Results, "first value"), <<Close>>, Place(Result, "after")) /\ Goes(Place(Results, "after"), <<Close>>, Place(Result, "after"))
  BY <1>8, Stacks, FromItems
<1>10. Goes(Place(Result, "after"), <<Finish>>, Place(<<>>, "end")) /\ Goes(Place(Result, "text"), <<Finish>>, Place(<<>>, "end"))
  BY <1>2, Stacks, FinishSteps, GoesOne
<1>11. Goes(Place(Result, "value"), <<More(r.rest)>>, Place(Result, "text")) /\ Goes(Place(Result, "text"), <<More(r.rest)>>, Place(Result, "text"))
  BY <1>2, Stacks, MoreSteps, GoesOne
<1>12. Goes(Place(InToken, "after"), <<Key("space"), Value(r.rest)>>, Place(InToken, "after"))
  BY <1>1, SentenceStacks, EntryGoes DEF InToken
<1>13. Goes(Place(InToken, "after"), <<Close, Close>>, Place(Results, "after"))
  <2>1. Steps(Place(InToken, "after"), Close, Place(InSentence, "after"))
    BY Stacks, SentenceStacks, CloseSteps DEF InToken
  <2>2. Steps(Place(InSentence, "after"), Close, Place(Results, "after"))
    BY Stacks, CloseSteps DEF InSentence
  <2> QED BY <1>2, <2>1, <2>2, GoesTwo
<1> DEFINE ending == IF r.mode = "JSON" THEN Place(Result, "after") ELSE Place(Result, "text")
<1>14. Goes(Between(r, is_first), NoSentence(r, is_first) \o d, ending) /\ NoSentence(r, is_first) \o d \in Seq(Ops)
  <2>1. CASE r.method = "generate"
    <3>1. NoSentence(r, is_first) \o d = d
      <4>1. \A S : \A x \in Seq(S) : <<>> \o x = x
        OBVIOUS
      <4> QED BY <1>4, <1>7, <2>1, <4>1, Zenon
    <3>2. CASE r.mode = "JSON"
      BY <1>4, <1>8, <2>1, <3>1, <3>2 DEF Between, Optional
    <3>3. CASE r.mode # "JSON"
      <4>1. ~ is_first
        BY <2>1, <3>3 DEF Answerable
      <4> QED BY <1>4, <2>1, <3>1, <3>3, <4>1, GoesNone DEF Between, Optional
    <3> QED BY <3>2, <3>3
  <2>2. CASE r.method # "generate"
    <3> DEFINE read == IF r.mode = "JSON" THEN Between(r, is_first) ELSE Place(Result, "text")
               left == IF r.mode # "JSON" THEN Place(Result, "text")
                       ELSE IF is_first THEN Place(Results, "first value") ELSE Place(Results, "after")
    <3>1. Goes(Between(r, is_first), a, read)
      <4>1. CASE r.mode = "JSON"
        BY <4>1, GoesNone DEF Optional
      <4>2. CASE r.mode = "XML" /\ r.rest # <<>>
        BY <1>11, <4>2 DEF Optional, Between
      <4>3. CASE r.mode # "JSON" /\ ~ (r.mode = "XML" /\ r.rest # <<>>)
        <5>1. ~ is_first
          BY <4>3 DEF Answerable
        <5> QED BY <4>3, <5>1, GoesNone DEF Optional, Between
      <4> QED BY <4>1, <4>2, <4>3
    <3>2. Goes(read, b, read)
      <4>1. r.mode = "JSON" /\ ~ is_first => read = Place(InToken, "after")
        BY <2>2 DEF Between
      <4> HIDE DEF read
      <4> QED BY <1>12, <4>1, GoesNone DEF Optional
    <3>3. Goes(read, c, left)
      <4>1. CASE r.mode = "JSON" /\ ~ is_first
        BY <1>13, <2>2, <4>1 DEF Between, Optional
      <4>2. CASE ~ (r.mode = "JSON" /\ ~ is_first)
        <5>1. read = left
          BY <2>2, <4>2 DEF Between
        <5> HIDE DEF read, left
        <5> QED BY <4>2, <5>1, GoesNone DEF Optional
      <4> QED BY <4>1, <4>2
    <3>4. Goes(left, d, ending)
      BY <1>9, GoesNone DEF Optional
    <3>5. NoSentence(r, is_first) = a \o b \o c
      BY <1>7, <2>2
    <3> HIDE DEF a, b, c, d, read, left, ending
    <3>6. Goes(Between(r, is_first), a \o b, read) /\ a \o b \in Seq(Ops)
      BY <1>4, <3>1, <3>2, GoesOn, ConcatProperties
    <3>7. Goes(Between(r, is_first), a \o b \o c, left) /\ a \o b \o c \in Seq(Ops)
      BY <1>4, <3>3, <3>6, GoesOn, ConcatProperties
    <3> QED BY <1>4, <3>4, <3>5, <3>7, GoesOn, ConcatProperties
  <2> QED BY <2>1, <2>2
<1>15. Goes(ending, <<Finish>>, Place(<<>>, "end"))
  BY <1>10
<1> HIDE DEF ending, d
<1> QED BY <1>3, <1>6, <1>14, <1>15, GoesOn

\* The reader has read what was sent, and the document stands where the generator left it.
DocumentInv ==
  /\ reader = Read(Reader, sent)
  /\ ~ last => position \in 0..Len(request.sentences) /\ (first <=> position = 0)
  /\ Answerable(request) => At(whole, IF last THEN Place(<<>>, "end") ELSE Between(request, first))

\* A response begins with its header.
LEMMA DocumentInit == Init => DocumentInv
<1> SUFFICES ASSUME Init PROVE DocumentInv
  OBVIOUS
<1>1. /\ request \in Requests /\ whole = Done(Clear, Header(request)) /\ reader = Reader /\ sent = <<>>
      /\ first = TRUE /\ last = FALSE /\ position = 0
  BY DEF Init
<1>2. Read(Reader, sent) = Reader
  BY <1>1, ReaderType, ReadNone
<1>3. At(whole, Between(request, TRUE))
  <2>1. At(whole, IF request.mode = "JSON" THEN Place(Results, "first value") ELSE Place(Result, "value"))
    BY <1>1, HeaderPlace
  <2>2. At(whole, Place(Results, "first value")) => At(whole, Place(Results, "items"))
    BY Stacks, Weaker
  <2> QED BY <2>1, <2>2 DEF Between
<1>4. Len(request.sentences) \in Nat
  <2>1. request.sentences \in Seq(Seq(Token))
    BY <1>1, RequestParts
  <2> QED BY <2>1
<1>5. 0 \in 0..Len(request.sentences)
  BY <1>4
<1> QED BY <1>1, <1>2, <1>3, <1>5 DEF DocumentInv

\* A call of generate.
LEMMA GenerateDocument ==
  ASSUME ResponseInv, DocumentInv, Generate, ~ last
  PROVE  DocumentInv'
<1>1. /\ whole' = Done(whole, Script(request, position + 1, first)) /\ last' = (position = Len(request.sentences))
      /\ position' = (IF last' THEN position ELSE position + 1) /\ first' = FALSE
      /\ request' = request /\ sent' = sent /\ reader' = reader
  BY DEF Generate, arguments
<1>2. /\ request \in Requests /\ first \in BOOLEAN /\ whole \in Builders
      /\ position \in 0..Len(request.sentences) /\ (first <=> position = 0)
  BY DEF ResponseInv, DocumentInv
<1>3. request.sentences \in Seq(Seq(Token)) /\ Len(request.sentences) \in Nat
  BY <1>2, RequestParts
<1>4. reader' = Read(Reader, sent')
  BY <1>1 DEF DocumentInv
<1>5. CASE position = Len(request.sentences)
  <2>1. last'
    BY <1>1, <1>5
  <2>2. ASSUME Answerable(request) PROVE At(whole', Place(<<>>, "end"))
    <3>1. position + 1 \in Nat /\ position + 1 > Len(request.sentences)
      BY <1>3, <1>5
    <3>2. first => request.sentences = <<>>
      BY <1>2, <1>3, <1>5, EmptySeq
    <3>3. Goes(Between(request, first), Script(request, position + 1, first), Place(<<>>, "end"))
      BY <1>2, <2>2, <3>1, <3>2, LastCallGoes
    <3>4. At(whole, Between(request, first))
      BY <2>2 DEF DocumentInv
    <3> QED BY <1>1, <3>3, <3>4 DEF Goes
  <2> QED BY <1>1, <1>4, <2>1, <2>2 DEF DocumentInv
<1>6. CASE position # Len(request.sentences)
  <2>1. ~ last' /\ position' = position + 1 /\ position + 1 \in 1..Len(request.sentences)
    <3>1. ~ last'
      BY <1>1, <1>6
    <3>2. position' = position + 1
      BY <1>1, <3>1
    <3>3. position + 1 \in 1..Len(request.sentences)
      BY <1>2, <1>3, <1>6
    <3> QED BY <3>1, <3>2, <3>3
  <2>2. position' \in 0..Len(request.sentences) /\ (first' <=> position' = 0)
    BY <1>1, <1>3, <2>1
  <2>3. ASSUME Answerable(request) PROVE At(whole', Between(request, FALSE))
    <3>1. first <=> position + 1 = 1
      BY <1>2
    <3>2. Goes(Between(request, first), Script(request, position + 1, first), Between(request, FALSE))
      BY <1>2, <2>1, <2>3, <3>1, CallGoes
    <3>3. At(whole, Between(request, first))
      BY <2>3 DEF DocumentInv
    <3> QED BY <1>1, <3>2, <3>3 DEF Goes
  <2> QED BY <1>1, <1>4, <2>1, <2>2, <2>3 DEF DocumentInv
<1> QED BY <1>5, <1>6

\* A piece that is sent is read.
LEMMA DeliverDocument ==
  ASSUME ResponseInv, DocumentInv, Deliver
  PROVE  DocumentInv'
<1>1. PICK piece : /\ piece = SubSeq(json.json, generator_offset + 1, generator_offset + Least(unsent, buffer))
                   /\ sent' = sent \o piece /\ reader' = Read(reader, piece)
  BY DEF Deliver
<1>2. UNCHANGED <<request, first, last, position, whole>>
  BY DEF Deliver, arguments
<1>3. sent \in Streams /\ json.json \in Streams /\ generator_offset \in 0..Len(json.json) /\ buffer \in Nat
  BY Fields DEF ResponseInv
<1>4. piece \in Streams
  <2> DEFINE data_len == Least(unsent, buffer)
  <2>1. Len(json.json) \in Nat /\ unsent = Len(json.json) - generator_offset
    BY <1>3, LenProperties DEF unsent, Streams
  <2>2. unsent \in Nat /\ data_len \in 0..unsent
    BY <1>3, <2>1 DEF Least
  <2> HIDE DEF data_len
  <2>3. generator_offset + data_len \in generator_offset..Len(json.json)
    BY <1>3, <2>1, <2>2
  <2>4. SubSeq(json.json, generator_offset + 1, generator_offset + data_len) \in Streams
    BY <1>3, <2>3, CutStream
  <2> QED BY <1>1, <2>4 DEF data_len
<1>5. Reader \in Readers
  BY ReaderType
<1>6. Read(Reader, sent \o piece) = Read(Read(Reader, sent), piece)
  BY <1>3, <1>4, <1>5, ReadConcat
<1>7. reader' = Read(Reader, sent')
  BY <1>1, <1>6 DEF DocumentInv
<1> QED BY <1>2, <1>7 DEF DocumentInv

LEMMA DocumentStep == ResponseInv /\ DocumentInv /\ [Next]_vars => DocumentInv'
<1> SUFFICES ASSUME ResponseInv, DocumentInv, [Next]_vars PROVE DocumentInv'
  OBVIOUS
<1>1. CASE Generate /\ last
  <2>1. UNCHANGED <<request, last, first, position, sent, whole, reader>>
    BY <1>1 DEF Generate, generator, arguments
  <2> QED BY <2>1 DEF DocumentInv
<1>2. CASE Generate /\ ~ last
  BY <1>2, GenerateDocument
<1>3. CASE Deliver
  BY <1>3, DeliverDocument
<1>4. CASE EndOfStream \/ \E max \in BufferSizes : Callback(max)
  <2>1. UNCHANGED <<request, last, first, position, sent, whole, reader>>
    BY <1>4 DEF EndOfStream, Callback, generator, arguments
  <2> QED BY <2>1 DEF DocumentInv
<1>5. CASE UNCHANGED vars
  <2>1. UNCHANGED <<request, last, first, position, sent, whole, reader>>
    BY <1>5 DEF vars, generator, arguments
  <2> QED BY <2>1 DEF DocumentInv
<1> QED BY <1>1, <1>2, <1>3, <1>4, <1>5 DEF Next

\* What was sent at the end is read as the document is.
LEMMA EndedWellFormed ==
  ASSUME ResponseInv, DocumentInv, Answerable(request)
  PROVE  WellFormedJson
<1> SUFFICES ASSUME pc = "ended" PROVE reader.want = "end"
  BY DEF WellFormedJson
<1>1. last /\ Content(sent) = Content(whole.json) /\ sent \in Streams /\ whole.json \in Streams
  BY Fields DEF ResponseInv
<1>2. reader = Read(Reader, sent) /\ At(whole, Place(<<>>, "end"))
  BY <1>1 DEF DocumentInv
<1>3. Read(Reader, sent) = Read(Reader, whole.json)
  BY <1>1, ReaderType, ReadContent
<1>4. ReadSoFar(whole).want = Closing(<<>>)
  BY <1>2 DEF At, Place, Stands, Wrote
<1> QED BY <1>2, <1>3, <1>4 DEF ReadSoFar, Closing

LEMMA TuplesGrow ==
  ASSUME NEW S, NEW a \in S, NEW b \in S, NEW c \in S, NEW d \in S
  PROVE  /\ <<a>> = Append(<<>>, a) /\ <<a, b>> = Append(<<a>>, b)
         /\ <<a, b, c>> = Append(<<a, b>>, c) /\ <<a, b, c, d>> = Append(<<a, b, c>>, d)
OBVIOUS

\* What is open between two sentences.
LEMMA OpenIsBetween ==
  ASSUME NEW r \in Requests
  PROVE  Between(r, FALSE).stack = OpenBetween(r)
<1>5. "}" \in Brackets /\ "]" \in Brackets
  BY Stacks
<1>6. \A a, b, c, d \in Brackets : <<a>> = Append(<<>>, a) /\ <<a, b>> = Append(<<a>>, b)
  BY TuplesGrow
<1>8. \A a, b, c, d \in Brackets : <<a, b, c>> = Append(<<a, b>>, c) /\ <<a, b, c, d>> = Append(<<a, b, c>>, d)
  BY TuplesGrow
<1>9. Result = <<"}">>
  BY <1>5, <1>6, Zenon DEF Result
<1>10. <<"}", "]">> = Append(<<"}">>, "]")
  BY <1>5, <1>6, Zenon
<1>11. <<"}", "]", "]">> = Append(<<"}", "]">>, "]")
  BY <1>5, <1>8, Zenon
<1>12. <<"}", "]", "]", "}">> = Append(<<"}", "]", "]">>, "}")
  BY <1>5, <1>8, Zenon
<1>13. InToken = <<"}", "]", "]", "}">> /\ Results = <<"}", "]">>
  BY <1>9, <1>10, <1>11, <1>12, Zenon DEF InToken, InSentence, Results
<1>7. \A s, w : Place(s, w).stack = s
  BY DEF Place
<1> QED BY <1>7, <1>9, <1>13 DEF Between, OpenBetween

LEMMA ApartBetween ==
  ASSUME ResponseInv, DocumentInv, Answerable(request)
  PROVE  SentencesApart
<1> SUFFICES ASSUME position > 0, ~ last PROVE whole.stack = OpenBetween(request)
  BY DEF SentencesApart
<1>1. request \in Requests /\ first = FALSE
  BY DEF ResponseInv, DocumentInv
<1>2. At(whole, Between(request, FALSE))
  BY <1>1 DEF DocumentInv
<1> QED BY <1>1, <1>2, OpenIsBetween DEF At

\* A response that has something to answer is one JSON value, read as it arrives: for every
\* request, every minimum and whatever sizes libmicrohttpd asks for, a client that has read all of
\* it has read a value and nothing after it.
THEOREM DocumentWellFormed == Spec => [](Answerable(request) => WellFormedJson)
<1>1. ResponseInv /\ DocumentInv => (Answerable(request) => WellFormedJson)
  BY EndedWellFormed
<1> QED BY <1>1, ResponseInit, ResponseStep, DocumentInit, DocumentStep, PTL DEF Spec

\* Between two calls of the generator exactly the document, its result, the last sentence and its
\* last token are open: no sentence becomes a part of another one.
THEOREM SentencesStayApart == Spec => [](Answerable(request) => SentencesApart)
<1>1. ResponseInv /\ DocumentInv => (Answerable(request) => SentencesApart)
  BY ApartBetween
<1> QED BY <1>1, ResponseInit, ResponseStep, DocumentInit, DocumentStep, PTL DEF Spec

\* If every request has something to answer, as those of the runs, every response is well formed.
THEOREM ResponsesWellFormed ==
  ASSUME \A r \in Requests : Answerable(r)
  PROVE  Spec => []WellFormedJson
<1>1. ResponseInv /\ DocumentInv => WellFormedJson
  BY EndedWellFormed DEF ResponseInv
<1> QED BY <1>1, ResponseInit, ResponseStep, DocumentInit, DocumentStep, PTL DEF Spec
=============================================================================
