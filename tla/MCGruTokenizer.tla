--------------------------- MODULE MCGruTokenizer ---------------------------
(* A small instance of GruTokenizer for TLC. *)
EXTENDS GruTokenizer

Run(kind, n) == [k \in 1..n |-> kind]
Words == {Run("letter", 6), Run("address", 5), <<"letter", "Po">>, <<"P">>}
Gaps == {<<>>, <<"space">>, <<"LF", "LF">>, <<"CR", "LF", "CR", "LF">>}

\* Three words with gaps of every kind, so that windows end in words, addresses and gaps,
\* and another text in the middle of one.
Texts == {a \o g \o b \o h \o c \o i : a, b, c \in Words, g, h \in Gaps, i \in {<<>>, <<"space">>}}
Second == <<"P">> \o Run("letter", 3) \o <<"space">> \o Run("letter", 2)
MCInputs == {<<t>> : t \in Texts} \cup {<<t, Second>> : t \in {u \in Texts : Len(u) > 16 /\ u[1] = "letter" /\ u[2] = "Po"}}

MCClassify ==
  [kind \in Kinds |->
     CASE kind = "space" -> {NO_SPLIT, END_OF_TOKEN, END_OF_SENTENCE}
       [] kind = "P" -> {END_OF_TOKEN}
       [] kind = "Po" -> {END_OF_SENTENCE}
       [] OTHER -> {NO_SPLIT}]
=============================================================================
