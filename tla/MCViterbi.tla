------------------------------ MODULE MCViterbi ------------------------------
(* A small instance of Viterbi for TLC. *)
EXTENDS Viterbi

Element(type, index) == [type |-> type, sequence_index |-> index]
Tag0 == Element(PER_TAG, 0)
Tag1 == Element(PER_TAG, -1)
Tag2 == Element(PER_TAG, -2)
NextFormValue == Element(PER_FORM, 1)
LastVerb == Element(DYNAMIC, 0)

\* A form whose analyses have these elementary values: 0 is unknown, 2 a noun, 3 a verb.
Form(values) == [form |-> Last(values), tags |-> values]
SentencesOf(lists, n) == {[k \in DOMAIN s |-> Form(s[k])] : s \in SeqOf(lists, n)}
MCVerbs == {3}

\* Weights that follow no order, positive and negative.
Mixed(keys, seeds) ==
  {[fk \in keys |-> (FoldLeft(LAMBDA a, b : (a * (seed + 6) + b) % 101, seed + fk[1], fk[2]) % 7) - 3] : seed \in seeds}

\* Features of the states, of the window beyond them, and of the last verb.
Tag3 == Element(PER_TAG, -3)
MCTemplates == <<<<Tag0>>, <<Tag0, NextFormValue>>, <<Tag0, LastVerb>>, <<Tag1, Tag0>>, <<Tag0, Tag1, Tag2>>, <<Tag3>>>>

MCSentences ==
  {s \in SentencesOf({<<3>>, <<2, 3>>}, 4) : Len(s) = 4 /\ s[2] # s[3]}
    \cup {s \in SentencesOf({<<2, 3>>, <<0, 2>>}, 3) : Len(s) = 3}
    \cup {<<>>, <<Form(<<2, 3>>), [form |-> 2, tags |-> <<>>]>>}

\* Weights of the features that see no further than three tags, and weights of all;
\* the sequences are sorted by how far they see.
Values == {2, 3}
Values1 == {1, 2, 3}
StateKeys ==
  ({3} \X {<<a, b, d>> : a \in Values, b, d \in Values1}) \cup ({4} \X {<<b, a>> : a \in Values, b \in Values1})
    \cup ({6} \X {<<a, b>> : a \in Values, b \in Values1})
AllKeys ==
  ({1} \X {<<a, b>> : a \in Values, b \in Values1}) \cup ({2} \X {<<a>> : a \in Values1})
    \cup ({4} \X {<<b, a>> : a \in Values, b \in Values1}) \cup ({5} \X {<<a>> : a \in Values})
MCWeights == Mixed(StateKeys, 1..2) \cup Mixed(AllKeys, 1..2)
=============================================================================
