---------------------------- MODULE MCDerivation -----------------------------
(* Small instances of DerivationFormatter for TLC. *)
EXTENDS DerivationFormatter

\* Lemmas of three and more characters collide when they have the same sum.
MCHash(key, size) == SumFunction(key) % size

Noun == <<7>>
Verb == <<8>>
AnyOne == <<9>>
Named(l, t) == [lemma |-> l, tag |-> t]
Known(l, ts) == [lemma |-> l, tags |-> ts]

\* Four plain lemmas, with every choice of one parent for each, itself for none.
Plain == <<<<0>>, <<0, 1>>, <<1, 0, 0>>, <<1, 0, 1>>>>
PlainMorpho == {Known(l, {Noun}) : l \in Range(Plain)}
PlainFiles ==
  {<<[k \in 1..4 |-> <<Named(Plain[k], AnyOne), Named(Plain[f[k]], AnyOne)>>], PlainMorpho>> : f \in [1..4 -> 1..4]}

\* Two senses of one lemma, one of them with two comments, a lemma without a sense and
\* one with the same sense as the others: the lines name ids, or lemmas by their tags.
Sensed ==
  {Known(<<0, 2, 4, 1>>, {Noun}), Known(<<0, 2, 4, 0, 1>>, {Noun, Verb}), Known(<<0, 3>>, {Verb}),
   Known(<<0, 1, 0, 3, 4, 0>>, {Noun}), Known(<<0, 1, 0, 2>>, {Verb}), Known(<<1>>, {Noun, Verb})}
Columns == {Named(<<0>>, Noun), Named(<<0>>, Verb), Named(<<0, 2>>, AnyOne), Named(<<0, 1, 0>>, Noun),
            Named(<<0, 1, 0>>, Verb), Named(<<1>>, AnyOne), Named(<<0>>, AnyOne)}
SecondLines ==
  {<<Named(<<0, 1, 0>>, Noun), Named(<<0, 2>>, AnyOne)>>, <<Named(<<1>>, AnyOne), Named(<<0, 1, 0>>, Verb)>>,
   <<Named(<<0>>, Verb), Named(<<1>>, AnyOne)>>, <<Named(<<0, 1, 0>>, Verb), Named(<<0>>, Noun)>>}
SensedFiles == {<<<<<<a, b>>, l>>, Sensed>> : a, b \in Columns, l \in SecondLines}

MCFiles == PlainFiles \cup SensedFiles

\* All formats of one lemma, also of an unknown one and with another comment, and of two
\* that have their tree, or only their raw lemma, in common.
Analyses == {<<Named(l, Noun)>> : l \in {<<0>>, <<1, 0, 0>>, <<0, 2, 4, 1>>, <<0, 3, 4, 1>>, <<0, 1, 0, 2>>}}
              \cup {<<Named(<<0, 2, 4, 1>>, Noun), Named(<<0, 2, 4, 0, 1>>, Noun)>>, <<Named(<<0, 1>>, Noun), Named(<<0>>, Noun)>>}
MCRequests ==
  [formatter : {"none", "root", "path", "tree"}, converter : {"identity", "pdt_to_conll2009", "strip_lemma_id"}, analyses : Analyses]
=============================================================================
