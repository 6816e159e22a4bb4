---------------------------- MODULE MCDictionary ----------------------------
(* Small instances of Dictionary for TLC. *)
EXTENDS Dictionary

\* Keys of three and more characters collide when they have the same sum.
MCHash(key, size) == SumFunction(key) % size

\* Tags of different lengths; a bracket and a hyphen are ordinary characters of a tag.
Noun == <<78, 49>>
Verb == <<86>>
MCWildcards ==
  {<<>>, <<ByteOf(<<78>>)>>, <<NoByteOf(<<78>>)>>, <<Unrestricted, ByteOf(<<50>>)>>, <<ByteOf(<<GroupStop, 45, 86>>)>>,
   <<NoByteOf(<<GroupStop, 78>>), Unrestricted>>, <<ByteOf(<<86, 78>>), NoByteOf(<<45, 48>>)>>, <<ByteOf(<<86, Negation>>), Unrestricted, Unrestricted>>,
   <<ByteOf(<<AnyByte>>), ByteOf(<<49>>)>>, <<ByteOf(<<GroupStart, 86>>)>>,
   <<NoByteOf(<<86, 79>>), ByteOf(<<49, 50>>), ByteOf(<<78>>)>>}

Lemma(text, info, forms) == [lemma |-> text, info |-> info, forms |-> forms]
Tagged(strings, tag) == {<<s, tag>> : s \in strings}

\* All sets of up to three forms of at most three characters, each with one tag.
UpToThree == UNION {[1..n -> {0, 1}] : n \in 1..3}
OneLemma == {<<Lemma(<<0, 1>>, <<1>>, Tagged(s, Noun))>> : s \in {s \in SUBSET UpToThree : Cardinality(s) \in 1..3}}

\* Three lemmas, two of which differ only in their addinfo, with forms and roots in common.
FormSets == {{<<<<0>>, Noun>>, <<<<0, 1>>, Noun>>}, {<<<<0>>, Noun>>, <<<<0, 1>>, Verb>>},
             {<<<<0, 1, 1, 0>>, Noun>>, <<<<0, 1, 1, 0>>, Verb>>, <<<<0, 1, 0, 1>>, Noun>>},
             {<<<<1, 0, 1>>, Verb>>, <<<<1, 1, 0>>, Verb>>, <<<<0, 0, 0, 1>>, Noun>>}, {<<<<0, 1>>, Noun>>}}
ThreeLemmas ==
  {<<Lemma(a, i, f), Lemma(<<0, 1, 1>>, <<2>>, g), Lemma(<<0, 1, 1>>, <<AnyId, NotGeneratable>>, h)>> :
     a \in {<<1>>, <<1, 0, 1>>, <<0, 1>>}, i \in {<<>>, <<1>>}, f, g, h \in FormSets}
MCDictionaries == OneLemma \cup ThreeLemmas
=============================================================================
