----------------------------- MODULE MCMorphology -----------------------------
(* Small instances of Morphology for TLC. *)
EXTENDS Morphology, TLC

Noun == <<7>>
Verb == <<8>>
TagNames ==
  <<"number_tag", "punctuation_tag", "symbol_tag", "unknown_tag", "open_quotation_tag", "close_quotation_tag",
    "open_parenthesis_tag", "close_parenthesis_tag", "LS", "NNP", "NNPS",
    "FW", "JJ", "RB", "NN", "NNS", "JJR", "RBR", "JJS", "RBS", "VBG", "VBD", "VBN", "VBZ", "VB", "VBP", "SYM", "CD">>
MCTags == [t \in Range(TagNames) |-> <<50 + CHOOSE k \in DOMAIN TagNames : TagNames[k] = t>>]
verbs == WrittenAs(<<NoByteOf(Noun)>>)
nouns == WrittenAs(<<ByteOf(Noun), Unrestricted>>)
MCFilters == {verbs, nouns}
MCTab == -1
MCLower == [c \in {11, 12, 15} |-> c - 10]

\* Five letters each, with initial and middle prefixes of different lengths, which overlap;
\* one initial prefix may be reached only through another one without filters.
Five == [1..5 -> {1, 2}]
Masks == {{verbs}, {nouns}, {verbs, nouns}}
FewMasks == {{verbs}, {verbs, nouns}}
Initials == [{<<1>>} -> FewMasks] \cup [{<<1>>, <<1, 2>>} -> FewMasks] \cup [{<<1, 1>>} -> FewMasks] \cup {<<>>}
Middles == [{<<2>>, <<2, 1>>} -> Masks] \cup [{<<1>>, <<1, 2, 2>>} -> Masks] \cup {<<>>}

\* Words of up to three lowercase letters are known, and two names, one of them by its tag.
MCWords(word) ==
  IF word = <<11, 2>> THEN <<Analysis(word, Noun)>>
  ELSE IF word = <<11, 1>> THEN <<Analysis(word, MCTags.NNP)>>
  ELSE IF Len(word) < 4 /\ Range(word) \subseteq {1, 2} THEN <<Analysis(word, Verb), Analysis(word, Noun)>>
  ELSE <<>>

\* Corpora: three analyses of one ending, then the same with a prefix and a longer ending.
Line(f, l, t) == [form |-> f, lemma |-> l, tag |-> t]
Training(corpus, suffix_len, rules_per_suffix, max_prefixes) ==
  [corpus |-> corpus, suffix_len |-> suffix_len, rules_per_suffix |-> rules_per_suffix,
   max_prefixes |-> max_prefixes, min_prefix_count |-> 1]
Ends == {Line(<<5, 1, 2>>, <<5, 1, 2>>, Noun), Line(<<5, 1, 2>>, <<5, 1, 2>>, Verb), Line(<<5, 1, 2>>, <<5, 1, 1>>, Verb)}
Starts == {Line(<<1, 5, 1, 2>>, <<5, 1, 2>>, Noun), Line(<<1, 2, 5, 2, 2>>, <<5, 2, 2>>, Verb)}
SuffixRules == Trained(Training(Ends, 1, 3, 0))
Prefixed == Trained(Training(Ends \cup Starts, 2, 4, 2))

\* Small corpora of any of these lines, with forms that they know and forms that they do not.
Lines ==
  {Line(<<5, 6>>, <<6>>, Noun), Line(<<5, 6>>, <<5, 2>>, Verb), Line(<<5, 1, 6>>, <<1, 6>>, Verb),
   Line(<<5, 5, 1, 6>>, <<1, 6>>, Noun), Line(<<5, 5, 2, 6>>, <<5, 2, 6>>, Noun), Line(<<15, 6>>, <<5, 6>>, Noun),
   Line(<<15, 12>>, <<15, 2>>, Verb), Line(<<6>>, <<5>>, Noun)}
Trainings ==
  {Training(c, s, r, m) :
     c \in UNION {kSubset(k, Lines) : k \in 1..3}, s \in 1..2, r \in {1, 3}, m \in {0, 2}}
SmallRules == UNION {Trained(t) : t \in Trainings}
Trials == {l.form : l \in Lines} \cup {<<15, 1, 6>>, <<15, 12, 6>>, <<5, 5, 5, 6>>, <<2, 5>>}

Request(call, language, text) ==
  [call |-> call, language |-> language, version |-> 1, text |-> text, guesser |-> FALSE, prefixes |-> FALSE,
   statistical |-> <<>>, wildcard |-> <<>>, generated |-> <<>>]
Call(text, guesser, prefixes, statistical) ==
  [Request("analyze", "czech", text) EXCEPT !.guesser = guesser, !.prefixes = prefixes, !.statistical = statistical]

\* Casings of unknown words, and of known ones.
Cased == [1..4 -> {1, 2, 11}] \cup UNION {[1..n -> {1, 2, 11}] : n \in 1..2}
\* Everything that looks like a number, and what nearly does.
NumberLike == UNION {[1..n -> {3, 15, 20, 21, 22}] : n \in 1..5}

\* Lemmas with different senses and comments, each with two forms, some of them the same.
Senseful == {<<1, 30>>, <<1, 31>>, <<1, 30, 32, 9>>, <<1>>, <<2, 30>>, <<2>>}
FormsOf(l) == <<[form |-> <<1>>, tag |-> Noun], [form |-> <<1, Len(l)>>, tag |-> Verb]>>
Groups == UNION {{[k \in 1..n |-> [lemma |-> l[k], forms |-> FormsOf(l[k])]] :
                    l \in {l \in [1..n -> Senseful] : IsInjective(l)}} : n \in 0..4}

\* An ending that is left out behind a letter, with two tags, and digits anywhere.
MCLemmatized(group, text) ==
  IF group \in {"NNS", "NNPS", "JJR_RBR", "VBZ"} /\ Len(text) > 1 /\ Last(text) = 2 THEN Front(text) ELSE text
MCEndings(text) ==
  (IF Last(text) = 2 THEN <<"JJR_RBR", "VBZ">> ELSE <<"VB_VBP">>) \o (IF 3 \in Range(text) THEN <<"CD">> ELSE <<>>)
\* The one-letter exceptions: a point, a comma, and a symbol with two tags.
MCSingles == 20 :> <<MCTags.punctuation_tag>> @@ 21 :> <<MCTags.punctuation_tag>> @@ 27 :> <<MCTags.SYM, MCTags.NN>>
MCExceptions == <<2, 1, 2, 1>> :> <<Analysis(<<2, 1>>, MCTags.NNS), Analysis(<<2, 1>>, MCTags.VBZ)>>
\* A negation, a longer one, and one that is part of a longer prefix.
MCNegations ==
  <<1>> :> [negation_len |-> 1, to_follow |-> 3] @@ <<1, 1, 2>> :> [negation_len |-> 3, to_follow |-> 1]
  @@ <<2, 2, 1>> :> [negation_len |-> 2, to_follow |-> 1] @@ <<2, 2, 2, 2>> :> [negation_len |-> 4, to_follow |-> 2]

EnglishNumbers == UNION {[1..n -> {3, 5, 6, 20, 21, 22}] : n \in 1..4} \cup {<<3, 21, 3, 3, 3>>}
MarkForms == UNION {[1..n -> {1, 20, 22, 23, 24, 25, 26, 27, 29, 33}] : n \in 1..3}
Spaced == UNION {[1..n -> {0, 7, 8}] : n \in 1..6}
MCCalls == {
  {Call(t, TRUE, TRUE, <<g>>) : t \in Five, g \in SuffixRules},
  {Call(t, TRUE, TRUE, <<>>) : t \in {<<11, 2, 2, 1, 2>>, <<11, 12, 1, 1, 2>>}},
  {Call(t, g, FALSE, s) : t \in Cased, g \in BOOLEAN, s \in {<<>>} \cup {<<r>> : r \in SuffixRules \cup Prefixed}},
  {Call(t, FALSE, FALSE, <<>>) : t \in NumberLike},
  {[Request("generate", "czech", <<1>>) EXCEPT !.guesser = TRUE, !.generated = g] : g \in Groups},
  {[Request("analyze", "english", t) EXCEPT !.guesser = g] : t \in Cased \cup MarkForms, g \in BOOLEAN},
  {[Request("analyze", "english", t) EXCEPT !.guesser = TRUE, !.version = v] : t \in EnglishNumbers, v \in 1..2},
  {[Request("analyze", "generic", t) EXCEPT !.guesser = TRUE, !.statistical = <<g>>] : t \in Cased, g \in Prefixed},
  {[Request("analyze", "generic", t) EXCEPT !.guesser = TRUE] : t \in MarkForms \cup NumberLike},
  {[Request("analyze", "generic", t) EXCEPT !.guesser = TRUE, !.statistical = <<g>>] : t \in Trials, g \in SmallRules},
  {Request("analyze", "external", t) : t \in Spaced},
  {[Request("generate", "external", t) EXCEPT !.wildcard = w] : t \in Spaced, w \in MCFilters}}
\* The texts in lowercase.
MCForms ==
  UNION {[1..n -> 1..2] : n \in 1..5} \cup UNION {[1..n -> {1, 2, 5, 6}] : n \in 1..4} \cup UNION {[1..n -> {3, 5, 20, 21, 22}] : n \in 1..5}
    \cup EnglishNumbers \cup MarkForms \cup Spaced
=============================================================================
