------------------------- MODULE StatisticalTrainer -------------------------
(***************************************************************************)
(* morpho/morpho_statistical_guesser_trainer.cpp: rules for endings, with  *)
(* and without a prefix, counted in a corpus of forms with lemmas and      *)
(* tags, and the table the encoder makes of them.  A corpus is a set of    *)
(* [form, lemma, tag], because only different forms are counted.           *)
(***************************************************************************)
EXTENDS Texts

CONSTANTS
  Lower,          \* from the uppercase and titlecase characters to their lowercase
  LowerLetters,   \* of the category Ll
  Blank, Tab      \* the separators in the text of a rule

IsUpper(c) == c \in DOMAIN Lower
AtMost(s, n) == SubSeq(s, 1, Min({n, Len(s)}))
lowercase(c) == IF IsUpper(c) THEN Lower[c] ELSE c
-----------------------------------------------------------------------------
(* A line of the corpus *)

\* Behind the first two characters of a lemma what is not a letter does not matter.
get_casing(word, allow_nonletters) ==
  LET letter(c) == IsUpper(c) \/ c \in LowerLetters
      counted == IF allow_nonletters THEN AtMost(word, 2) \o SelectSeq(Rest(word, 2), letter) ELSE word
      lower(ks) == \A k \in ks : counted[k] \in LowerLetters
  IN  CASE lower(DOMAIN counted) -> "LC"
        [] \A k \in DOMAIN counted : IsUpper(counted[k]) -> "UC"
        [] IsUpper(counted[1]) /\ lower(2..Len(counted)) -> "UCLC"
        [] OTHER -> "OTHER"

\* Letters that are uppercase in the form but not in the lemma are made lowercase.
Normalized(word, lemma) ==
  LET form_case == get_casing(word, FALSE)
      lemma_case == get_casing(lemma, TRUE)
      lowered(kept) == [k \in DOMAIN word |-> IF k \in kept THEN word[k] ELSE lowercase(word[k])]
  IN  CASE lemma_case = "LC" /\ form_case \in {"UCLC", "UC"} -> lowered({})
        [] lemma_case = "UCLC" /\ form_case = "UC" -> lowered({1})
        [] OTHER -> word

\* The longest part of the form that is in the lemma, of those the one that starts least
\* behind its place in the lemma, of those the first; the last character of the form is
\* not tried at the start of the lemma.
Stem(word, lemma) ==
  LET parts == {[form |-> f, lemma |-> l, length |-> n] :
                  f \in 0..Len(word) - 1, l \in 0..Len(lemma) - 1, n \in 1..Len(word)}
      common == {p \in parts :
                   /\ p.form - p.lemma < Len(word) - 1
                   /\ p.form + p.length <= Len(word) /\ p.lemma + p.length <= Len(lemma)
                   /\ SubSeq(word, p.form + 1, p.form + p.length) = SubSeq(lemma, p.lemma + 1, p.lemma + p.length)}
      longest == {p \in common : \A q \in common : q.length <= p.length}
      nearest == {p \in longest : \A q \in longest : p.form - p.lemma <= q.form - q.lemma}
  IN  IF common = {} THEN [form |-> 0, lemma |-> 0, length |-> 0]
      ELSE CHOOSE p \in nearest : \A q \in nearest : p.form <= q.form

Instance(line) ==
  LET normal == Normalized(line.form, line.lemma)
      stem == Stem(normal, line.lemma)
      pref_del == SubSeq(normal, 1, stem.form)
  IN  [form |-> normal, tag |-> line.tag, form_prefix |-> IF stem.lemma = 0 THEN pref_del ELSE <<>>,
       lemma_rule |-> [pref_del |-> pref_del, pref_add |-> SubSeq(line.lemma, 1, stem.lemma),
                       suff_del |-> Rest(normal, stem.form + stem.length),
                       suff_add |-> Rest(line.lemma, stem.lemma + stem.length)]]

DistinctForms(instances) == Cardinality({i.form : i \in instances})
-----------------------------------------------------------------------------
(* Training *)

\* A set in descending order of its counts, equal counts in descending order of the texts.
Ranking(elements, count, text) ==
  LET above(a, b) == count[a] > count[b] \/ (count[a] = count[b] /\ Before(text[b], text[a]))
  IN  [n \in 1..Cardinality(elements) |-> CHOOSE e \in elements : Cardinality({d \in elements : above(d, e)}) = n - 1]

PrefixesKept(data, training) ==
  LET found == {i.form_prefix : i \in data} \ {<<>>}
      count == [p \in found |-> DistinctForms({i \in data : i.form_prefix = p})]
      frequent == {p \in found : count[p] >= training.min_prefix_count}
  IN  {<<>>} \cup Range(AtMost(Ranking(frequent, count, [p \in found |-> p]), training.max_prefixes))

\* Mutant: the prefix that the instance itself gave.
OwnPrefix(instance, prefixes) == IF instance.form_prefix \in prefixes THEN instance.form_prefix ELSE <<>>
PrefixOf(instance, prefixes) ==
  LET fitting == {p \in prefixes : IsPrefix(p, instance.form)} IN
  CHOOSE p \in fitting : \A q \in fitting : Len(q) <= Len(p)

RuleText(entry) ==
  LET rule == entry.lemma_rule IN
  rule.pref_del \o <<Blank>> \o rule.pref_add \o <<Blank>> \o rule.suff_del \o <<Blank>> \o rule.suff_add
    \o <<Tab>> \o entry.tag

\* The rules of instances with a prefix and an ending, the most frequent first.
Rules(data, prefixes, prefix, suffix) ==
  LET counted == {i \in data : PrefixOf(i, prefixes) = prefix /\ IsSuffix(suffix, i.form)}
      entry(i) == [lemma_rule |-> i.lemma_rule, tag |-> i.tag]
      entries == {entry(i) : i \in counted}
      count == [e \in entries |-> DistinctForms({i \in counted : entry(i) = e})]
  IN  Ranking(entries, count, [e \in entries |-> RuleText(e)])

\* The rules of an ending and of its shorter and shorter ends, then the same without the
\* prefix; nothing if there are none with the prefix.
Gathered(data, prefixes, prefix, suffix) ==
  LET ends == [n \in DOMAIN suffix |-> Rest(suffix, n - 1)]
      more(found, p) ==
        LET add(known, s) == LET new(e) == e \notin Range(known) IN known \o SelectSeq(Rules(data, prefixes, p, s), new)
        IN  FoldLeft(add, found, ends)
      own == more(<<>>, prefix)
  IN  IF own = <<>> \/ prefix = <<>> THEN own ELSE more(own, <<>>)

\* Neighbours with the same change of the lemma become one rule with several tags.
Joined(entries) ==
  LET join(joined, e) ==
        IF joined # <<>> /\ Last(joined).lemma_rule = e.lemma_rule
        THEN [joined EXCEPT ![Len(joined)].tags = Append(@, e.tag)]
        ELSE Append(joined, [lemma_rule |-> e.lemma_rule, tags |-> <<e.tag>>])
  IN  FoldLeft(join, <<>>, entries)

\* The label of a rule in the table of the encoder: the ending backwards, then the prefix.
Label(suffix, prefix) == Reverse(suffix) \o <<Blank>> \o prefix

Table(data, training) ==
  LET prefixes == PrefixesKept(data, training)
      suffixes == UNION {{Rest(i.form, Len(i.form) - n) : n \in 1..Min({training.suffix_len, Len(i.form)})} : i \in data}
      chosen(k) == AtMost(Gathered(data, prefixes, k[1], k[2]), training.rules_per_suffix)
      labelled == {<<Label(k[2], k[1]), chosen(k)>> : k \in prefixes \X suffixes}
      rows == {r \in labelled : r[2] # <<>>}
  IN  [label \in {r[1] : r \in rows} |-> Joined((CHOOSE r \in rows : r[1] = label)[2])]

\* The guessers that can be trained: of equally frequent tags any may be the default.
Trained(training) ==
  LET data == {Instance(line) : line \in training.corpus}
      count(tag) == DistinctForms({i \in data : i.tag = tag})
      tags == {i.tag : i \in data}
  IN  {[training |-> training, rules |-> Table(data, training), default_tag |-> tag] :
         tag \in {t \in tags : \A u \in tags : count(u) <= count(t)}}
=============================================================================
